---------------------------- MODULE SessionProofs ----------------------------
(***************************************************************************)
(* What is proved of the two programs that act on a session's worktrees    *)
(* and pull requests.                                                      *)
(*                                                                         *)
(* Of PRWatcher, for any number of sessions and of lives of the daemon:    *)
(* its three invariants and its action property.  SoleInv says whose the   *)
(* pidfile is, ReadInv that a daemon that rewrites a plan has read all of  *)
(* it, both until two daemons overlap.  DaemonInv is about the list of     *)
(* actions: what is on it has fired, and it has one comment per session at *)
(* most.  CommentInv counts the lives that have had their comment.         *)
(*                                                                         *)
(* Of SessionLifecycle, for any number of callers, issues, routes and      *)
(* scripts that meet its assumptions: its four invariants.  LifecycleInv   *)
(* has what each caller relies on (Local) and what holds between the       *)
(* verbs (Global).  Quiet says what a step of one caller does to all the   *)
(* others, short of a commit, so that each action has only itself to       *)
(* account for.                                                            *)
(***************************************************************************)
EXTENDS PRWatcher, SessionLifecycle, TLAPS, FiniteSetTheorems, SequenceTheorems

AllStatuses == Statuses \cup {"executing", "paused", "failed"}
Acts == [do : {"move", "inject", "reengage", "comment"}, s : Sessions, t : Tripwires]
Snaps == {<<>>} \cup UNION { [S -> [status : AllStatuses, pr : BOOLEAN, pt : BOOLEAN,
                                    opened : {"unset", "young", "old"}]] : S \in SUBSET Sessions }
Ticks == [snap : Snaps, todo : SUBSET Sessions, acts : Seq(Acts), read : SUBSET Tripwires]
Daemons == [pc : {"unborn", "starting", "idle", "look", "act", "write", "dead"},
            fired : SUBSET (Tripwires \X Sessions), tick : Ticks]

TypeOK ==
  /\ status \in [Sessions -> AllStatuses]
  /\ pr \in [Sessions -> {"none", "open", "merged"}]
  /\ ci \in [Sessions -> {"FAIL", "other"}]
  /\ pt \in [Sessions -> {"none", "incomplete", "complete"}]
  /\ opened \in [Sessions -> {"unset", "young", "old"}]
  /\ plan \in [Sessions -> SUBSET Tripwires]
  /\ comments \in [Sessions -> Nat]
  /\ daemon \in [Lives -> Daemons]
  /\ pidfile \in Lives \cup {0}
  /\ stopper \in BOOLEAN
  /\ budget \in Nat
  /\ why \in [overlap : BOOLEAN, lost : [Sessions -> SUBSET Tripwires]]

Starting == {w \in Lives : daemon[w].pc = "starting"}

\* Until two daemons overlap, the one that runs is the one the pidfile names, and
\* none starts while it runs.
SoleInv ==
  ~why.overlap =>
    /\ \A w \in Running : pidfile = w
    /\ \A w \in Starting : Running = {} /\ \A x \in Starting : x = w

\* Until then, too, whoever is rewriting a plan has read what is in it.
ReadInv ==
  ~why.overlap =>
    \A w \in Lives : daemon[w].pc = "write" =>
      plan[Head(daemon[w].tick.acts).s] \subseteq daemon[w].tick.read

\* An action that tells somebody what has fired.
Tells(a) == a.do \in {"inject", "comment"}

\* A list of actions all of which come from F, the pairs of tripwire and session:
\* only one tripwire comments, and no session gets two comments.
List(q, F) ==
  /\ q \in Seq(Acts)
  /\ \A i \in DOMAIN q :
       /\ <<q[i].t, q[i].s>> \in F
       /\ Tells(q[i]) => (q[i].do = "comment" <=> q[i].t = "pt_missing")
  /\ \A i, j \in DOMAIN q :
       q[i].do = "comment" /\ q[j].do = "comment" /\ q[i].s = q[j].s => i = j

DaemonOK(d) ==
  /\ List(d.tick.acts, d.fired)
  /\ d.pc \in {"unborn", "starting"} => d.fired = {}
  /\ d.pc \notin {"look", "act", "write"} => d.tick.acts = <<>>
  /\ d.pc \in {"act", "write"} => d.tick.acts # <<>>
  /\ d.pc = "write" => Head(d.tick.acts).do = "inject"

DaemonInv == \A w \in Lives : DaemonOK(daemon[w])

\* The lives that have no comment on s ahead of them.
Awaits(q, s) == \E i \in DOMAIN q : q[i].s = s /\ q[i].do = "comment"
SpentOn(d, s) == \/ d.pc = "dead"
                 \/ <<"pt_missing", s>> \in d.fired /\ ~Awaits(d.tick.acts, s)
Spent(s) == {w \in Lives : SpentOn(daemon[w], s)}

CommentInv == \A s \in Sessions : comments[s] <= Cardinality(Spent(s))

IInv == TypeOK /\ SoleInv /\ ReadInv /\ DaemonInv /\ CommentInv /\ FiredIsTold
-----------------------------------------------------------------------------
(* Lists of actions.                                                       *)

\* f is told by an action of q.
TellsOf(q, f) == \E i \in DOMAIN q : q[i].s = f[2] /\ q[i].t = f[1] /\ Tells(q[i])

LEMMA EmptyList ==
  ASSUME NEW F
  PROVE  List(<<>>, F) /\ <<>> \in Seq(Acts)
BY EmptySeq DEF List

LEMMA MoreFired ==
  ASSUME NEW q, NEW F, List(q, F), NEW G, F \subseteq G
  PROVE  List(q, G)
BY DEF List

\* Two lists about different pairs make one.
LEMMA ListConcat ==
  ASSUME NEW q, NEW F, List(q, F), NEW r, NEW G, List(r, G), F \cap G = {}
  PROVE  /\ List(q \o r, F \cup G)
         /\ \A f : TellsOf(q, f) \/ TellsOf(r, f) => TellsOf(q \o r, f)
<1> DEFINE z == q \o r
<1>1. /\ q \in Seq(Acts) /\ r \in Seq(Acts) /\ z \in Seq(Acts)
      /\ Len(q) \in Nat /\ Len(r) \in Nat /\ Len(z) = Len(q) + Len(r)
      /\ DOMAIN q = 1..Len(q) /\ DOMAIN r = 1..Len(r) /\ DOMAIN z = 1..Len(z)
      /\ \A i \in 1..Len(z) : z[i] = IF i <= Len(q) THEN q[i] ELSE r[i - Len(q)]
  BY ConcatProperties, LenProperties DEF List
<1> HIDE DEF z
<1>2. /\ \A i \in DOMAIN q : i \in DOMAIN z /\ z[i] = q[i]
      /\ \A j \in DOMAIN r : j + Len(q) \in DOMAIN z /\ z[j + Len(q)] = r[j]
      /\ \A i \in DOMAIN z : \/ i \in DOMAIN q
                             \/ i - Len(q) \in DOMAIN r /\ z[i] = r[i - Len(q)]
  BY <1>1
<1>3. \A i \in DOMAIN z :
        /\ <<z[i].t, z[i].s>> \in F \cup G
        /\ Tells(z[i]) => (z[i].do = "comment" <=> z[i].t = "pt_missing")
  BY <1>2 DEF List
<1>4. ASSUME NEW i \in DOMAIN z, NEW j \in DOMAIN z,
             z[i].do = "comment", z[j].do = "comment", z[i].s = z[j].s
      PROVE  i = j
  <2>1. z[i].t = "pt_missing" /\ z[j].t = "pt_missing"
    BY <1>3, <1>4 DEF Tells
  <2>2. CASE i \in DOMAIN q /\ j \in DOMAIN q
    BY <1>2, <1>4, <2>2 DEF List
  <2>3. CASE i \notin DOMAIN q /\ j \notin DOMAIN q
    <3>1. i - Len(q) = j - Len(q)
      BY <1>2, <1>4, <2>3 DEF List
    <3> QED
      BY <1>1, <3>1
  <2>4. \A x \in DOMAIN q, y \in DOMAIN r :
          ~(q[x].t = "pt_missing" /\ r[y].t = "pt_missing" /\ q[x].s = r[y].s)
    <3>1. /\ \A x \in DOMAIN q : <<q[x].t, q[x].s>> \in F
          /\ \A y \in DOMAIN r : <<r[y].t, r[y].s>> \in G
      BY DEF List
    <3> QED
      BY <3>1
  <2>5. ~(i \in DOMAIN q /\ j \notin DOMAIN q) /\ ~(i \notin DOMAIN q /\ j \in DOMAIN q)
    BY <1>2, <1>4, <2>1, <2>4
  <2> QED
    BY <2>2, <2>3, <2>5
<1>5. List(z, F \cup G)
  BY <1>1, <1>3, <1>4 DEF List
<1>6. \A f : TellsOf(q, f) \/ TellsOf(r, f) => TellsOf(z, f)
  BY <1>2 DEF TellsOf
<1> QED
  BY <1>5, <1>6 DEF z

LEMMA AwaitsConcat ==
  ASSUME NEW q \in Seq(Acts), NEW r \in Seq(Acts), NEW s, Awaits(q \o r, s)
  PROVE  Awaits(q, s) \/ Awaits(r, s)
<1> DEFINE z == q \o r
<1>1. /\ Len(q) \in Nat /\ Len(r) \in Nat /\ Len(z) = Len(q) + Len(r)
      /\ DOMAIN q = 1..Len(q) /\ DOMAIN r = 1..Len(r) /\ DOMAIN z = 1..Len(z)
      /\ \A i \in 1..Len(z) : z[i] = IF i <= Len(q) THEN q[i] ELSE r[i - Len(q)]
  BY ConcatProperties, LenProperties
<1>2. PICK i \in DOMAIN z : z[i].s = s /\ z[i].do = "comment"
  BY DEF Awaits
<1> HIDE DEF z
<1>3. \/ i \in DOMAIN q /\ z[i] = q[i]
      \/ i - Len(q) \in DOMAIN r /\ z[i] = r[i - Len(q)]
  BY <1>1
<1> QED
  BY <1>2, <1>3 DEF Awaits

LEMMA TellsConcat ==
  ASSUME NEW q \in Seq(Acts), NEW r \in Seq(Acts), NEW f, TellsOf(q, f) \/ TellsOf(r, f)
  PROVE  TellsOf(q \o r, f)
<1> DEFINE z == q \o r
<1>1. /\ Len(q) \in Nat /\ Len(r) \in Nat /\ Len(z) = Len(q) + Len(r)
      /\ DOMAIN q = 1..Len(q) /\ DOMAIN r = 1..Len(r) /\ DOMAIN z = 1..Len(z)
      /\ \A i \in 1..Len(z) : z[i] = IF i <= Len(q) THEN q[i] ELSE r[i - Len(q)]
  BY ConcatProperties, LenProperties
<1> HIDE DEF z
<1>2. /\ \A i \in DOMAIN q : i \in DOMAIN z /\ z[i] = q[i]
      /\ \A j \in DOMAIN r : j + Len(q) \in DOMAIN z /\ z[j + Len(q)] = r[j]
  BY <1>1
<1> QED
  BY <1>2 DEF TellsOf, z

\* What is left when the head has been dealt with.
LEMMA ListTail ==
  ASSUME NEW q, NEW F, List(q, F), q # <<>>
  PROVE  /\ List(Tail(q), F) /\ Head(q) \in Acts /\ <<Head(q).t, Head(q).s>> \in F
         /\ Tells(Head(q)) => (Head(q).do = "comment" <=> Head(q).t = "pt_missing")
         /\ \A f : TellsOf(q, f) =>
              \/ TellsOf(Tail(q), f)
              \/ Tells(Head(q)) /\ Head(q).t = f[1] /\ Head(q).s = f[2]
         /\ \A s : Awaits(Tail(q), s) => Awaits(q, s)
         /\ Head(q).do = "comment" => /\ Awaits(q, Head(q).s)
                                      /\ ~Awaits(Tail(q), Head(q).s)
<1> DEFINE z == Tail(q)
<1>1. /\ q \in Seq(Acts) /\ z \in Seq(Acts) /\ Head(q) = q[1] /\ Head(q) \in Acts
      /\ Len(q) \in Nat \ {0} /\ Len(z) = Len(q) - 1
      /\ DOMAIN q = 1..Len(q) /\ DOMAIN z = 1..Len(z)
      /\ \A i \in 1..Len(z) : z[i] = q[i + 1]
  BY HeadTailProperties, LenProperties, EmptySeq DEF List
<1> HIDE DEF z
<1>2. /\ 1 \in DOMAIN q
      /\ \A i \in DOMAIN z : i + 1 \in DOMAIN q /\ z[i] = q[i + 1] /\ i + 1 # 1
      /\ \A i \in DOMAIN q : i = 1 \/ (i - 1 \in DOMAIN z /\ z[i - 1] = q[i])
  BY <1>1
<1>3. List(z, F)
  <2>1. \A i \in DOMAIN z :
          /\ <<z[i].t, z[i].s>> \in F
          /\ Tells(z[i]) => (z[i].do = "comment" <=> z[i].t = "pt_missing")
    BY <1>2 DEF List
  <2>2. ASSUME NEW i \in DOMAIN z, NEW j \in DOMAIN z,
               z[i].do = "comment", z[j].do = "comment", z[i].s = z[j].s
        PROVE  i = j
    <3>1. i + 1 = j + 1
      BY <1>2, <2>2 DEF List
    <3> QED
      BY <1>1, <3>1
  <2> QED
    BY <1>1, <2>1, <2>2 DEF List
<1>4. \A f : TellsOf(q, f) => \/ TellsOf(z, f)
                              \/ Tells(Head(q)) /\ Head(q).t = f[1] /\ Head(q).s = f[2]
  BY <1>1, <1>2 DEF TellsOf
<1>5. \A s : Awaits(z, s) => Awaits(q, s)
  BY <1>2 DEF Awaits
<1>6. Head(q).do = "comment" => Awaits(q, Head(q).s) /\ ~Awaits(z, Head(q).s)
  <2> SUFFICES ASSUME Head(q).do = "comment"
               PROVE  Awaits(q, Head(q).s) /\ ~Awaits(z, Head(q).s)
    OBVIOUS
  <2>1. Awaits(q, Head(q).s)
    BY <1>1, <1>2 DEF Awaits
  <2>2. ASSUME NEW i \in DOMAIN z, z[i].s = Head(q).s, z[i].do = "comment"
        PROVE  FALSE
    <3>1. /\ i + 1 \in DOMAIN q /\ i + 1 # 1 /\ 1 \in DOMAIN q
          /\ q[i + 1].s = q[1].s /\ q[i + 1].do = "comment" /\ q[1].do = "comment"
      BY <1>1, <1>2, <2>2
    <3> QED
      BY <3>1 DEF List
  <2> QED
    BY <2>1, <2>2 DEF Awaits
<1>7. /\ <<Head(q).t, Head(q).s>> \in F
      /\ Tells(Head(q)) => (Head(q).do = "comment" <=> Head(q).t = "pt_missing")
  BY <1>1, <1>2 DEF List
<1> QED
  BY <1>1, <1>3, <1>4, <1>5, <1>6, <1>7 DEF z

\* The actions of one tripwire.
Of(T, t, s) == IF t \notin T THEN <<>>
               ELSE [j \in DOMAIN Does(t) |-> [do |-> Does(t)[j], s |-> s, t |-> t]]
Pairs(T, s) == {<<t, s>> : t \in T}

LEMMA OfIs ==
  ASSUME NEW T \in SUBSET Tripwires, NEW t \in Tripwires, NEW s \in Sessions
  PROVE  /\ List(Of(T, t, s), Pairs(T \cap {t}, s))
         /\ \A f \in Pairs(T \cap {t}, s) : TellsOf(Of(T, t, s), f)
<1> DEFINE q == Of(T, t, s)
           n == IF t = "post_merge_ci_failure" THEN 3 ELSE 2
<1>1. CASE t \notin T
  <2>1. q = <<>> /\ Pairs(T \cap {t}, s) = {}
    BY <1>1 DEF Of, Pairs
  <2> QED
    BY <2>1, EmptyList
<1>2. CASE t \in T
  <2>1. /\ DOMAIN Does(t) = 1..n
        /\ \A j \in 1..n : Does(t)[j] \in {"move", "inject", "reengage", "comment"}
    <3>1. CASE t = "merged_executing"
      <4>1. Does(t) = <<"move", "inject">> /\ n = 2
        BY <3>1 DEF Does
      <4> QED
        BY <4>1
    <3>2. CASE t = "post_merge_ci_failure"
      <4>1. Does(t) = <<"inject", "move", "reengage">> /\ n = 3
        BY <3>2 DEF Does
      <4> QED
        BY <4>1
    <3>3. CASE t = "no_pt_pr"
      <4>1. Does(t) = <<"inject", "reengage">> /\ n = 2
        BY <3>3 DEF Does
      <4> QED
        BY <4>1
    <3>4. CASE t = "pt_missing"
      <4>1. Does(t) = <<"comment", "reengage">> /\ n = 2
        BY <3>4 DEF Does
      <4> QED
        BY <4>1
    <3> QED
      BY <3>1, <3>2, <3>3, <3>4 DEF Tripwires
  <2>2. q = [j \in 1..n |-> [do |-> Does(t)[j], s |-> s, t |-> t]]
    BY <1>2, <2>1 DEF Of
  <2>3. q \in Seq(Acts)
    <3>1. q \in [1..n -> Acts] /\ n \in Nat
      BY <2>1, <2>2 DEF Acts
    <3> QED
      BY <3>1, SeqDef
  <2>4. /\ t = "merged_executing" => Does(t) = <<"move", "inject">>
        /\ t = "post_merge_ci_failure" => Does(t) = <<"inject", "move", "reengage">>
        /\ t = "no_pt_pr" => Does(t) = <<"inject", "reengage">>
        /\ t = "pt_missing" => Does(t) = <<"comment", "reengage">>
    BY DEF Does
  <2>5. \A i \in 1..n : q[i].do = Does(t)[i] /\ q[i].s = s /\ q[i].t = t
    BY <2>2
  <2>6. DOMAIN q = 1..n /\ <<t, s>> \in Pairs(T \cap {t}, s)
    BY <1>2, <2>2 DEF Pairs
  <2>7. \A i \in 1..n : i \in {1, 2, 3} /\ (i = 3 => t = "post_merge_ci_failure")
    OBVIOUS
  <2>8. \A i \in 1..n :
          /\ Tells(q[i]) => (q[i].do = "comment" <=> t = "pt_missing")
          /\ q[i].do = "comment" => i = 1
    BY <2>4, <2>5, <2>7 DEF Tells, Tripwires
  <2>9. List(q, Pairs(T \cap {t}, s))
    BY <2>3, <2>5, <2>6, <2>8 DEF List
  <2>10. \E i \in 1..n : Tells(q[i])
    <3>1. Tells(q[1]) \/ Tells(q[2])
      BY <2>4, <2>5 DEF Tells, Tripwires
    <3> QED
      BY <3>1
  <2>11. \A f \in Pairs(T \cap {t}, s) : f[1] = t /\ f[2] = s
    BY DEF Pairs
  <2> QED
    BY <2>5, <2>6, <2>9, <2>10, <2>11 DEF TellsOf
<1> QED
  BY <1>1, <1>2

\* What a session sets off is one list, and everything in it is told.
LEMMA ActionsAre ==
  ASSUME NEW T \in SUBSET Tripwires, NEW s \in Sessions
  PROVE  /\ List(Actions(T, s), Pairs(T, s))
         /\ \A f \in Pairs(T, s) : TellsOf(Actions(T, s), f)
         /\ \A x : Awaits(Actions(T, s), x) => x = s /\ "pt_missing" \in T
<1> DEFINE P(t) == Pairs(T \cap {t}, s)
           a == Of(T, "merged_executing", s)
           b == Of(T, "post_merge_ci_failure", s)
           c == Of(T, "no_pt_pr", s)
           d == Of(T, "pt_missing", s)
           PA == P("merged_executing")
           PB == P("post_merge_ci_failure")
           PC == P("no_pt_pr")
           PD == P("pt_missing")
<1>1. /\ List(a, PA) /\ \A f \in PA : TellsOf(a, f)
      /\ List(b, PB) /\ \A f \in PB : TellsOf(b, f)
      /\ List(c, PC) /\ \A f \in PC : TellsOf(c, f)
      /\ List(d, PD) /\ \A f \in PD : TellsOf(d, f)
  BY OfIs DEF Tripwires
<1>2. /\ Actions(T, s) = ((a \o b) \o c) \o d
      /\ Pairs(T, s) = ((PA \cup PB) \cup PC) \cup PD
      /\ PA \cap PB = {} /\ (PA \cup PB) \cap PC = {} /\ ((PA \cup PB) \cup PC) \cap PD = {}
  <2>1. Actions(T, s) = ((a \o b) \o c) \o d
    BY DEF Actions, Of
  <2>2. /\ Pairs(T, s) = ((PA \cup PB) \cup PC) \cup PD
        /\ PA \cap PB = {} /\ (PA \cup PB) \cap PC = {} /\ ((PA \cup PB) \cup PC) \cap PD = {}
    BY DEF Pairs, Tripwires
  <2> QED
    BY <2>1, <2>2
<1> HIDE DEF a, b, c, d, PA, PB, PC, PD
<1>3. List(a \o b, PA \cup PB) /\ \A f \in PA \cup PB : TellsOf(a \o b, f)
  BY <1>1, <1>2, ListConcat
<1>4. /\ List((a \o b) \o c, (PA \cup PB) \cup PC)
      /\ \A f \in (PA \cup PB) \cup PC : TellsOf((a \o b) \o c, f)
  BY <1>1, <1>2, <1>3, ListConcat
<1>5. /\ List(Actions(T, s), Pairs(T, s))
      /\ \A f \in Pairs(T, s) : TellsOf(Actions(T, s), f)
  <2> DEFINE abc == (a \o b) \o c
             F == (PA \cup PB) \cup PC
  <2>1. List(abc, F) /\ List(d, PD) /\ F \cap PD = {}
    BY <1>1, <1>2, <1>4
  <2>2. \A f \in F \cup PD : TellsOf(abc, f) \/ TellsOf(d, f)
    BY <1>1, <1>4
  <2> HIDE DEF abc, F
  <2>3. List(abc \o d, F \cup PD) /\ \A f \in F \cup PD : TellsOf(abc \o d, f)
    BY <2>1, <2>2, ListConcat
  <2> QED
    BY <1>2, <2>3 DEF abc, F
<1>6. \A x : Awaits(Actions(T, s), x) => x = s /\ "pt_missing" \in T
  BY <1>5 DEF Awaits, List, Pairs, Tells
<1> QED
  BY <1>5, <1>6

-----------------------------------------------------------------------------
(* What the steps do to the daemon that takes them.                        *)

PCs == {"unborn", "starting", "idle", "look", "act", "write", "dead"}

\* The other daemons are left alone.
Only(w) == /\ daemon' \in [Lives -> Daemons]
           /\ \A x \in Lives : x # w => daemon'[x] = daemon[x]

\* What the daemon is now.
Is(w, pc, fired, tick) ==
  daemon'[w].pc = pc /\ daemon'[w].fired = fired /\ daemon'[w].tick = tick

LEMMA TickTypes ==
  /\ NoTick \in Ticks /\ NoTick.acts = <<>>
  /\ \A q \in Seq(Acts) : /\ [NoTick EXCEPT !.acts = q] \in Ticks
                          /\ [NoTick EXCEPT !.acts = q].acts = q
BY EmptySeq DEF NoTick, Ticks, Snaps

LEMMA DaemonTypes ==
  ASSUME TypeOK, NEW w \in Lives
  PROVE  /\ daemon[w] \in Daemons
         /\ daemon[w].pc \in PCs /\ daemon[w].tick \in Ticks
         /\ daemon[w].fired \in SUBSET (Tripwires \X Sessions)
         /\ daemon[w].tick.snap \in Snaps /\ daemon[w].tick.todo \in SUBSET Sessions
         /\ daemon[w].tick.acts \in Seq(Acts) /\ daemon[w].tick.read \in SUBSET Tripwires
<1>1. daemon[w] \in Daemons
  BY DEF TypeOK
<1>2. daemon[w].tick \in Ticks /\ daemon[w].pc \in PCs
      /\ daemon[w].fired \in SUBSET (Tripwires \X Sessions)
  BY <1>1 DEF Daemons, PCs
<1> QED
  BY <1>1, <1>2 DEF Ticks

LEMMA StepIs ==
  ASSUME TypeOK, NEW w \in Lives, NEW pc \in PCs, NEW tick \in Ticks, Step(w, pc, tick)
  PROVE  Only(w) /\ Is(w, pc, daemon[w].fired, tick)
<1> DEFINE d == [daemon[w] EXCEPT !.pc = pc, !.tick = tick]
<1>1. daemon \in [Lives -> Daemons] /\ daemon[w] \in Daemons
  BY DEF TypeOK
<1>2. /\ daemon' = [daemon EXCEPT ![w] = d]
      /\ d \in Daemons /\ d.pc = pc /\ d.tick = tick /\ d.fired = daemon[w].fired
  BY <1>1 DEF Step, Daemons, PCs
<1> HIDE DEF d
<1> QED
  BY <1>1, <1>2 DEF Only, Is

\* The start of a daemon.
LEMMA StartIs ==
  ASSUME TypeOK, NEW w \in Lives, Start(w)
  PROVE  Only(w) /\ daemon[w].pc = "unborn" /\ Is(w, "starting", {}, NoTick)
<1> DEFINE d == [daemon[w] EXCEPT !.pc = "starting"]
<1>1. daemon \in [Lives -> Daemons] /\ daemon[w] \in Daemons
  BY DEF TypeOK
<1>2. daemon[w].pc = "unborn" /\ daemon[w].fired = {} /\ daemon[w].tick = NoTick
  BY DEF Start, Unborn
<1>3. /\ daemon' = [daemon EXCEPT ![w] = d]
      /\ d \in Daemons /\ d.pc = "starting" /\ d.tick = NoTick /\ d.fired = {}
  BY <1>1, <1>2 DEF Start, Daemons
<1> HIDE DEF d
<1> QED
  BY <1>1, <1>2, <1>3 DEF Only, Is

\* The end of one.
LEMMA EndIs ==
  ASSUME TypeOK, NEW w \in Lives,
         daemon' = [daemon EXCEPT ![w] = [Unborn EXCEPT !.pc = "dead"]]
  PROVE  Only(w) /\ Is(w, "dead", {}, NoTick)
<1> DEFINE d == [Unborn EXCEPT !.pc = "dead"]
<1>1. daemon \in [Lives -> Daemons]
  BY DEF TypeOK
<1>2. d \in Daemons /\ d.pc = "dead" /\ d.fired = {} /\ d.tick = NoTick
  BY TickTypes DEF Daemons, Unborn
<1> HIDE DEF d
<1>3. daemon' = [daemon EXCEPT ![w] = d]
  BY DEF d
<1> QED
  BY <1>1, <1>2, <1>3 DEF Only, Is

LEMMA BeginIs ==
  ASSUME TypeOK, NEW w \in Lives, Begin(w)
  PROVE  Only(w) /\ daemon[w].pc = "starting" /\ Is(w, "idle", daemon[w].fired, NoTick)
BY StepIs, TickTypes DEF Begin, PCs

LEMMA BuildIs ==
  ASSUME TypeOK, NEW w \in Lives, Build(w)
  PROVE  /\ Only(w) /\ daemon[w].pc = "idle"
         /\ \E k \in Ticks : k.acts = <<>> /\ Is(w, "look", daemon[w].fired, k)
         /\ opened' \in [Sessions -> {"unset", "young", "old"}]
<1> DEFINE active == {s \in Sessions : status[s] \in _ACTIVE_STATUSES}
           snap == [s \in active |-> [status |-> status[s], pr |-> pr[s] # "none",
                                      pt |-> pt[s] # "none", opened |-> opened'[s]]]
           k == [NoTick EXCEPT !.todo = active, !.snap = snap]
<1>1. opened' \in [Sessions -> {"unset", "young", "old"}]
  BY DEF Build, Sighted, TypeOK
<1>2. snap \in Snaps
  <2>1. snap \in [active -> [status : AllStatuses, pr : BOOLEAN, pt : BOOLEAN,
                             opened : {"unset", "young", "old"}]]
    BY <1>1 DEF TypeOK
  <2> QED
    BY <2>1 DEF Snaps
<1>3. daemon[w].pc = "idle" /\ Step(w, "look", k)
  BY DEF Build
<1> HIDE DEF snap
<1>4. k \in Ticks /\ k.acts = <<>>
  BY <1>2, TickTypes DEF Ticks, NoTick
<1> HIDE DEF k
<1> QED
  BY <1>1, <1>3, <1>4, StepIs DEF PCs

\* The head of the list has been dealt with.
LEMMA DoneIs ==
  ASSUME TypeOK, DaemonInv, NEW w \in Lives, daemon[w].pc \in {"act", "write"}, Done(w)
  PROVE  /\ Only(w)
         /\ \E pc \in {"idle", "act"}, k \in Ticks :
              /\ Is(w, pc, daemon[w].fired, k)
              /\ k.acts = Tail(daemon[w].tick.acts)
              /\ pc = "idle" <=> k.acts = <<>>
<1> DEFINE acts == Tail(daemon[w].tick.acts)
           k == [NoTick EXCEPT !.acts = acts]
<1>1. acts \in Seq(Acts)
  BY ListTail DEF DaemonInv, DaemonOK, List
<1>2. k \in Ticks /\ k.acts = acts
  BY <1>1, TickTypes
<1>3. Step(w, IF acts = <<>> THEN "idle" ELSE "act", k)
  BY DEF Done
<1> HIDE DEF k
<1> QED
  BY <1>2, <1>3, StepIs DEF PCs

\* A session has been seen: F, what it set off, has fired, and q, its actions,
\* have gone to the end of the list.
WasSeen(w, s, q, F) ==
  \E pc \in {"look", "idle", "act"}, k \in Ticks :
    /\ Is(w, pc, daemon[w].fired \cup Pairs(F, s), k)
    /\ k.acts = daemon[w].tick.acts \o q
    /\ pc = "idle" => k.acts = <<>>
    /\ pc = "act" => k.acts # <<>>

LEMMA SeenIs ==
  ASSUME TypeOK, NEW w \in Lives, NEW s \in Sessions,
         NEW q \in Seq(Acts), NEW F \in SUBSET Tripwires, Seen(w, s, q, F)
  PROVE  /\ Only(w)
         /\ WasSeen(w, s, q, F)
<1> DEFINE k == daemon[w].tick
           left == k.todo \ {s}
           all == k.acts \o q
           fired == daemon[w].fired \cup Pairs(F, s)
           pc == IF left # {} THEN "look" ELSE IF all = <<>> THEN "idle" ELSE "act"
           tick == IF left # {} THEN [k EXCEPT !.todo = left, !.acts = @ \o q]
                   ELSE [NoTick EXCEPT !.acts = all]
           d == [daemon[w] EXCEPT !.fired = fired, !.pc = pc, !.tick = tick]
<1>1. /\ daemon \in [Lives -> Daemons] /\ daemon[w] \in Daemons /\ k \in Ticks
      /\ daemon[w].fired \in SUBSET (Tripwires \X Sessions)
      /\ k.todo \in SUBSET Sessions /\ all \in Seq(Acts)
  <2>1. k.acts \in Seq(Acts)
    BY DaemonTypes
  <2> QED
    BY <2>1, DaemonTypes, ConcatProperties DEF TypeOK
<1>2. daemon' = [daemon EXCEPT ![w] = d]
  BY DEF Seen, Pairs
<1>3. tick \in Ticks /\ tick.acts = all
  <2>1. CASE left # {}
    BY <1>1, <2>1 DEF Ticks
  <2>2. CASE left = {}
    BY <1>1, <2>2, TickTypes
  <2> QED
    BY <2>1, <2>2
<1>4. /\ pc \in {"look", "idle", "act"}
      /\ pc = "idle" => all = <<>>
      /\ pc = "act" => all # <<>>
  OBVIOUS
<1>5. fired \in SUBSET (Tripwires \X Sessions)
  BY <1>1 DEF Pairs
<1> HIDE DEF tick, pc, all, fired
<1>6. d.pc = pc /\ d.fired = fired /\ d.tick = tick
  BY <1>1 DEF Daemons
<1>7. d \in Daemons
  BY <1>1, <1>3, <1>4, <1>5 DEF Daemons
<1> HIDE DEF d
<1>8. Only(w) /\ Is(w, pc, fired, tick)
  BY <1>1, <1>2, <1>6, <1>7 DEF Only, Is
<1> QED
  BY <1>3, <1>4, <1>8 DEF fired, all, WasSeen

\* Looking at a session: its actions go to the end of the list and what set them
\* off has fired; or nothing comes of it; or something has fired and is lost.
LEMMA LookIs ==
  ASSUME TypeOK, NEW w \in Lives, Look(w)
  PROVE  /\ Only(w) /\ daemon[w].pc = "look"
         /\ \E s \in Sessions, T \in SUBSET Tripwires, q \in Seq(Acts), F \in SUBSET Tripwires :
              /\ WasSeen(w, s, q, F)
              /\ Pairs(T, s) \cap daemon[w].fired = {}
              /\ \/ q = Actions(T, s) /\ F = T /\ UNCHANGED why
                 \/ q = <<>> /\ F = {} /\ UNCHANGED why
                 \/ q = <<>> /\ F \subseteq T /\ why' = [why EXCEPT !.lost[s] = @ \cup F]
<1>1. PICK s \in daemon[w].tick.todo :
        LET snap == daemon[w].tick.snap[s]
            T == Unfired(w, {t \in Tripwires : Trips(t, s, snap)}, s) IN
        \/ /\ IF snap.pr THEN Seen(w, s, Actions(T, s), T) ELSE Seen(w, s, <<>>, {})
           /\ UNCHANGED <<budget, why>>
        \/ /\ snap.pr /\ Seen(w, s, <<>>, {})
           /\ UNCHANGED <<budget, why>>
        \/ /\ snap.pr /\ snap.pt /\ <<"pt_missing", s>> \notin daemon[w].fired
           /\ Fault
           /\ Seen(w, s, <<>>, T \ {"pt_missing"})
           /\ why' = [why EXCEPT !.lost[s] = @ \cup (T \ {"pt_missing"})]
  BY DEF Look
<1>2. /\ s \in Sessions /\ daemon[w].pc = "look"
      /\ Unfired(w, {t \in Tripwires : Trips(t, s, daemon[w].tick.snap[s])}, s) \in SUBSET Tripwires
  BY DaemonTypes DEF Look, Unfired
<1> PICK T \in SUBSET Tripwires :
       T = Unfired(w, {t \in Tripwires : Trips(t, s, daemon[w].tick.snap[s])}, s)
  BY <1>2
<1>3. Pairs(T, s) \cap daemon[w].fired = {}
  BY DEF Unfired, Pairs
<1>4. Actions(T, s) \in Seq(Acts) /\ <<>> \in Seq(Acts)
  BY <1>2, ActionsAre, EmptySeq DEF List
<1>5. \/ Seen(w, s, Actions(T, s), T) /\ UNCHANGED why
      \/ Seen(w, s, <<>>, {}) /\ UNCHANGED why
      \/ Seen(w, s, <<>>, T \ {"pt_missing"}) /\ why' = [why EXCEPT !.lost[s] = @ \cup (T \ {"pt_missing"})]
  BY <1>1
<1>6. CASE Seen(w, s, Actions(T, s), T) /\ UNCHANGED why
  <2>1. Only(w) /\ WasSeen(w, s, Actions(T, s), T)
    BY <1>2, <1>4, <1>6, SeenIs
  <2> QED
    BY <1>2, <1>3, <1>4, <1>6, <2>1
<1>7. CASE Seen(w, s, <<>>, {}) /\ UNCHANGED why
  <2>1. Only(w) /\ WasSeen(w, s, <<>>, {})
    BY <1>2, <1>4, <1>7, SeenIs
  <2> QED
    BY <1>2, <1>3, <1>4, <1>7, <2>1
<1>8. CASE /\ Seen(w, s, <<>>, T \ {"pt_missing"})
           /\ why' = [why EXCEPT !.lost[s] = @ \cup (T \ {"pt_missing"})]
  <2> DEFINE F == T \ {"pt_missing"}
  <2>1. F \in SUBSET Tripwires /\ F \subseteq T
    BY <1>2
  <2>2. Seen(w, s, <<>>, F) /\ why' = [why EXCEPT !.lost[s] = @ \cup F]
    BY <1>8
  <2> HIDE DEF F
  <2>3. Only(w) /\ WasSeen(w, s, <<>>, F)
    BY <1>2, <1>4, <2>1, <2>2, SeenIs
  <2> QED
    BY <1>2, <1>3, <1>4, <2>1, <2>2, <2>3
<1> QED
  BY <1>5, <1>6, <1>7, <1>8

-----------------------------------------------------------------------------
(* Types.                                                                  *)

\* Everything but the daemons.
FilesOK ==
  /\ status \in [Sessions -> AllStatuses]
  /\ plan \in [Sessions -> SUBSET Tripwires]
  /\ opened \in [Sessions -> {"unset", "young", "old"}]
  /\ comments \in [Sessions -> Nat]
WorldOK ==
  /\ pr \in [Sessions -> {"none", "open", "merged"}]
  /\ ci \in [Sessions -> {"FAIL", "other"}]
  /\ pt \in [Sessions -> {"none", "incomplete", "complete"}]
RestOK ==
  /\ pidfile \in Lives \cup {0} /\ stopper \in BOOLEAN /\ budget \in Nat
  /\ why \in [overlap : BOOLEAN, lost : [Sessions -> SUBSET Tripwires]]

LEMMA TypeParts ==
  TypeOK <=> FilesOK /\ WorldOK /\ RestOK /\ daemon \in [Lives -> Daemons]
BY DEF TypeOK, FilesOK, WorldOK, RestOK

LEMMA TypePartsPrimed ==
  ASSUME FilesOK', WorldOK', RestOK', daemon' \in [Lives -> Daemons]
  PROVE  TypeOK'
BY DEF TypeOK, FilesOK, WorldOK, RestOK

LEMMA Unchanged ==
  ASSUME TypeOK
  PROVE  /\ UNCHANGED files => FilesOK'
         /\ UNCHANGED world => WorldOK'
         /\ UNCHANGED <<pidfile, stopper, budget, why>> => RestOK'
<1>1. UNCHANGED files => FilesOK'
  BY DEF TypeOK, files, FilesOK
<1>2. UNCHANGED world => WorldOK'
  BY DEF TypeOK, world, WorldOK
<1>3. UNCHANGED <<pidfile, stopper, budget, why>> => RestOK'
  BY DEF TypeOK, RestOK
<1> QED
  BY <1>1, <1>2, <1>3

\* What is lost is only ever more.
LEMMA LostType ==
  ASSUME TypeOK, NEW s \in Sessions, NEW F \in SUBSET Tripwires,
         why' = [why EXCEPT !.lost[s] = @ \cup F]
  PROVE  /\ why' \in [overlap : BOOLEAN, lost : [Sessions -> SUBSET Tripwires]]
         /\ why'.overlap = why.overlap
         /\ \A x \in Sessions : why.lost[x] \subseteq why'.lost[x]
         /\ F \subseteq why'.lost[s]
BY DEF TypeOK

LEMMA OverlapType ==
  ASSUME TypeOK, NEW b \in BOOLEAN, why' = [why EXCEPT !.overlap = @ \/ b]
  PROVE  /\ why' \in [overlap : BOOLEAN, lost : [Sessions -> SUBSET Tripwires]]
         /\ why'.overlap = (why.overlap \/ b)
         /\ why'.lost = why.lost
<1>1. (why.overlap \/ b) \in BOOLEAN /\ why.overlap \in BOOLEAN
  BY DEF TypeOK
<1>2. why'.lost = why.lost /\ why'.overlap = (why.overlap \/ b)
  BY DEF TypeOK
<1>3. why' = [overlap |-> why'.overlap, lost |-> why'.lost]
  BY DEF TypeOK
<1> QED
  BY <1>1, <1>2, <1>3 DEF TypeOK

LEMMA StartType == ASSUME TypeOK, NEW w \in Lives, Start(w) PROVE TypeOK'
<1>1. FilesOK' /\ WorldOK' /\ daemon' \in [Lives -> Daemons]
  BY Unchanged, StartIs DEF Start, Only
<1>2. RestOK'
  BY OverlapType DEF Start, RestOK, TypeOK
<1> QED
  BY <1>1, <1>2, TypePartsPrimed

LEMMA BeginType == ASSUME TypeOK, NEW w \in Lives, Begin(w) PROVE TypeOK'
<1>1. FilesOK' /\ WorldOK' /\ daemon' \in [Lives -> Daemons]
  BY Unchanged, BeginIs DEF Begin, Only
<1>2. RestOK'
  BY DEF Begin, RestOK, TypeOK
<1> QED
  BY <1>1, <1>2, TypePartsPrimed

\* A daemon that dies while it rewrites a plan may leave it empty.
LEMMA DiesIs ==
  ASSUME TypeOK, DaemonInv, NEW w \in Lives, Dies(w)
  PROVE  \/ UNCHANGED <<plan, why>>
         \/ \E s \in Sessions :
              /\ daemon[w].pc = "write"
              /\ plan' = [plan EXCEPT ![s] = {}]
              /\ why' = [why EXCEPT !.lost[s] = @ \cup plan[s]]
<1>1. CASE daemon[w].pc = "write"
  <2>1. Head(daemon[w].tick.acts).s \in Sessions
    BY <1>1, ListTail DEF DaemonInv, DaemonOK, Acts
  <2> QED
    BY <1>1, <2>1 DEF Dies
<1>2. CASE daemon[w].pc # "write"
  BY <1>2 DEF Dies
<1> QED
  BY <1>1, <1>2

LEMMA DiesType == ASSUME TypeOK, DaemonInv, NEW w \in Lives, Dies(w) PROVE TypeOK'
<1>1. WorldOK' /\ daemon' \in [Lives -> Daemons]
  BY Unchanged, EndIs DEF Dies, Only
<1>2. FilesOK' /\ RestOK'
  <2>1. CASE UNCHANGED <<plan, why>>
    BY <2>1 DEF Dies, FilesOK, RestOK, TypeOK
  <2>2. CASE \E s \in Sessions :
              /\ daemon[w].pc = "write"
              /\ plan' = [plan EXCEPT ![s] = {}]
              /\ why' = [why EXCEPT !.lost[s] = @ \cup plan[s]]
    <3>1. PICK s \in Sessions :
              /\ plan' = [plan EXCEPT ![s] = {}]
              /\ why' = [why EXCEPT !.lost[s] = @ \cup plan[s]]
      BY <2>2
    <3>2. plan[s] \in SUBSET Tripwires /\ plan' \in [Sessions -> SUBSET Tripwires]
      BY <3>1 DEF TypeOK
    <3>3. why' \in [overlap : BOOLEAN, lost : [Sessions -> SUBSET Tripwires]]
      BY <3>1, <3>2 DEF TypeOK
    <3> QED
      BY <3>2, <3>3 DEF Dies, FilesOK, RestOK, TypeOK
  <2> QED
    BY <2>1, <2>2, DiesIs
<1> QED
  BY <1>1, <1>2, TypePartsPrimed

LEMMA InterruptedType == ASSUME TypeOK, NEW w \in Lives, Interrupted(w) PROVE TypeOK'
<1>1. FilesOK' /\ WorldOK' /\ daemon' \in [Lives -> Daemons]
  BY Unchanged, EndIs DEF Interrupted, Only
<1>2. RestOK'
  BY DEF Interrupted, RestOK, TypeOK
<1> QED
  BY <1>1, <1>2, TypePartsPrimed

LEMMA StopType == ASSUME TypeOK, StopFinds \/ StopUnlinks PROVE TypeOK'
<1>1. FilesOK' /\ WorldOK' /\ daemon' \in [Lives -> Daemons]
  BY Unchanged, TypeParts DEF StopFinds, StopUnlinks
<1>2. RestOK'
  <2>1. CASE StopFinds
    BY <2>1 DEF StopFinds, RestOK, TypeOK
  <2>2. CASE StopUnlinks
    <3>1. why' \in [overlap : BOOLEAN, lost : [Sessions -> SUBSET Tripwires]]
      BY <2>2, OverlapType DEF StopUnlinks
    <3> QED
      BY <2>2, <3>1 DEF StopUnlinks, RestOK, TypeOK
  <2> QED
    BY <2>1, <2>2
<1> QED
  BY <1>1, <1>2, TypePartsPrimed

LEMMA BuildType == ASSUME TypeOK, NEW w \in Lives, Build(w) PROVE TypeOK'
<1>1. FilesOK' /\ WorldOK' /\ RestOK' /\ daemon' \in [Lives -> Daemons]
  BY Unchanged, BuildIs DEF Build, Only, FilesOK, TypeOK
<1> QED
  BY <1>1, TypePartsPrimed

LEMMA LookType == ASSUME TypeOK, NEW w \in Lives, Look(w) PROVE TypeOK'
<1>1. FilesOK' /\ WorldOK' /\ daemon' \in [Lives -> Daemons]
  BY Unchanged, LookIs DEF Look, Only
<1>2. why' \in [overlap : BOOLEAN, lost : [Sessions -> SUBSET Tripwires]]
  <2>1. \/ UNCHANGED why
        \/ \E s \in Sessions, F \in SUBSET Tripwires : why' = [why EXCEPT !.lost[s] = @ \cup F]
    BY LookIs
  <2> QED
    BY <2>1, LostType DEF TypeOK
<1>3. RestOK'
  BY <1>2 DEF Look, Fault, RestOK, TypeOK
<1> QED
  BY <1>1, <1>2, <1>3, TypePartsPrimed

LEMMA HeadIs ==
  ASSUME TypeOK, DaemonInv, NEW w \in Lives, daemon[w].pc \in {"act", "write"}
  PROVE  /\ Head(daemon[w].tick.acts) \in Acts
         /\ Head(daemon[w].tick.acts).s \in Sessions
         /\ Head(daemon[w].tick.acts).t \in Tripwires
BY ListTail DEF DaemonInv, DaemonOK, Acts

LEMMA MoveType == ASSUME TypeOK, DaemonInv, NEW w \in Lives, DoMove(w) PROVE TypeOK'
<1>1. WorldOK' /\ RestOK' /\ daemon' \in [Lives -> Daemons]
  BY Unchanged, DoneIs DEF DoMove, Does1, Only
<1>2. FilesOK'
  BY DEF DoMove, FilesOK, TypeOK, AllStatuses
<1> QED
  BY <1>1, <1>2, TypePartsPrimed

\* Either there is nothing to write, or the plan has been read.
LEMMA InjectIs ==
  ASSUME TypeOK, DaemonInv, NEW w \in Lives, DoInject(w)
  PROVE  /\ daemon[w].pc = "act" /\ Head(daemon[w].tick.acts).do = "inject"
         /\ \/ /\ Head(daemon[w].tick.acts).t \in plan[Head(daemon[w].tick.acts).s]
               /\ Done(w)
            \/ /\ Only(w)
               /\ \E k \in Ticks : /\ Is(w, "write", daemon[w].fired, k)
                                   /\ k.acts = daemon[w].tick.acts
                                   /\ k.read = plan[Head(daemon[w].tick.acts).s]
<1> DEFINE s == Head(daemon[w].tick.acts).s
           k == [daemon[w].tick EXCEPT !.read = plan[s]]
<1>1. /\ daemon[w].pc = "act" /\ Head(daemon[w].tick.acts).do = "inject"
      /\ IF Marked(s, Head(daemon[w].tick.acts).t) THEN Done(w) ELSE Step(w, "write", k)
  BY DEF DoInject, Does1
<1>2. daemon[w].tick \in Ticks /\ plan[s] \in SUBSET Tripwires
  BY <1>1, DaemonTypes, HeadIs DEF TypeOK
<1>3. k \in Ticks /\ k.acts = daemon[w].tick.acts /\ k.read = plan[s]
  BY <1>2 DEF Ticks
<1> HIDE DEF k
<1> QED
  BY <1>1, <1>3, StepIs DEF Marked, PCs

LEMMA InjectType == ASSUME TypeOK, DaemonInv, NEW w \in Lives, DoInject(w) PROVE TypeOK'
<1>1. FilesOK' /\ WorldOK' /\ RestOK' /\ daemon' \in [Lives -> Daemons]
  BY Unchanged, DoneIs, InjectIs DEF DoInject, Only
<1> QED
  BY <1>1, TypePartsPrimed

LEMMA WriteType == ASSUME TypeOK, DaemonInv, NEW w \in Lives, DoWrite(w) PROVE TypeOK'
<1>1. WorldOK' /\ RestOK' /\ daemon' \in [Lives -> Daemons]
  BY Unchanged, DoneIs DEF DoWrite, Only
<1>2. FilesOK'
  <2>1. /\ daemon[w].tick.read \in SUBSET Tripwires
        /\ Head(daemon[w].tick.acts).t \in Tripwires
    BY DaemonTypes, HeadIs DEF DoWrite
  <2> QED
    BY <2>1 DEF DoWrite, Text, FilesOK, TypeOK
<1> QED
  BY <1>1, <1>2, TypePartsPrimed

LEMMA CommentType == ASSUME TypeOK, DaemonInv, NEW w \in Lives, DoComment(w) PROVE TypeOK'
<1>1. WorldOK' /\ daemon' \in [Lives -> Daemons]
  BY Unchanged, DoneIs DEF DoComment, Does1, Only
<1>2. FilesOK'
  BY DEF DoComment, FilesOK, TypeOK
<1>3. RestOK'
  <2>1. why' \in [overlap : BOOLEAN, lost : [Sessions -> SUBSET Tripwires]]
    <3>1. \/ UNCHANGED why
          \/ \E s \in Sessions : why' = [why EXCEPT !.lost[s] = @ \cup {"pt_missing"}]
      BY DEF DoComment
    <3>2. {"pt_missing"} \in SUBSET Tripwires
      BY DEF Tripwires
    <3> QED
      BY <3>1, <3>2, LostType DEF TypeOK
  <2> QED
    BY <2>1 DEF DoComment, Fault, RestOK, TypeOK
<1> QED
  BY <1>1, <1>2, <1>3, TypePartsPrimed

LEMMA ReengageType == ASSUME TypeOK, DaemonInv, NEW w \in Lives, DoReengage(w) PROVE TypeOK'
<1>1. WorldOK' /\ RestOK' /\ daemon' \in [Lives -> Daemons]
  BY Unchanged, DoneIs DEF DoReengage, Does1, Only
<1>2. FilesOK'
  <2>1. \A from \in AllStatuses : UNION {AfterResume(x) : x \in AfterPause(from)} \subseteq AllStatuses
    BY DEF AfterResume, AfterPause, AllStatuses
  <2> QED
    BY <2>1 DEF DoReengage, FilesOK, TypeOK
<1> QED
  BY <1>1, <1>2, TypePartsPrimed

LEMMA OthersType ==
  ASSUME TypeOK, NEW s \in Sessions, GitHubMoves(s) \/ TenMinutes(s) \/ Moved(s)
  PROVE  TypeOK'
<1>1. RestOK' /\ daemon' \in [Lives -> Daemons]
  BY Unchanged, TypeParts DEF GitHubMoves, TenMinutes, Moved
<1>2. WorldOK'
  <2>1. CASE GitHubMoves(s)
    BY <2>1 DEF GitHubMoves, WorldOK, TypeOK
  <2> QED
    BY <2>1, Unchanged DEF TenMinutes, Moved
<1>3. FilesOK'
  <2>1. CASE TenMinutes(s)
    BY <2>1 DEF TenMinutes, FilesOK, TypeOK
  <2>2. CASE Moved(s)
    BY <2>2 DEF Moved, FilesOK, TypeOK, AllStatuses, Statuses
  <2> QED
    BY <2>1, <2>2, Unchanged DEF GitHubMoves
<1> QED
  BY <1>1, <1>2, <1>3, TypePartsPrimed

LEMMA TypeStep == ASSUME TypeOK, DaemonInv, [Next]_vars PROVE TypeOK'
<1>1. CASE UNCHANGED vars
  BY <1>1 DEF TypeOK, vars, world, files
<1>2. ASSUME NEW w \in Lives, Tick(w) PROVE TypeOK'
  BY <1>2, BuildType, LookType, MoveType, InjectType, WriteType, CommentType, ReengageType DEF Tick
<1>3. ASSUME NEW w \in Lives, Start(w) \/ Begin(w) \/ Dies(w) \/ Interrupted(w) PROVE TypeOK'
  BY <1>3, StartType, BeginType, DiesType, InterruptedType
<1> QED
  BY <1>1, <1>2, <1>3, StopType, OthersType DEF Next

-----------------------------------------------------------------------------
(* The lists stay lists.                                                   *)

LEMMA DaemonOne ==
  ASSUME DaemonInv, NEW w \in Lives, Only(w), DaemonOK(daemon'[w])
  PROVE  DaemonInv'
BY DEF DaemonInv, Only

\* A daemon with nothing on its list.
LEMMA NothingToDo ==
  ASSUME NEW w \in Lives, NEW pc \in {"starting", "idle", "dead"}, NEW fired, NEW k,
         Is(w, pc, fired, k), k.acts = <<>>, pc = "starting" => fired = {}
  PROVE  DaemonOK(daemon'[w])
BY EmptyList DEF Is, DaemonOK

LEMMA DoneOK ==
  ASSUME TypeOK, DaemonInv, NEW w \in Lives, daemon[w].pc \in {"act", "write"}, Done(w)
  PROVE  DaemonInv'
<1>1. PICK pc \in {"idle", "act"}, k \in Ticks :
        /\ Is(w, pc, daemon[w].fired, k)
        /\ k.acts = Tail(daemon[w].tick.acts)
        /\ pc = "idle" <=> k.acts = <<>>
  BY DoneIs
<1>2. List(k.acts, daemon[w].fired)
  <2>1. List(daemon[w].tick.acts, daemon[w].fired) /\ daemon[w].tick.acts # <<>>
    BY DEF DaemonInv, DaemonOK
  <2>2. List(Tail(daemon[w].tick.acts), daemon[w].fired)
    BY <2>1, ListTail
  <2> QED
    BY <1>1, <2>2
<1>3. DaemonOK(daemon'[w])
  BY <1>1, <1>2 DEF DaemonOK, Is
<1> QED
  BY <1>3, DoneIs, DaemonOne

LEMMA DaemonStep == ASSUME TypeOK, DaemonInv, [Next]_vars PROVE DaemonInv'
<1>1. CASE UNCHANGED daemon
  BY <1>1 DEF DaemonInv
<1>2. ASSUME NEW w \in Lives, Start(w) PROVE DaemonInv'
  BY <1>2, StartIs, NothingToDo, TickTypes, DaemonOne
<1>3. ASSUME NEW w \in Lives, Begin(w) PROVE DaemonInv'
  BY <1>3, BeginIs, NothingToDo, TickTypes, DaemonOne
<1>4. ASSUME NEW w \in Lives, Dies(w) \/ Interrupted(w) PROVE DaemonInv'
  <2>1. Only(w) /\ Is(w, "dead", {}, NoTick)
    BY <1>4, EndIs DEF Dies, Interrupted
  <2> QED
    BY <2>1, NothingToDo, TickTypes, DaemonOne
<1>5. ASSUME NEW w \in Lives, Build(w) PROVE DaemonInv'
  <2>1. DaemonOK(daemon'[w])
    BY <1>5, BuildIs, EmptyList DEF Is, DaemonOK
  <2> QED
    BY <1>5, <2>1, BuildIs, DaemonOne
<1>6. ASSUME NEW w \in Lives, Look(w) PROVE DaemonInv'
  <2>1. PICK s \in Sessions, T \in SUBSET Tripwires, q \in Seq(Acts), F \in SUBSET Tripwires :
          /\ WasSeen(w, s, q, F)
          /\ Pairs(T, s) \cap daemon[w].fired = {}
          /\ \/ q = Actions(T, s) /\ F = T /\ UNCHANGED why
             \/ q = <<>> /\ F = {} /\ UNCHANGED why
             \/ q = <<>> /\ F \subseteq T /\ why' = [why EXCEPT !.lost[s] = @ \cup F]
    BY <1>6, LookIs
  <2>2. List(daemon[w].tick.acts, daemon[w].fired)
    BY DEF DaemonInv, DaemonOK
  <2>3. List(q, Pairs(F, s)) /\ daemon[w].fired \cap Pairs(F, s) = {}
    <3>1. List(q, Pairs(F, s))
      <4>1. List(<<>>, Pairs(F, s)) /\ List(Actions(T, s), Pairs(T, s))
        BY ActionsAre, EmptyList
      <4> QED
        BY <2>1, <4>1
    <3>2. Pairs(F, s) \subseteq Pairs(T, s)
      BY <2>1 DEF Pairs
    <3> QED
      BY <2>1, <3>1, <3>2
  <2>4. List(daemon[w].tick.acts \o q, daemon[w].fired \cup Pairs(F, s))
    BY <2>2, <2>3, ListConcat
  <2>5. DaemonOK(daemon'[w])
    BY <2>1, <2>4 DEF WasSeen, Is, DaemonOK
  <2> QED
    BY <1>6, <2>5, LookIs, DaemonOne
<1>7. ASSUME NEW w \in Lives, DoMove(w) \/ DoWrite(w) \/ DoComment(w) \/ DoReengage(w)
      PROVE  DaemonInv'
  BY <1>7, DoneOK DEF DoMove, DoWrite, DoComment, DoReengage, Does1
<1>8. ASSUME NEW w \in Lives, DoInject(w) PROVE DaemonInv'
  <2>1. CASE Done(w)
    BY <1>8, <2>1, DoneOK, InjectIs
  <2>2. CASE ~Done(w)
    <3>1. Only(w) /\ daemon[w].pc = "act" /\ Head(daemon[w].tick.acts).do = "inject"
      BY <1>8, <2>2, InjectIs
    <3>2. PICK k \in Ticks : Is(w, "write", daemon[w].fired, k) /\ k.acts = daemon[w].tick.acts
      BY <1>8, <2>2, InjectIs
    <3>3. DaemonOK(daemon'[w])
      BY <3>1, <3>2 DEF DaemonInv, DaemonOK, Is
    <3> QED
      BY <3>1, <3>3, DaemonOne
  <2> QED
    BY <2>1, <2>2
<1> QED
  BY <1>1, <1>2, <1>3, <1>4, <1>5, <1>6, <1>7, <1>8
     DEF Next, Tick, StopFinds, StopUnlinks, GitHubMoves, TenMinutes, Moved, vars

-----------------------------------------------------------------------------
(* One daemon at a time.                                                   *)

\* In a step of a running daemon the same daemons run, and none is added that starts.
LEMMA TickRuns ==
  ASSUME TypeOK, DaemonInv, NEW w \in Lives, Tick(w)
  PROVE  /\ Only(w) /\ w \in Running /\ Running' = Running /\ Starting' = Starting
         /\ UNCHANGED pidfile /\ why'.overlap = why.overlap
<1>1. /\ Only(w) /\ daemon[w].pc \in {"idle", "look", "act", "write"}
      /\ daemon'[w].pc \in {"idle", "look", "act", "write"}
  <2>1. CASE Build(w)
    BY <2>1, BuildIs DEF Is
  <2>2. CASE Look(w)
    BY <2>2, LookIs DEF WasSeen, Is
  <2>3. CASE DoMove(w) \/ DoWrite(w) \/ DoComment(w) \/ DoReengage(w)
    BY <2>3, DoneIs DEF DoMove, DoWrite, DoComment, DoReengage, Does1, Is
  <2>4. CASE DoInject(w)
    BY <2>4, InjectIs, DoneIs DEF Is
  <2> QED
    BY <2>1, <2>2, <2>3, <2>4 DEF Tick
<1>2. Running' = Running /\ Starting' = Starting /\ w \in Running
  BY <1>1 DEF Only, Running, Starting
<1>3. UNCHANGED pidfile
  BY DEF Tick, Build, Look, DoMove, DoInject, DoWrite, DoComment, DoReengage
<1>4. why'.overlap = why.overlap
  <2>1. CASE Look(w)
    <3>1. \/ UNCHANGED why
          \/ \E s \in Sessions, F \in SUBSET Tripwires : why' = [why EXCEPT !.lost[s] = @ \cup F]
      BY <2>1, LookIs
    <3> QED
      BY <3>1, LostType
  <2>2. CASE ~Look(w)
    BY <2>2 DEF Tick, Build, DoMove, DoInject, DoWrite, DoComment, DoReengage, TypeOK
  <2> QED
    BY <2>1, <2>2
<1> QED
  BY <1>1, <1>2, <1>3, <1>4

LEMMA SoleStep == ASSUME TypeOK, DaemonInv, SoleInv, [Next]_vars PROVE SoleInv'
<1> SUFFICES ASSUME ~why'.overlap
             PROVE  /\ \A x \in Running' : pidfile' = x
                    /\ \A x \in Starting' : Running' = {} /\ \A y \in Starting' : y = x
  BY DEF SoleInv
<1>1. CASE UNCHANGED <<daemon, pidfile, why>>
  BY <1>1 DEF SoleInv, Running, Starting
<1>2. ASSUME NEW w \in Lives, Start(w)
      PROVE  /\ \A x \in Running' : pidfile' = x
             /\ \A x \in Starting' : Running' = {} /\ \A y \in Starting' : y = x
  <2>1. why'.overlap = (why.overlap \/ \E x \in Lives : daemon[x].pc = "starting")
    BY <1>2, OverlapType DEF Start
  <2>2. ~why.overlap /\ Starting = {}
    BY <2>1 DEF Starting
  <2>3. Running' = Running /\ Starting' = {w}
    BY <1>2, <2>2, StartIs DEF Only, Is, Running, Starting
  <2>4. pidfile' = pidfile /\ pidfile \notin Running
    BY <1>2 DEF Start
  <2> QED
    BY <2>2, <2>3, <2>4 DEF SoleInv
<1>3. ASSUME NEW w \in Lives, Begin(w)
      PROVE  /\ \A x \in Running' : pidfile' = x
             /\ \A x \in Starting' : Running' = {} /\ \A y \in Starting' : y = x
  <2>1. ~why.overlap /\ pidfile' = w /\ w \in Starting
    BY <1>3 DEF Begin, Starting
  <2>2. Running = {} /\ Starting = {w}
    BY <2>1 DEF SoleInv
  <2>3. Running' = {w} /\ Starting' = {}
    BY <1>3, <2>2, BeginIs DEF Only, Is, Running, Starting
  <2> QED
    BY <2>1, <2>3
<1>4. ASSUME NEW w \in Lives, Dies(w)
      PROVE  /\ \A x \in Running' : pidfile' = x
             /\ \A x \in Starting' : Running' = {} /\ \A y \in Starting' : y = x
  <2>1. pidfile' = pidfile /\ ~why.overlap
    <3>1. \/ UNCHANGED why
          \/ \E s \in Sessions : why' = [why EXCEPT !.lost[s] = @ \cup plan[s]]
      BY <1>4, DiesIs
    <3>2. why'.overlap = why.overlap
      BY <3>1, LostType DEF TypeOK
    <3> QED
      BY <1>4, <3>2 DEF Dies
  <2>2. Running' = Running \ {w} /\ Starting' = Starting \ {w}
    BY <1>4, EndIs DEF Dies, Only, Is, Running, Starting
  <2> QED
    BY <2>1, <2>2 DEF SoleInv
<1>5. ASSUME NEW w \in Lives, Interrupted(w)
      PROVE  /\ \A x \in Running' : pidfile' = x
             /\ \A x \in Starting' : Running' = {} /\ \A y \in Starting' : y = x
  <2>1. ~why.overlap /\ w \in Running
    BY <1>5 DEF Interrupted, Running
  <2>2. Running' = Running \ {w} /\ Starting' = Starting \ {w}
    BY <1>5, EndIs DEF Interrupted, Only, Is, Running, Starting
  <2> QED
    BY <2>1, <2>2 DEF SoleInv
<1>6. ASSUME NEW w \in Lives, Tick(w)
      PROVE  /\ \A x \in Running' : pidfile' = x
             /\ \A x \in Starting' : Running' = {} /\ \A y \in Starting' : y = x
  BY <1>6, TickRuns DEF SoleInv
<1>7. CASE StopUnlinks
  <2>1. why'.overlap = (why.overlap \/ pidfile \in Running)
    BY <1>7, OverlapType DEF StopUnlinks
  <2>2. ~why.overlap /\ Running = {}
    BY <2>1 DEF SoleInv
  <2>3. Running' = Running /\ Starting' = Starting
    BY <1>7 DEF StopUnlinks, Running, Starting
  <2> QED
    BY <2>2, <2>3 DEF SoleInv
<1> QED
  BY <1>1, <1>2, <1>3, <1>4, <1>5, <1>6, <1>7
     DEF Next, StopFinds, GitHubMoves, TenMinutes, Moved, vars

-----------------------------------------------------------------------------
(* A daemon that rewrites a plan has read it.                              *)

\* Until two overlap, only the daemon that takes a step may be rewriting a plan.
LEMMA OneWriter ==
  ASSUME SoleInv, ~why.overlap, NEW w \in Running, NEW x \in Lives, daemon[x].pc = "write"
  PROVE  x = w
BY DEF SoleInv, Running

LEMMA ReadStep == ASSUME TypeOK, DaemonInv, SoleInv, ReadInv, [Next]_vars PROVE ReadInv'
<1> SUFFICES ASSUME ~why'.overlap, NEW x \in Lives, daemon'[x].pc = "write"
             PROVE  plan'[Head(daemon'[x].tick.acts).s] \subseteq daemon'[x].tick.read
  BY DEF ReadInv
<1> DEFINE Wanted == plan'[Head(daemon'[x].tick.acts).s] \subseteq daemon'[x].tick.read
\* It was rewriting it, and the plan is no longer.
<1>1. ASSUME ~why.overlap, daemon'[x] = daemon[x],
             \A s \in Sessions : plan'[s] \subseteq plan[s]
      PROVE  Wanted
  <2>1. daemon[x].pc = "write" /\ Head(daemon[x].tick.acts).s \in Sessions
    BY <1>1, HeadIs
  <2> QED
    BY <1>1, <2>1 DEF ReadInv
<1>2. CASE UNCHANGED <<daemon, plan>> /\ (why.overlap => why'.overlap)
  BY <1>1, <1>2
<1>3. ASSUME NEW w \in Lives, Start(w) PROVE Wanted
  <2>1. x # w /\ daemon'[x] = daemon[x] /\ ~why.overlap
    BY <1>3, StartIs, OverlapType DEF Is, Only, Start
  <2> QED
    BY <1>1, <1>3, <2>1 DEF Start, files
<1>4. ASSUME NEW w \in Lives, Begin(w) PROVE Wanted
  <2>1. x # w /\ daemon'[x] = daemon[x]
    BY <1>4, BeginIs DEF Is, Only
  <2> QED
    BY <1>1, <1>4, <2>1 DEF Begin, files
<1>5. ASSUME NEW w \in Lives, Dies(w) PROVE Wanted
  <2>1. x # w /\ daemon'[x] = daemon[x]
    BY <1>5, EndIs DEF Dies, Is, Only
  <2>2. ~why.overlap /\ \A s \in Sessions : plan'[s] \subseteq plan[s]
    <3>1. CASE UNCHANGED <<plan, why>>
      BY <3>1
    <3>2. CASE ~UNCHANGED <<plan, why>>
      <4>1. PICK s \in Sessions : /\ plan' = [plan EXCEPT ![s] = {}]
                                  /\ why' = [why EXCEPT !.lost[s] = @ \cup plan[s]]
        BY <1>5, <3>2, DiesIs
      <4>2. plan[s] \in SUBSET Tripwires /\ plan \in [Sessions -> SUBSET Tripwires]
        BY DEF TypeOK
      <4> QED
        BY <4>1, <4>2, LostType
    <3> QED
      BY <3>1, <3>2
  <2> QED
    BY <1>1, <2>1, <2>2
<1>6. ASSUME NEW w \in Lives, Interrupted(w) PROVE Wanted
  <2>1. x # w /\ daemon'[x] = daemon[x]
    BY <1>6, EndIs DEF Interrupted, Is, Only
  <2> QED
    BY <1>1, <1>6, <2>1 DEF Interrupted, files
<1>7. CASE StopUnlinks
  BY <1>2, <1>7, OverlapType DEF StopUnlinks, files
<1>8. ASSUME NEW w \in Lives, Tick(w) PROVE Wanted
  <2>1. ~why.overlap /\ Only(w) /\ w \in Running
    BY <1>8, TickRuns
  <2>2. CASE x # w
    <3>1. daemon'[x] = daemon[x]
      BY <2>1, <2>2 DEF Only
    <3>2. daemon[w].pc # "write"
      BY <2>1, <2>2, <3>1, OneWriter DEF Running
    <3>3. UNCHANGED plan
      BY <1>8, <3>2 DEF Tick, Build, Look, DoMove, DoInject, DoWrite, DoComment, DoReengage, files
    <3> QED
      BY <1>1, <2>1, <3>1, <3>3
  <2>3. CASE x = w
    <3>1. DoInject(w)
      <4>1. ~Build(w)
        BY <2>3, BuildIs DEF Is
      <4>2. ~Look(w)
        BY <2>3, LookIs DEF WasSeen, Is
      <4>3. ~(DoMove(w) \/ DoWrite(w) \/ DoComment(w) \/ DoReengage(w))
        BY <2>3, DoneIs DEF DoMove, DoWrite, DoComment, DoReengage, Does1, Is
      <4> QED
        BY <1>8, <4>1, <4>2, <4>3 DEF Tick
    <3>2. ~Done(w)
      BY <2>3, <3>1, InjectIs, DoneIs DEF Is
    <3>3. PICK k \in Ticks : /\ Is(w, "write", daemon[w].fired, k)
                             /\ k.acts = daemon[w].tick.acts
                             /\ k.read = plan[Head(daemon[w].tick.acts).s]
      BY <3>1, <3>2, InjectIs
    <3>4. UNCHANGED plan
      BY <3>1 DEF DoInject, files
    <3> QED
      BY <2>3, <3>3, <3>4 DEF Is
  <2> QED
    BY <2>2, <2>3
<1> QED
  BY <1>2, <1>3, <1>4, <1>5, <1>6, <1>7, <1>8
     DEF Next, StopFinds, GitHubMoves, TenMinutes, Moved, vars, files

-----------------------------------------------------------------------------
(* Comments.                                                               *)

LEMMA SpentFinite ==
  ASSUME NEW s
  PROVE  IsFiniteSet(Spent(s)) /\ Cardinality(Spent(s)) \in Nat /\ Spent(s) \subseteq Lives
<1>1. IsFiniteSet(Lives)
  BY FS_Interval, WatcherAssumption DEF Lives
<1> QED
  BY <1>1, FS_Subset, FS_CardinalityType DEF Spent

\* No comment is made, and who has made one, or is dead, has still, or is still.
LEMMA NoComment ==
  ASSUME TypeOK, TypeOK', CommentInv, UNCHANGED comments,
         \A w \in Lives, s \in Sessions : SpentOn(daemon[w], s) => SpentOn(daemon'[w], s)
  PROVE  CommentInv'
<1> SUFFICES ASSUME NEW s \in Sessions
             PROVE  comments[s] <= Cardinality(Spent(s)')
  BY DEF CommentInv
<1>1. Spent(s) \subseteq Spent(s)' /\ Spent(s)' \subseteq Lives
  BY DEF Spent
<1>2. IsFiniteSet(Lives)
  BY FS_Interval, WatcherAssumption DEF Lives
<1>3. IsFiniteSet(Spent(s)')
  BY <1>1, <1>2, FS_Subset
<1>4. Cardinality(Spent(s)) <= Cardinality(Spent(s)')
  BY <1>1, <1>3, FS_Subset
<1>5. Cardinality(Spent(s)) \in Nat /\ Cardinality(Spent(s)') \in Nat
  BY <1>3, SpentFinite, FS_CardinalityType
<1>6. comments[s] <= Cardinality(Spent(s)) /\ comments[s] \in Nat
  BY DEF CommentInv, TypeOK
<1> QED
  BY <1>4, <1>5, <1>6

\* The others are as they were.
LEMMA SpentOne ==
  ASSUME NEW w \in Lives, Only(w),
         \A s \in Sessions : SpentOn(daemon[w], s) => SpentOn(daemon'[w], s)
  PROVE  \A x \in Lives, s \in Sessions : SpentOn(daemon[x], s) => SpentOn(daemon'[x], s)
BY DEF Only

\* Nor does an action that has been carried out bring a comment back.
LEMMA DoneSpent ==
  ASSUME TypeOK, DaemonInv, NEW w \in Lives, daemon[w].pc \in {"act", "write"}, Done(w)
  PROVE  \A x \in Lives, s \in Sessions : SpentOn(daemon[x], s) => SpentOn(daemon'[x], s)
<1>1. PICK pc \in {"idle", "act"}, k \in Ticks :
        Is(w, pc, daemon[w].fired, k) /\ k.acts = Tail(daemon[w].tick.acts)
  BY DoneIs
<1>2. List(daemon[w].tick.acts, daemon[w].fired) /\ daemon[w].tick.acts # <<>>
  BY DEF DaemonInv, DaemonOK
<1>3. \A s : Awaits(k.acts, s) => Awaits(daemon[w].tick.acts, s)
  <2>1. \A s : Awaits(Tail(daemon[w].tick.acts), s) => Awaits(daemon[w].tick.acts, s)
    BY <1>2, ListTail
  <2> QED
    BY <1>1, <2>1
<1>4. \A s \in Sessions : SpentOn(daemon[w], s) => SpentOn(daemon'[w], s)
  BY <1>1, <1>3 DEF SpentOn, Is
<1> QED
  BY <1>4, DoneIs, SpentOne

\* A comment is made by a life that had it to make, and has it no more.
LEMMA CommentMade ==
  ASSUME TypeOK, TypeOK', DaemonInv, CommentInv, NEW w \in Lives, DoComment(w)
  PROVE  CommentInv'
<1>1. /\ daemon[w].pc = "act" /\ Done(w)
      /\ Head(daemon[w].tick.acts).do = "comment"
  BY DEF DoComment, Does1
<1> DEFINE h == Head(daemon[w].tick.acts).s
<1>2. \/ UNCHANGED comments
      \/ comments' = [comments EXCEPT ![h] = @ + 1]
  BY DEF DoComment, Does1
<1>3. \A x \in Lives, s \in Sessions : SpentOn(daemon[x], s) => SpentOn(daemon'[x], s)
  BY <1>1, DoneSpent
<1>4. CASE UNCHANGED comments
  BY <1>3, <1>4, NoComment
<1>5. CASE comments' = [comments EXCEPT ![h] = @ + 1]
  <2>1. PICK pc \in {"idle", "act"}, k \in Ticks :
          Is(w, pc, daemon[w].fired, k) /\ k.acts = Tail(daemon[w].tick.acts)
    BY <1>1, DoneIs
  <2>2. List(daemon[w].tick.acts, daemon[w].fired) /\ daemon[w].tick.acts # <<>>
    BY <1>1 DEF DaemonInv, DaemonOK
  <2>3. /\ <<Head(daemon[w].tick.acts).t, h>> \in daemon[w].fired
        /\ Head(daemon[w].tick.acts).t = "pt_missing"
        /\ Awaits(daemon[w].tick.acts, h) /\ ~Awaits(k.acts, h)
    BY <1>1, <2>1, <2>2, ListTail DEF Tells
  <2>4. w \notin Spent(h) /\ SpentOn(daemon'[w], h)
    BY <1>1, <2>1, <2>3 DEF Spent, SpentOn, Is
  <2> SUFFICES ASSUME NEW s \in Sessions
               PROVE  comments'[s] <= Cardinality(Spent(s)')
    BY DEF CommentInv
  <2>5. Spent(s) \subseteq Spent(s)' /\ Spent(s)' \subseteq Lives
    BY <1>3 DEF Spent
  <2>6. IsFiniteSet(Lives)
    BY FS_Interval, WatcherAssumption DEF Lives
  <2>7. IsFiniteSet(Spent(s)') /\ IsFiniteSet(Spent(s))
    BY <2>5, <2>6, FS_Subset, SpentFinite
  <2>8. Cardinality(Spent(s)) \in Nat /\ Cardinality(Spent(s)') \in Nat
    BY <2>7, FS_CardinalityType
  <2>9. comments[s] <= Cardinality(Spent(s)) /\ comments[s] \in Nat
    BY DEF CommentInv, TypeOK
  <2>10. CASE s # h
    <3>1. Cardinality(Spent(s)) <= Cardinality(Spent(s)') /\ comments'[s] = comments[s]
      BY <1>5, <2>5, <2>7, <2>10, FS_Subset DEF TypeOK
    <3> QED
      BY <2>8, <2>9, <3>1
  <2>11. CASE s = h
    <3>1. Spent(s) \cup {w} \subseteq Spent(s)'
      BY <2>4, <2>5, <2>11 DEF Spent
    <3>2. Cardinality(Spent(s) \cup {w}) = Cardinality(Spent(s)) + 1
      BY <2>4, <2>7, <2>11, FS_AddElement
    <3>3. Cardinality(Spent(s) \cup {w}) <= Cardinality(Spent(s)')
      BY <2>7, <3>1, FS_Subset
    <3>4. comments'[s] = comments[s] + 1
      BY <1>5, <2>11 DEF TypeOK
    <3> QED
      BY <2>8, <2>9, <3>2, <3>3, <3>4
  <2> QED
    BY <2>10, <2>11
<1> QED
  BY <1>2, <1>4, <1>5

LEMMA CommentStep == ASSUME TypeOK, TypeOK', DaemonInv, CommentInv, [Next]_vars PROVE CommentInv'
<1>1. CASE UNCHANGED <<daemon, comments>>
  BY <1>1, NoComment
<1>2. ASSUME NEW w \in Lives, Start(w) \/ Begin(w) PROVE CommentInv'
  <2>1. daemon[w].pc \in {"unborn", "starting"} /\ Only(w)
    BY <1>2, StartIs, BeginIs
  <2>2. \A s \in Sessions : ~SpentOn(daemon[w], s)
    BY <2>1 DEF SpentOn, DaemonInv, DaemonOK
  <2>3. UNCHANGED comments
    BY <1>2 DEF Start, Begin, files
  <2> QED
    BY <2>1, <2>2, <2>3, SpentOne, NoComment
<1>3. ASSUME NEW w \in Lives, Dies(w) \/ Interrupted(w) PROVE CommentInv'
  <2>1. Only(w) /\ \A s \in Sessions : SpentOn(daemon'[w], s)
    BY <1>3, EndIs DEF Dies, Interrupted, Is, SpentOn
  <2>2. UNCHANGED comments
    BY <1>3 DEF Dies, Interrupted, files
  <2> QED
    BY <2>1, <2>2, SpentOne, NoComment
<1>4. ASSUME NEW w \in Lives, Build(w) PROVE CommentInv'
  <2>1. PICK k \in Ticks : k.acts = <<>> /\ Is(w, "look", daemon[w].fired, k)
    BY <1>4, BuildIs
  <2>2. daemon[w].pc = "idle" /\ daemon[w].tick.acts = <<>> /\ Only(w)
    BY <1>4, BuildIs DEF DaemonInv, DaemonOK
  <2>3. \A s \in Sessions : SpentOn(daemon[w], s) => SpentOn(daemon'[w], s)
    BY <2>1, <2>2 DEF SpentOn, Is
  <2>4. UNCHANGED comments
    BY <1>4 DEF Build
  <2> QED
    BY <2>2, <2>3, <2>4, SpentOne, NoComment
<1>5. ASSUME NEW w \in Lives, Look(w) PROVE CommentInv'
  <2>1. PICK s \in Sessions, T \in SUBSET Tripwires, q \in Seq(Acts), F \in SUBSET Tripwires :
          /\ WasSeen(w, s, q, F)
          /\ Pairs(T, s) \cap daemon[w].fired = {}
          /\ \/ q = Actions(T, s) /\ F = T /\ UNCHANGED why
             \/ q = <<>> /\ F = {} /\ UNCHANGED why
             \/ q = <<>> /\ F \subseteq T /\ why' = [why EXCEPT !.lost[s] = @ \cup F]
    BY <1>5, LookIs
  <2>2. List(daemon[w].tick.acts, daemon[w].fired)
    BY DEF DaemonInv, DaemonOK
  <2>3. List(q, Pairs(F, s)) /\ daemon[w].fired \cap Pairs(F, s) = {}
    <3>1. List(q, Pairs(F, s))
      <4>1. List(<<>>, Pairs(F, s)) /\ List(Actions(T, s), Pairs(T, s))
        BY ActionsAre, EmptyList
      <4> QED
        BY <2>1, <4>1
    <3>2. Pairs(F, s) \subseteq Pairs(T, s)
      BY <2>1 DEF Pairs
    <3> QED
      BY <2>1, <3>1, <3>2
  <2>4. \A x : Awaits(daemon[w].tick.acts \o q, x) => Awaits(daemon[w].tick.acts, x) \/ Awaits(q, x)
    BY <2>2, AwaitsConcat DEF List
  <2>5. \A x : Awaits(q, x) => <<"pt_missing", x>> \notin daemon[w].fired
    <3>1. \A x : ~Awaits(<<>>, x)
      BY DEF Awaits
    <3>2. \A x : Awaits(Actions(T, s), x) => <<"pt_missing", x>> \in Pairs(T, s)
      BY ActionsAre DEF Pairs
    <3> QED
      BY <2>1, <3>1, <3>2
  <2>6. daemon[w].pc = "look" /\ Only(w) /\ UNCHANGED comments
    BY <1>5, LookIs DEF Look, files
  <2>7. \A x \in Sessions : SpentOn(daemon[w], x) => SpentOn(daemon'[w], x)
    BY <2>1, <2>4, <2>5, <2>6 DEF WasSeen, Is, SpentOn
  <2> QED
    BY <2>6, <2>7, SpentOne, NoComment
<1>6. ASSUME NEW w \in Lives, DoMove(w) \/ DoWrite(w) \/ DoReengage(w) PROVE CommentInv'
  BY <1>6, DoneSpent, NoComment DEF DoMove, DoWrite, DoReengage, Does1
<1>7. ASSUME NEW w \in Lives, DoInject(w) PROVE CommentInv'
  <2>1. UNCHANGED comments
    BY <1>7 DEF DoInject, files
  <2>2. CASE Done(w)
    BY <1>7, <2>1, <2>2, InjectIs, DoneSpent, NoComment
  <2>3. CASE ~Done(w)
    <3>1. PICK k \in Ticks : Is(w, "write", daemon[w].fired, k) /\ k.acts = daemon[w].tick.acts
      BY <1>7, <2>3, InjectIs
    <3>2. Only(w) /\ daemon[w].pc = "act"
      BY <1>7, <2>3, InjectIs
    <3>3. \A s \in Sessions : SpentOn(daemon[w], s) => SpentOn(daemon'[w], s)
      BY <3>1, <3>2 DEF SpentOn, Is
    <3> QED
      BY <2>1, <3>2, <3>3, SpentOne, NoComment
  <2> QED
    BY <2>2, <2>3
<1> QED
  BY <1>1, <1>2, <1>3, <1>4, <1>5, <1>6, <1>7, CommentMade
     DEF Next, Tick, StopFinds, StopUnlinks, GitHubMoves, TenMinutes, Moved, vars, files

-----------------------------------------------------------------------------
(* What has fired is told.                                                 *)

Accounted(f) == Told(f[1], f[2]) \/ f[1] \in why.lost[f[2]] \/ why.overlap

\* All that a daemon has fired has been told, is on its list, or is lost.
Accounts(w) == \A f \in daemon[w].fired : Accounted(f) \/ TellsOf(daemon[w].tick.acts, f)

LEMMA FiredIs ==
  FiredIsTold <=> \A w \in Running : Accounts(w)
BY DEF FiredIsTold, Accounts, Accounted, TellsOf, Tells

LEMMA FiredIsPrimed ==
  ASSUME \A w \in Running' : Accounts(w)'
  PROVE  FiredIsTold'
BY DEF FiredIsTold, Accounts, Accounted, TellsOf, Tells

\* What is told, or lost, remains so.
Keeps == \A f \in Tripwires \X Sessions : Accounted(f) => Accounted(f)'

LEMMA KeepsAll ==
  ASSUME \A s \in Sessions : \/ plan[s] \subseteq plan'[s] \cup why'.lost[s]
                             \/ why.overlap,
         \A s \in Sessions : comments[s] > 0 => comments'[s] > 0,
         \A s \in Sessions : why.lost[s] \subseteq why'.lost[s],
         why.overlap => why'.overlap
  PROVE  Keeps
<1> SUFFICES ASSUME NEW t \in Tripwires, NEW s \in Sessions, NEW f, f = <<t, s>>, Accounted(f)
             PROVE  Accounted(f)'
  BY DEF Keeps
<1>1. f[1] = t /\ f[2] = s
  OBVIOUS
<1>2. Told(t, s) \/ t \in why.lost[s] \/ why.overlap
  BY <1>1 DEF Accounted
<1>3. \/ IF t = "pt_missing" THEN comments'[s] > 0 ELSE t \in plan'[s]
      \/ t \in why'.lost[s] \/ why'.overlap
  BY <1>2 DEF Told
<1> QED
  BY <1>1, <1>3 DEF Accounted, Told

LEMMA ToldNow ==
  ASSUME NEW t, NEW s,
         \/ IF t = "pt_missing" THEN comments'[s] > 0 ELSE t \in plan'[s]
         \/ t \in why'.lost[s]
  PROVE  Accounted(<<t, s>>)'
<1> DEFINE f == <<t, s>>
<1>1. f[1] = t /\ f[2] = s
  OBVIOUS
<1> HIDE DEF f
<1>2. Accounted(f)'
  BY <1>1 DEF Accounted, Told
<1> QED
  BY <1>2 DEF f

\* A plan that is rewritten loses nothing, until two daemons overlap.
LEMMA WriteKeeps ==
  ASSUME TypeOK, DaemonInv, ReadInv, NEW w \in Lives, DoWrite(w), ~why.overlap, NEW s \in Sessions
  PROVE  plan[s] \subseteq plan'[s]
<1> DEFINE a == Head(daemon[w].tick.acts)
<1>1. plan' = [plan EXCEPT ![a.s] = Text(daemon[w].tick.read, a.t)] /\ daemon[w].pc = "write"
  BY DEF DoWrite
<1>2. plan[a.s] \subseteq daemon[w].tick.read
  BY <1>1 DEF ReadInv
<1> QED
  BY <1>1, <1>2 DEF Text, TypeOK

LEMMA KeepsStep ==
  ASSUME TypeOK, TypeOK', DaemonInv, ReadInv, [Next]_vars
  PROVE  Keeps
<1>1. CASE UNCHANGED <<plan, comments, why>>
  BY <1>1, KeepsAll
<1>2. ASSUME NEW w \in Lives, Start(w) PROVE Keeps
  <2>1. why'.lost = why.lost /\ (why.overlap => why'.overlap) /\ UNCHANGED <<plan, comments>>
    BY <1>2, OverlapType DEF Start, files
  <2> QED
    BY <2>1, KeepsAll
<1>3. CASE StopUnlinks
  <2>1. why'.lost = why.lost /\ (why.overlap => why'.overlap) /\ UNCHANGED <<plan, comments>>
    BY <1>3, OverlapType DEF StopUnlinks, files
  <2> QED
    BY <2>1, KeepsAll
<1>4. ASSUME NEW w \in Lives, Dies(w) PROVE Keeps
  <2>1. UNCHANGED comments
    BY <1>4 DEF Dies
  <2>2. CASE UNCHANGED <<plan, why>>
    BY <2>1, <2>2, KeepsAll
  <2>3. CASE ~UNCHANGED <<plan, why>>
    <3>1. PICK s \in Sessions : /\ plan' = [plan EXCEPT ![s] = {}]
                                /\ why' = [why EXCEPT !.lost[s] = @ \cup plan[s]]
      BY <1>4, <2>3, DiesIs
    <3>2. plan[s] \in SUBSET Tripwires /\ plan \in [Sessions -> SUBSET Tripwires]
      BY DEF TypeOK
    <3>3. /\ why'.overlap = why.overlap /\ plan[s] \subseteq why'.lost[s]
          /\ \A x \in Sessions : why.lost[x] \subseteq why'.lost[x]
      BY <3>1, <3>2, LostType
    <3>4. \A x \in Sessions : plan[x] \subseteq plan'[x] \cup why'.lost[x]
      BY <3>1, <3>2, <3>3
    <3> QED
      BY <2>1, <3>3, <3>4, KeepsAll
  <2> QED
    BY <2>2, <2>3
<1>5. ASSUME NEW w \in Lives, Look(w) PROVE Keeps
  <2>1. \/ UNCHANGED why
        \/ \E s \in Sessions, F \in SUBSET Tripwires : why' = [why EXCEPT !.lost[s] = @ \cup F]
    BY <1>5, LookIs
  <2>2. UNCHANGED <<plan, comments>>
    BY <1>5 DEF Look, files
  <2>3. (why.overlap => why'.overlap) /\ \A x \in Sessions : why.lost[x] \subseteq why'.lost[x]
    BY <2>1, LostType
  <2> QED
    BY <2>2, <2>3, KeepsAll
<1>6. ASSUME NEW w \in Lives, DoWrite(w) PROVE Keeps
  <2>1. UNCHANGED <<comments, why>>
    BY <1>6 DEF DoWrite
  <2>2. \A s \in Sessions : plan[s] \subseteq plan'[s] \/ why.overlap
    BY <1>6, WriteKeeps
  <2> QED
    BY <2>1, <2>2, KeepsAll
<1>7. ASSUME NEW w \in Lives, DoComment(w) PROVE Keeps
  <2>1. UNCHANGED plan
    BY <1>7 DEF DoComment
  <2>2. \A x \in Sessions : comments[x] > 0 => comments'[x] > 0
    BY <1>7 DEF DoComment, TypeOK
  <2>3. (why.overlap => why'.overlap) /\ \A x \in Sessions : why.lost[x] \subseteq why'.lost[x]
    <3>1. \/ UNCHANGED why
          \/ \E s \in Sessions : why' = [why EXCEPT !.lost[s] = @ \cup {"pt_missing"}]
      BY <1>7 DEF DoComment
    <3>2. {"pt_missing"} \in SUBSET Tripwires
      BY DEF Tripwires
    <3> QED
      BY <3>1, <3>2, LostType
  <2> QED
    BY <2>1, <2>2, <2>3, KeepsAll
<1>8. ASSUME NEW w \in Lives,
             \/ Begin(w) \/ Interrupted(w) \/ Build(w) \/ DoMove(w) \/ DoInject(w) \/ DoReengage(w)
      PROVE  Keeps
  BY <1>1, <1>8 DEF Begin, Interrupted, Build, DoMove, DoInject, DoReengage, files
<1>9. ASSUME NEW s \in Sessions, GitHubMoves(s) \/ TenMinutes(s) \/ Moved(s) PROVE Keeps
  BY <1>1, <1>9 DEF GitHubMoves, TenMinutes, Moved, files
<1> QED
  BY <1>1, <1>2, <1>3, <1>4, <1>5, <1>6, <1>7, <1>8, <1>9 DEF Next, Tick, StopFinds, vars, files

\* Only the daemon that has taken a step can have something new to account for.
LEMMA FiredOne ==
  ASSUME TypeOK, FiredIsTold, Keeps, NEW w \in Lives, Only(w), w \in Running' => Accounts(w)'
  PROVE  FiredIsTold'
<1> SUFFICES ASSUME NEW x \in Running'
             PROVE  Accounts(x)'
  BY FiredIsPrimed
<1>1. CASE x = w
  BY <1>1
<1>2. CASE x # w
  <2>1. x \in Lives /\ daemon'[x] = daemon[x]
    BY <1>2 DEF Running, Only
  <2>2. x \in Running
    BY <2>1 DEF Running
  <2>3. Accounts(x) /\ daemon[x].fired \in SUBSET (Tripwires \X Sessions)
    BY <2>1, <2>2, FiredIs, DaemonTypes
  <2> QED
    BY <2>1, <2>3 DEF Accounts, Keeps
<1> QED
  BY <1>1, <1>2

\* The head of the list has been dealt with: if it was to tell somebody, it has.
LEMMA FiredDone ==
  ASSUME TypeOK, DaemonInv, FiredIsTold, Keeps, NEW w \in Lives, daemon[w].pc \in {"act", "write"},
         Done(w), NEW a \in Acts, a = Head(daemon[w].tick.acts),
         Tells(a) => Accounted(<<a.t, a.s>>)'
  PROVE  FiredIsTold'
<1>1. PICK pc \in {"idle", "act"}, k \in Ticks :
        Is(w, pc, daemon[w].fired, k) /\ k.acts = Tail(daemon[w].tick.acts)
  BY DoneIs
<1>2. List(daemon[w].tick.acts, daemon[w].fired) /\ daemon[w].tick.acts # <<>>
  BY DEF DaemonInv, DaemonOK
<1>3. \A f : TellsOf(daemon[w].tick.acts, f) =>
        \/ TellsOf(Tail(daemon[w].tick.acts), f)
        \/ Tells(a) /\ a.t = f[1] /\ a.s = f[2]
  BY <1>2, ListTail
<1>4. Accounts(w) /\ daemon[w].fired \in SUBSET (Tripwires \X Sessions)
  <2>1. w \in Running
    BY DEF Running
  <2> QED
    BY <2>1, FiredIs, DaemonTypes
<1>5. ASSUME NEW f \in daemon[w].fired PROVE Accounted(f)' \/ TellsOf(k.acts, f)
  <2>1. f = <<f[1], f[2]>> /\ f \in Tripwires \X Sessions
    BY <1>4
  <2>2. CASE Accounted(f)
    BY <2>1, <2>2 DEF Keeps
  <2>3. CASE TellsOf(Tail(daemon[w].tick.acts), f)
    BY <1>1, <2>3
  <2>4. CASE Tells(a) /\ a.t = f[1] /\ a.s = f[2]
    <3>1. f = <<a.t, a.s>>
      BY <2>1, <2>4
    <3> QED
      BY <2>4, <3>1
  <2> QED
    BY <1>3, <1>4, <2>2, <2>3, <2>4 DEF Accounts
<1>6. Accounts(w)'
  BY <1>1, <1>5 DEF Accounts, Is
<1> QED
  BY <1>6, DoneIs, FiredOne

LEMMA FiredStep ==
  ASSUME TypeOK, TypeOK', DaemonInv, ReadInv, FiredIsTold, [Next]_vars
  PROVE  FiredIsTold'
<1>0. Keeps
  BY KeepsStep
<1>1. CASE UNCHANGED daemon
  <2> SUFFICES ASSUME NEW x \in Running'
               PROVE  Accounts(x)'
    BY FiredIsPrimed
  <2>1. x \in Lives /\ x \in Running
    BY <1>1 DEF Running
  <2>2. Accounts(x) /\ daemon[x].fired \in SUBSET (Tripwires \X Sessions)
    BY <2>1, FiredIs, DaemonTypes
  <2> QED
    BY <1>0, <1>1, <2>2 DEF Accounts, Keeps
<1>2. ASSUME NEW w \in Lives, Start(w) \/ Dies(w) \/ Interrupted(w) PROVE FiredIsTold'
  <2>1. Only(w) /\ w \notin Running'
    BY <1>2, StartIs, EndIs DEF Dies, Interrupted, Is, Running
  <2> QED
    BY <1>0, <2>1, FiredOne
<1>3. ASSUME NEW w \in Lives, Begin(w) PROVE FiredIsTold'
  <2>1. Only(w) /\ daemon[w].fired = {} /\ daemon'[w].fired = daemon[w].fired
    BY <1>3, BeginIs DEF Is, DaemonInv, DaemonOK
  <2>2. Accounts(w)'
    BY <2>1 DEF Accounts
  <2> QED
    BY <1>0, <2>1, <2>2, FiredOne
<1>4. ASSUME NEW w \in Lives, Build(w) PROVE FiredIsTold'
  <2>1. Only(w) /\ daemon'[w].fired = daemon[w].fired /\ daemon[w].pc = "idle"
    BY <1>4, BuildIs DEF Is
  <2>2. Accounts(w) /\ daemon[w].fired \in SUBSET (Tripwires \X Sessions)
    <3>1. w \in Running
      BY <2>1 DEF Running
    <3> QED
      BY <3>1, FiredIs, DaemonTypes
  <2>3. \A f : ~TellsOf(daemon[w].tick.acts, f)
    BY <2>1 DEF DaemonInv, DaemonOK, TellsOf
  <2>4. Accounts(w)'
    BY <1>0, <2>1, <2>2, <2>3 DEF Accounts, Keeps
  <2> QED
    BY <1>0, <2>1, <2>4, FiredOne
<1>5. ASSUME NEW w \in Lives, Look(w) PROVE FiredIsTold'
  <2>1. PICK s \in Sessions, T \in SUBSET Tripwires, q \in Seq(Acts), F \in SUBSET Tripwires :
          /\ WasSeen(w, s, q, F)
          /\ Pairs(T, s) \cap daemon[w].fired = {}
          /\ \/ q = Actions(T, s) /\ F = T /\ UNCHANGED why
             \/ q = <<>> /\ F = {} /\ UNCHANGED why
             \/ q = <<>> /\ F \subseteq T /\ why' = [why EXCEPT !.lost[s] = @ \cup F]
    BY <1>5, LookIs
  <2>2. PICK pc \in {"look", "idle", "act"}, k \in Ticks :
          Is(w, pc, daemon[w].fired \cup Pairs(F, s), k) /\ k.acts = daemon[w].tick.acts \o q
    BY <2>1 DEF WasSeen
  <2>3. Only(w) /\ daemon[w].pc = "look"
    BY <1>5, LookIs
  <2>4. Accounts(w) /\ daemon[w].fired \in SUBSET (Tripwires \X Sessions)
    <3>1. w \in Running
      BY <2>3 DEF Running
    <3> QED
      BY <3>1, FiredIs, DaemonTypes
  <2>5. daemon[w].tick.acts \in Seq(Acts)
    BY DaemonTypes
  <2>6. \A f : TellsOf(daemon[w].tick.acts, f) \/ TellsOf(q, f) => TellsOf(k.acts, f)
    BY <2>2, <2>5, TellsConcat
  <2>7. ASSUME NEW f \in daemon[w].fired PROVE Accounted(f)' \/ TellsOf(k.acts, f)
    BY <1>0, <2>4, <2>6, <2>7 DEF Accounts, Keeps
  <2>8. ASSUME NEW f \in Pairs(F, s) PROVE Accounted(f)' \/ TellsOf(k.acts, f)
    <3>1. f[1] \in F /\ f[2] = s
      BY <2>8 DEF Pairs
    <3>2. CASE q = Actions(T, s) /\ F = T
      <4>1. \A g \in Pairs(T, s) : TellsOf(Actions(T, s), g)
        BY ActionsAre
      <4> QED
        BY <2>6, <2>8, <3>2, <4>1
    <3>3. CASE why' = [why EXCEPT !.lost[s] = @ \cup F]
      <4>1. F \subseteq why'.lost[s]
        BY <3>3, LostType
      <4> QED
        BY <3>1, <4>1 DEF Accounted
    <3> QED
      BY <2>1, <3>1, <3>2, <3>3
  <2>9. Accounts(w)'
    BY <2>2, <2>7, <2>8 DEF Accounts, Is
  <2> QED
    BY <1>0, <2>3, <2>9, FiredOne
<1>6. ASSUME NEW w \in Lives, DoMove(w) \/ DoReengage(w) PROVE FiredIsTold'
  <2>1. Done(w) /\ daemon[w].pc = "act" /\ ~Tells(Head(daemon[w].tick.acts))
    BY <1>6 DEF DoMove, DoReengage, Does1, Tells
  <2> PICK a \in Acts : a = Head(daemon[w].tick.acts)
    BY <2>1, HeadIs
  <2> QED
    BY <1>0, <2>1, FiredDone
<1>7. ASSUME NEW w \in Lives, DoInject(w) PROVE FiredIsTold'
  <2>1. daemon[w].pc = "act" /\ Head(daemon[w].tick.acts).do = "inject"
    BY <1>7, InjectIs
  <2> PICK a \in Acts : a = Head(daemon[w].tick.acts)
    BY <2>1, HeadIs
  <2>2. CASE a.t \in plan[a.s] /\ Done(w)
    <3>1. a.t # "pt_missing"
      BY <2>1, ListTail DEF DaemonInv, DaemonOK, Tells
    <3>2. plan' = plan
      BY <1>7 DEF DoInject, files
    <3>3. Accounted(<<a.t, a.s>>)'
      BY <2>2, <3>1, <3>2, ToldNow
    <3> QED
      BY <1>0, <2>1, <2>2, <3>3, FiredDone
  <2>3. CASE ~(a.t \in plan[a.s] /\ Done(w))
    <3>1. PICK k \in Ticks : Is(w, "write", daemon[w].fired, k) /\ k.acts = daemon[w].tick.acts
      BY <1>7, <2>3, InjectIs
    <3>2. Only(w)
      BY <1>7, <2>3, InjectIs
    <3>3. Accounts(w) /\ daemon[w].fired \in SUBSET (Tripwires \X Sessions)
      <4>1. w \in Running
        BY <2>1 DEF Running
      <4> QED
        BY <4>1, FiredIs, DaemonTypes
    <3>4. Accounts(w)'
      BY <1>0, <3>1, <3>3 DEF Accounts, Keeps, Is
    <3> QED
      BY <1>0, <3>2, <3>4, FiredOne
  <2> QED
    BY <2>2, <2>3
<1>8. ASSUME NEW w \in Lives, DoWrite(w) PROVE FiredIsTold'
  <2>1. daemon[w].pc = "write" /\ Done(w)
    BY <1>8 DEF DoWrite
  <2> PICK a \in Acts : a = Head(daemon[w].tick.acts)
    BY <2>1, HeadIs
  <2>2. a.do = "inject" /\ a.t # "pt_missing" /\ a.s \in Sessions
    <3>1. List(daemon[w].tick.acts, daemon[w].fired) /\ daemon[w].tick.acts # <<>> /\ a.do = "inject"
      BY <2>1 DEF DaemonInv, DaemonOK
    <3>2. Tells(a) => (a.do = "comment" <=> a.t = "pt_missing")
      BY <3>1, ListTail
    <3> QED
      BY <2>1, <3>1, <3>2, HeadIs DEF Tells
  <2>3. a.t \in plan'[a.s]
    BY <1>8, <2>2 DEF DoWrite, Text, TypeOK
  <2>4. Accounted(<<a.t, a.s>>)'
    BY <2>2, <2>3, ToldNow
  <2> QED
    BY <1>0, <2>1, <2>4, FiredDone
<1>9. ASSUME NEW w \in Lives, DoComment(w) PROVE FiredIsTold'
  <2>1. daemon[w].pc = "act" /\ Done(w) /\ Head(daemon[w].tick.acts).do = "comment"
    BY <1>9 DEF DoComment, Does1
  <2> PICK a \in Acts : a = Head(daemon[w].tick.acts)
    BY <2>1, HeadIs
  <2>2. a.t = "pt_missing" /\ a.s \in Sessions
    <3>1. List(daemon[w].tick.acts, daemon[w].fired) /\ daemon[w].tick.acts # <<>>
      BY <2>1 DEF DaemonInv, DaemonOK
    <3>2. Tells(a) => (a.do = "comment" <=> a.t = "pt_missing")
      BY <3>1, ListTail
    <3> QED
      BY <2>1, <3>2, HeadIs DEF Tells
  <2>3. comments'[a.s] > 0 \/ "pt_missing" \in why'.lost[a.s]
    <3>1. \/ comments' = [comments EXCEPT ![a.s] = @ + 1]
          \/ why' = [why EXCEPT !.lost[a.s] = @ \cup {"pt_missing"}]
      BY <1>9 DEF DoComment, Does1
    <3>2. {"pt_missing"} \in SUBSET Tripwires
      BY DEF Tripwires
    <3>3. CASE comments' = [comments EXCEPT ![a.s] = @ + 1]
      BY <2>2, <3>3 DEF TypeOK
    <3>4. CASE why' = [why EXCEPT !.lost[a.s] = @ \cup {"pt_missing"}]
      BY <2>2, <3>4 DEF TypeOK
    <3> QED
      BY <3>1, <3>3, <3>4
  <2>4. Accounted(<<a.t, a.s>>)'
    BY <2>2, <2>3, ToldNow
  <2> QED
    BY <1>0, <2>1, <2>4, FiredDone
<1> QED
  BY <1>1, <1>2, <1>3, <1>4, <1>5, <1>6, <1>7, <1>8, <1>9
     DEF Next, Tick, StopFinds, StopUnlinks, GitHubMoves, TenMinutes, Moved, vars

-----------------------------------------------------------------------------
(* The invariant and the theorems.                                         *)

LEMMA Initially == Init => IInv
<1> SUFFICES ASSUME Init PROVE IInv
  OBVIOUS
<1>1. TypeOK
  <2>1. Unborn \in Daemons
    BY TickTypes DEF Unborn, Daemons
  <2>2. daemon \in [Lives -> Daemons]
    BY <2>1 DEF Init
  <2>3. FilesOK /\ WorldOK
    BY DEF Init, FilesOK, WorldOK, AllStatuses
  <2>4. RestOK
    BY WatcherAssumption DEF Init, RestOK
  <2> QED
    BY <2>2, <2>3, <2>4, TypeParts
<1>2. \A w \in Lives : /\ daemon[w].pc = "unborn" /\ daemon[w].fired = {}
                       /\ daemon[w].tick.acts = <<>>
  BY TickTypes DEF Init, Unborn
<1>3. SoleInv /\ ReadInv /\ FiredIsTold
  BY <1>2 DEF SoleInv, ReadInv, FiredIsTold, Running, Starting
<1>4. DaemonInv
  BY <1>2, EmptyList DEF DaemonInv, DaemonOK
<1>5. CommentInv
  BY SpentFinite DEF CommentInv, Init
<1> QED
  BY <1>1, <1>3, <1>4, <1>5 DEF IInv

LEMMA Inductive == IInv /\ [Next]_vars => IInv'
<1> SUFFICES ASSUME IInv, [Next]_vars PROVE IInv'
  OBVIOUS
<1>1. TypeOK /\ SoleInv /\ ReadInv /\ DaemonInv /\ CommentInv /\ FiredIsTold
  BY DEF IInv
<1>2. TypeOK'
  BY <1>1, TypeStep
<1>3. DaemonInv' /\ SoleInv' /\ ReadInv'
  BY <1>1, DaemonStep, SoleStep, ReadStep
<1>4. CommentInv' /\ FiredIsTold'
  BY <1>1, <1>2, CommentStep, FiredStep
<1> QED
  BY <1>2, <1>3, <1>4 DEF IInv

THEOREM Invariant == Spec => []IInv
<1> QED
  BY Initially, Inductive, PTL DEF Spec

\* Two daemons run at once only if two starts overlapped, or a `watch stop` that
\* had read the pid of a dead daemon removed the pidfile of a live one.
THEOREM OneDaemon == Spec => []SoleDaemon
<1>1. IInv => SoleDaemon
  BY DEF IInv, SoleInv, SoleDaemon
<1> QED
  BY <1>1, Invariant, PTL

\* No life of the daemon comments twice on a PT pull request.
THEOREM OneCommentPerLife == Spec => []CommentsPerLife
<1>1. ASSUME IInv, NEW s \in Sessions
      PROVE  comments[s] <= Cardinality({w \in Lives : daemon[w].pc \notin {"unborn", "starting"}})
  <2> DEFINE B == {w \in Lives : daemon[w].pc \notin {"unborn", "starting"}}
  <2>1. Spent(s) \subseteq B
    BY <1>1 DEF IInv, DaemonInv, DaemonOK, Spent, SpentOn
  <2>2. IsFiniteSet(Lives)
    BY FS_Interval, WatcherAssumption DEF Lives
  <2>3. IsFiniteSet(B)
    BY <2>2, FS_Subset
  <2>4. Cardinality(Spent(s)) <= Cardinality(B)
    BY <2>1, <2>3, FS_Subset
  <2>5. Cardinality(Spent(s)) \in Nat /\ Cardinality(B) \in Nat
    BY <2>3, SpentFinite, FS_CardinalityType
  <2>6. comments[s] <= Cardinality(Spent(s)) /\ comments[s] \in Nat
    BY <1>1 DEF IInv, CommentInv, TypeOK
  <2> QED
    BY <2>4, <2>5, <2>6
<1>2. IInv => CommentsPerLife
  BY <1>1 DEF CommentsPerLife
<1> QED
  BY <1>2, Invariant, PTL

\* What a daemon has fired is told or on its list, unless a request failed, the
\* plan was overwritten or two daemons overlapped.
THEOREM FiredIsToldAlways == Spec => []FiredIsTold
<1>1. IInv => FiredIsTold
  BY DEF IInv
<1> QED
  BY <1>1, Invariant, PTL

\* A follow-up in plan.md stays there, whatever is started and killed, unless two
\* daemons overlap or one is killed while it rewrites the file.
THEOREM PlansKeepFollowUps == Spec => FollowUpsStay
<1> DEFINE A == \A s \in Sessions : plan[s] \subseteq plan'[s]
                  \/ why.overlap
                  \/ \E w \in Lives : daemon[w].pc = "write" /\ daemon'[w].pc = "dead"
<1>1. ASSUME IInv, Next PROVE A
  <2>1. TypeOK /\ DaemonInv /\ ReadInv
    BY <1>1 DEF IInv
  <2>2. ASSUME NEW w \in Lives, Dies(w) PROVE A
    <3>1. daemon[w].pc = "write" => daemon'[w].pc = "dead"
      BY <2>1, <2>2, EndIs DEF Dies, Is
    <3> QED
      BY <2>1, <2>2, <3>1, DiesIs
  <2>3. ASSUME NEW w \in Lives, DoWrite(w) PROVE A
    BY <2>1, <2>3, WriteKeeps
  <2>4. CASE UNCHANGED plan
    BY <2>4
  <2> QED
    BY <1>1, <2>2, <2>3, <2>4
       DEF Next, Tick, Start, Begin, Interrupted, Build, Look, DoMove, DoInject, DoComment,
           DoReengage, StopFinds, StopUnlinks, GitHubMoves, TenMinutes, Moved, files
<1>2. IInv /\ [Next]_vars => [A]_vars
  BY <1>1
<1> QED
  BY <1>2, Invariant, PTL DEF Spec, FollowUpsStay

-----------------------------------------------------------------------------
(* The inductive invariant of SessionLifecycle.                            *)

Stations == {"", "queued", "executing", "completed", "abandoned", "paused"} \cup StartStatuses
            \cup {r[1] : r \in LifecycleRoutes} \cup {r[2] : r \in LifecycleRoutes}
VerbRecords ==
  [name : Verbs, step : Steps, to : Stations, from : Stations, left : Seq(ScriptNames),
   i : Nat \ {0}, at : 0..6, start : 0..6, goal : 0..6, partial : BOOLEAN, cut : BOOLEAN]
Pasts == [behind : SUBSET Keys, torn : BOOLEAN, leak : BOOLEAN, bypass : BOOLEAN,
          bare : BOOLEAN, back : BOOLEAN, late : BOOLEAN]

\* The allowance, the prompt checks and the broken scripts are of no
\* consequence here.
LifecycleTypeOK ==
  /\ session \in Stations
  /\ issue \in [Keys -> IssueStatuses]
  /\ tree \in BOOLEAN /\ recorded \in BOOLEAN /\ merged \in BOOLEAN
  /\ verb \in [Callers -> VerbRecords]
  /\ history \in Pasts

Route(p) == <<verb[p].from, verb[p].to>>
Ahead(p, script) == script \in Range(verb[p].left)
\* The verb has removed the worktrees and its own move is still to end.
Cutting(p) == verb[p].cut /\ verb[p].step # "tidy"
SomeCutting == \E p \in Callers : Cutting(p)
Spawning == \E p \in Callers : verb[p].name = "spawn"

\* Issue k is at position n of the lifecycle, or FloorKept excuses it.
Reaches(k, n) == issue[k] \in OffPath \/ k \in history.behind \/ Index(issue[k]) >= n
\* What FloorKept wants, for the statuses without a goal too.
Need == IF history.bypass /\ session = "completed" THEN 2 ELSE Floor(session)

\* Who holds the lock is between the acquisition and the end of its move.
Holds(p) ==
  /\ owner = p =>
       /\ verb[p].step \in {"script", "walk"}
       /\ verb[p].from = session /\ Route(p) \in LifecycleRoutes
       /\ Range(verb[p].left) \subseteq Range(Scripts[Route(p)])
       /\ verb[p].step = "walk" =>
            /\ verb[p].left # <<>> /\ Head(verb[p].left) = "sweep_issues_forward"
            /\ verb[p].goal = Goal(verb[p].to)
  /\ verb[p].step = "script" => owner = p

Walks(p) ==
  verb[p].at > 0 => /\ verb[p].step = "walk"
                    /\ 2 <= verb[p].at /\ verb[p].at <= verb[p].goal
                    /\ verb[p].i <= Len(Members)

\* What a verb is about.
Named(p) ==
  /\ verb[p].name = "spawn" => verb[p].to = "executing" /\ (verb[p].step = "move" \/ owner = p)
  /\ verb[p].name = "abandon" => verb[p].to = "abandoned"
  /\ verb[p].name = "complete" => merged
  /\ verb[p].step = "tidy" => verb[p].name = "complete"
  /\ verb[p].step \in {"close", "remove"} => verb[p].name = "abandon"

\* A sweep that is over has taken every issue to its goal, one that is not the
\* issues it has passed, unless it is going to fail.
SweptBy(p) ==
  owner = p =>
    /\ /\ verb[p].step = "script" /\ Has(Route(p), "sweep_issues_forward")
       /\ ~Ahead(p, "sweep_issues_forward")
       => \A k \in Keys : Reaches(k, Goal(verb[p].to))
    /\ verb[p].step = "walk" =>
         \/ verb[p].partial
         \/ \A j \in DOMAIN Members : j < verb[p].i => Reaches(Members[j], verb[p].goal)

\* Worktrees are removed by abandon and by the scripts of the last routes.
Cuts(p) ==
  /\ Cutting(p) => owner = p \/ (verb[p].name = "abandon" /\ verb[p].step = "move")
  /\ owner = p /\ verb[p].cut =>
       verb[p].to = "abandoned" \/ Route(p) = <<"verified", "completed">>

\* What the gate has seen on the way to completed stays so until the commit.
Merges(p) ==
  owner = p /\ Route(p) = <<"verified", "completed">> =>
    merged \/ history.torn \/ \E q \in Callers \ {p} : Cutting(q)

\* What the scripts on the way to abandoned have torn down stays down.
TakesDown(p) ==
  owner = p /\ verb[p].to = "abandoned" /\ session \notin {"planned", "queued"} =>
    /\ ~Ahead(p, "close_open_prs") => ~OpenPR \/ history.leak \/ Spawning
    /\ ~Ahead(p, "remove_worktrees") => ~tree \/ history.leak \/ Spawning

Local(p) ==
  Holds(p) /\ Walks(p) /\ Named(p) /\ SweptBy(p) /\ Cuts(p) /\ Merges(p) /\ TakesDown(p)

\* What PrMerged relies on: a record without worktrees is a merged one's.
RecordedIsMerged ==
  recorded /\ ~tree => merged \/ history.torn \/ session = "abandoned" \/ SomeCutting

CompletedIsMerged ==
  session = "completed" => merged \/ history.torn \/ history.bypass \/ SomeCutting

\* A session that was never spawned, or is abandoned, has nothing to tear down.
NothingLeft ==
  session \in {"planned", "queued", "abandoned"} =>
    (~tree /\ ~OpenPR) \/ history.leak \/ history.back \/ Spawning

\* The worktrees a spawn has made are there when its move comes.
SpawnHasTrees ==
  /\ Spawning /\ session # "abandoned" =>
       tree \/ history.torn \/ history.bare \/ history.late \/ SomeCutting
  /\ Spawning /\ session = "completed" => history.late

LiveHasTrees ==
  session \in Live => tree \/ history.torn \/ history.bare \/ history.late \/ SomeCutting

Global ==
  /\ \A k \in Keys : Reaches(k, Need)
  /\ RecordedIsMerged /\ CompletedIsMerged /\ NothingLeft /\ SpawnHasTrees /\ LiveHasTrees

LifecycleInv == LifecycleTypeOK /\ (\A p \in Callers : Local(p)) /\ Global

-----------------------------------------------------------------------------
(* Positions in the lifecycle and lists of scripts.                        *)

LEMMA LifecycleIs ==
  /\ Lifecycle[1] = "planned" /\ Lifecycle[2] = "queued" /\ Lifecycle[3] = "executing"
  /\ Lifecycle[4] = "in_review" /\ Lifecycle[5] = "verified" /\ Lifecycle[6] = "completed"
  /\ DOMAIN Lifecycle = 1..6
  /\ Range(Lifecycle) = {"planned", "queued", "executing", "in_review", "verified", "completed"}
<1>1. DOMAIN Lifecycle = 1..6
  BY DEF Lifecycle
<1>2. /\ Lifecycle[1] = "planned" /\ Lifecycle[2] = "queued" /\ Lifecycle[3] = "executing"
      /\ Lifecycle[4] = "in_review" /\ Lifecycle[5] = "verified" /\ Lifecycle[6] = "completed"
  BY DEF Lifecycle
<1>3. Range(Lifecycle) = {Lifecycle[n] : n \in 1..6}
  BY <1>1 DEF Range
<1>4. \A n \in 1..6 : n = 1 \/ n = 2 \/ n = 3 \/ n = 4 \/ n = 5 \/ n = 6
  OBVIOUS
<1>5. \A s : s \in Range(Lifecycle) <=>
        s \in {"planned", "queued", "executing", "in_review", "verified", "completed"}
  <2>1. 1 \in 1..6 /\ 2 \in 1..6 /\ 3 \in 1..6 /\ 4 \in 1..6 /\ 5 \in 1..6 /\ 6 \in 1..6
    OBVIOUS
  <2> QED BY <1>2, <1>3, <1>4, <2>1
<1> QED BY <1>1, <1>2, <1>5

\* Every status has its position.
LEMMA PositionIs ==
  /\ \A n \in 1..6 : /\ Lifecycle[n] \in IssueStatuses /\ Lifecycle[n] \notin OffPath
                     /\ Index(Lifecycle[n]) = n
  /\ \A s \in OffPath : Index(s) = 0
  /\ \A s \in IssueStatuses : Index(s) \in 0..6 /\ (Index(s) = 0 => s \in OffPath)
<1>1. \A s \in OffPath : Index(s) = 0
  BY DEF Index
<1>2. \A n \in 1..6 : Lifecycle[n] \in Range(Lifecycle) /\ Lifecycle[n] \notin OffPath
  BY LifecycleIs DEF Range, OffPath
<1>3. \A m, n \in 1..6 : Lifecycle[m] = Lifecycle[n] => m = n
  BY LifecycleIs
<1>4. ASSUME NEW n \in 1..6 PROVE Index(Lifecycle[n]) = n
  <2>1. Index(Lifecycle[n]) = CHOOSE m \in DOMAIN Lifecycle : Lifecycle[m] = Lifecycle[n]
    BY <1>2 DEF Index
  <2>2. n \in DOMAIN Lifecycle
    BY LifecycleIs
  <2>3. (CHOOSE m \in DOMAIN Lifecycle : Lifecycle[m] = Lifecycle[n]) \in 1..6
        /\ Lifecycle[CHOOSE m \in DOMAIN Lifecycle : Lifecycle[m] = Lifecycle[n]] = Lifecycle[n]
    BY <2>2, LifecycleIs
  <2> QED BY <1>3, <2>1, <2>3
<1>5. \A s \in Range(Lifecycle) : \E n \in 1..6 : s = Lifecycle[n]
  BY LifecycleIs DEF Range
<1> QED BY <1>1, <1>2, <1>4, <1>5 DEF IssueStatuses

LEMMA EarlyPositions ==
  /\ "planned" \in IssueStatuses /\ "planned" \notin OffPath /\ Index("planned") = 1
  /\ "queued" \in IssueStatuses /\ "queued" \notin OffPath /\ Index("queued") = 2
<1>1. 1 \in 1..6 /\ 2 \in 1..6
  OBVIOUS
<1>2. /\ Lifecycle[1] \in IssueStatuses /\ Lifecycle[1] \notin OffPath /\ Index(Lifecycle[1]) = 1
      /\ Lifecycle[2] \in IssueStatuses /\ Lifecycle[2] \notin OffPath /\ Index(Lifecycle[2]) = 2
  BY <1>1, PositionIs
<1> QED BY <1>2, LifecycleIs

LEMMA GoalIs == \A s : Goal(s) \in 0..6
BY DEF Goal

LEMMA RangeIs ==
  ASSUME NEW S, NEW s \in Seq(S), s # <<>>
  PROVE  /\ Tail(s) \in Seq(S) /\ Head(s) \in Range(s)
         /\ Range(Tail(s)) \subseteq Range(s)
         /\ \A x \in Range(s) : x = Head(s) \/ x \in Range(Tail(s))
<1>1. Len(s) \in Nat /\ Len(s) >= 1 /\ DOMAIN s = 1..Len(s) /\ Head(s) = s[1]
  OBVIOUS
<1>2. /\ Tail(s) \in Seq(S) /\ DOMAIN Tail(s) = 1..(Len(s) - 1)
      /\ \A n \in 1..(Len(s) - 1) : Tail(s)[n] = s[n + 1]
  BY <1>1
<1>3. Head(s) \in Range(s)
  BY <1>1 DEF Range
<1>4. Range(Tail(s)) \subseteq Range(s)
  BY <1>1, <1>2 DEF Range
<1>5. ASSUME NEW x \in Range(s) PROVE x = Head(s) \/ x \in Range(Tail(s))
  <2>1. PICK n \in 1..Len(s) : x = s[n]
    BY <1>1 DEF Range
  <2>2. CASE n = 1
    BY <1>1, <2>1, <2>2
  <2>3. CASE n # 1
    <3>1. n - 1 \in 1..(Len(s) - 1) /\ Tail(s)[n - 1] = s[(n - 1) + 1] /\ (n - 1) + 1 = n
      BY <1>1, <1>2, <2>3
    <3> QED BY <1>2, <2>1, <3>1 DEF Range
  <2> QED BY <2>2, <2>3
<1> QED BY <1>2, <1>3, <1>4, <1>5

LEMMA EmptyRange == \A x : x \notin Range(<<>>)
BY DEF Range

LEMMA MembersAre ==
  /\ Len(Members) \in Nat /\ DOMAIN Members = 1..Len(Members)
  /\ \A j \in 1..Len(Members) : Members[j] \in Keys
  /\ \A k \in Keys : \E j \in DOMAIN Members : k = Members[j]
<1>1. Members \in Seq(Keys)
  BY LifecycleAssumption
<1>2. \A k \in Keys : \E j \in DOMAIN Members : k = Members[j]
  BY DEF Keys, Range
<1> QED BY <1>1, <1>2

LEMMA ScriptsAre ==
  ASSUME NEW r \in LifecycleRoutes
  PROVE  Scripts[r] \in Seq(ScriptNames)
BY LifecycleAssumption
-----------------------------------------------------------------------------
(* Steps that leave the session where it is.                               *)

\* Nobody but p does anything.
Alone(p) == \A q \in Callers \ {p} : verb'[q] = verb[q]

\* What only a fault or a detour adds to.
Recalls ==
  /\ (history.torn => history'.torn) /\ (history.leak => history'.leak)
  /\ (history.late => history'.late)
  /\ history'.bypass = history.bypass /\ history'.bare = history.bare
  /\ history'.back = history.back

\* Issues do not fall behind unnoticed, and under a lock not at all.
IssuesKeep(p) ==
  /\ \A k \in Keys : Reaches(k, Need) => Reaches(k, Need)'
  /\ owner \notin {p, Nobody} =>
       \A k \in Keys, n \in 0..6 : Reaches(k, n) => Reaches(k, n)'

\* Worktrees and pull requests come of a spawn; worktrees that go are noticed.
TreesKeep ==
  /\ tree' => tree \/ Spawning'
  /\ OpenPR' => OpenPR \/ Spawning'
  /\ recorded' => recorded \/ tree'
  /\ tree => tree' \/ SomeCutting' \/ (merged /\ (history'.late \/ session = "completed"))

\* A verb that has cut, or a spawn, does not end unnoticed.
VerbsKeep ==
  /\ \A q \in Callers : Cutting(q) => Cutting(q)' \/ history'.torn
  /\ \A q \in Callers : verb[q].name = "spawn" => verb'[q].name = "spawn" \/ history'.leak
  /\ \A q \in Callers :
       verb'[q].name = "spawn" => verb[q].name = "spawn" \/ (tree' /\ session # "completed")

\* All that a step of p does to the others, short of a commit.
Quiet(p) ==
  /\ session' = session /\ (merged => merged')
  /\ Alone(p) /\ (\A q \in Callers \ {p} : owner' = q <=> owner = q)
  /\ Recalls /\ IssuesKeep(p) /\ TreesKeep /\ VerbsKeep

LEMMA GlobalKept ==
  ASSUME LifecycleInv, NEW p, Quiet(p)
  PROVE  Global'
<1>1. /\ session' = session /\ (merged => merged') /\ Recalls /\ IssuesKeep(p) /\ TreesKeep
      /\ VerbsKeep
  BY DEF Quiet
<1>2. Global
  BY DEF LifecycleInv
<1>3. SomeCutting => SomeCutting' \/ history'.torn
  BY <1>1 DEF VerbsKeep, SomeCutting
<1>4. Spawning => Spawning' \/ history'.leak
  BY <1>1 DEF VerbsKeep, Spawning
<1>5. Spawning' => Spawning \/ (tree' /\ session # "completed")
  BY <1>1 DEF VerbsKeep, Spawning
<1>6. \A k \in Keys : Reaches(k, Need)'
  BY <1>1, <1>2 DEF Global, IssuesKeep
<1>7. RecordedIsMerged'
  BY <1>1, <1>2, <1>3 DEF Global, RecordedIsMerged, TreesKeep, Recalls
<1>8. CompletedIsMerged'
  BY <1>1, <1>2, <1>3 DEF Global, CompletedIsMerged, Recalls
<1>9. NothingLeft'
  BY <1>1, <1>2, <1>4 DEF Global, NothingLeft, TreesKeep, Recalls
<1>10. SpawnHasTrees'
  BY <1>1, <1>2, <1>3, <1>5 DEF Global, SpawnHasTrees, TreesKeep, Recalls
<1>11. LiveHasTrees'
  BY <1>1, <1>2, <1>3 DEF Global, LiveHasTrees, TreesKeep, Recalls, Live
<1> QED BY <1>6, <1>7, <1>8, <1>9, <1>10, <1>11 DEF Global

\* A caller that stays where it is keeps what it relies on.
LEMMA PlaceKept ==
  ASSUME LifecycleInv, NEW p, Quiet(p), NEW q \in Callers, owner' = q <=> owner = q,
         verb'[q].name = verb[q].name, verb'[q].step = verb[q].step,
         verb'[q].to = verb[q].to, verb'[q].from = verb[q].from,
         verb'[q].left = verb[q].left, verb'[q].goal = verb[q].goal,
         verb'[q].cut = verb[q].cut
  PROVE  Holds(q)' /\ Named(q)' /\ Cuts(q)' /\ Merges(q)' /\ TakesDown(q)'
<1>1. /\ session' = session /\ (merged => merged') /\ Recalls /\ TreesKeep /\ VerbsKeep
  BY DEF Quiet
<1>2. Holds(q) /\ Named(q) /\ Cuts(q) /\ Merges(q) /\ TakesDown(q)
  BY DEF LifecycleInv, Local
<1>3. Holds(q)'
  BY <1>1, <1>2 DEF Holds, Route
<1>4. Named(q)'
  BY <1>1, <1>2 DEF Named
<1>5. Cuts(q)'
  BY <1>1, <1>2 DEF Cuts, Cutting, Route
<1>6. Merges(q)'
  <2>1. (\E r \in Callers \ {q} : Cutting(r)) => (\E r \in Callers \ {q} : Cutting(r)') \/ history'.torn
    BY <1>1 DEF VerbsKeep
  <2> QED BY <1>1, <1>2, <2>1 DEF Merges, Recalls, Route
<1>7. TakesDown(q)'
  <2>1. Spawning => Spawning' \/ history'.leak
    BY <1>1 DEF VerbsKeep, Spawning
  <2> QED BY <1>1, <1>2, <2>1 DEF TakesDown, Recalls, TreesKeep, Ahead
<1> QED BY <1>3, <1>4, <1>5, <1>6, <1>7

LEMMA OthersKept ==
  ASSUME LifecycleInv, NEW p, Quiet(p), NEW q \in Callers \ {p}
  PROVE  Local(q)'
<1>1. /\ verb'[q] = verb[q] /\ (owner' = q <=> owner = q) /\ IssuesKeep(p)
  BY DEF Quiet, Alone
<1>2. Walks(q) /\ SweptBy(q) /\ q # Nobody
  BY LifecycleAssumption DEF LifecycleInv, Local
<1>3. Holds(q)' /\ Named(q)' /\ Cuts(q)' /\ Merges(q)' /\ TakesDown(q)'
  BY <1>1, PlaceKept
<1>4. Walks(q)'
  BY <1>1, <1>2 DEF Walks
<1>5. SweptBy(q)'
  <2>1. SUFFICES ASSUME owner' = q PROVE SweptBy(q)'
    BY DEF SweptBy
  <2>2. \A k \in Keys, n \in 0..6 : Reaches(k, n) => Reaches(k, n)'
    BY <1>1, <1>2, <2>1 DEF IssuesKeep
  <2>3. verb[q].goal \in 0..6 /\ Goal(verb[q].to) \in 0..6
    BY GoalIs DEF LifecycleInv, LifecycleTypeOK, VerbRecords
  <2>4. \A j \in DOMAIN Members : Members[j] \in Keys
    BY MembersAre
  <2>5. \A k \in Keys : Reaches(k, Goal(verb[q].to)) => Reaches(k, Goal(verb[q].to))'
    <3>1. \A g \in 0..6, k \in Keys : Reaches(k, g) => Reaches(k, g)'
      BY <2>2
    <3>2. \A k \in Keys : Goal(verb[q].to)' = Goal(verb[q].to)
      BY <1>1
    <3> QED BY <1>1, <2>3, <3>1 DEF Reaches
  <2>6. \A k \in Keys : Reaches(k, verb[q].goal) => Reaches(k, verb[q].goal)'
    BY <1>1, <2>2, <2>3 DEF Reaches
  <2> QED BY <1>1, <1>2, <2>1, <2>4, <2>5, <2>6 DEF SweptBy, Ahead, Route, Has
<1> QED BY <1>3, <1>4, <1>5 DEF Local

-----------------------------------------------------------------------------
(* The caller that steps.                                                  *)

LEMMA RestIs ==
  /\ Idle.name = "queue" /\ Idle.step = "idle" /\ Idle.to = "" /\ Idle.at = 0 /\ Idle.cut = FALSE
  /\ Idle \in VerbRecords
<1>1. /\ Idle.name = "queue" /\ Idle.step = "idle" /\ Idle.to = "" /\ Idle.at = 0 /\ Idle.cut = FALSE
  BY DEF Idle
<1>2. /\ <<>> \in Seq(ScriptNames) /\ 1 \in Nat \ {0} /\ 0 \in 0..6 /\ FALSE \in BOOLEAN
      /\ "" \in Stations /\ "queue" \in Verbs /\ "idle" \in Steps
  BY DEF Stations, Verbs, Steps
<1>3. \A l \in Seq(ScriptNames) :
        [name |-> "queue", step |-> "idle", to |-> "", from |-> "", left |-> l, i |-> 1,
         at |-> 0, start |-> 0, goal |-> 0, partial |-> FALSE, cut |-> FALSE] \in VerbRecords
  BY <1>2 DEF VerbRecords
<1>4. Idle \in VerbRecords
  BY <1>2, <1>3 DEF Idle
<1> QED BY <1>1, <1>4

LEMMA VerbIs ==
  ASSUME LifecycleInv, NEW p \in Callers
  PROVE  /\ verb[p] \in VerbRecords /\ p # Nobody
         /\ verb[p].to \in Stations /\ verb[p].left \in Seq(ScriptNames)
         /\ verb[p].i \in Nat \ {0} /\ verb[p].at \in 0..6 /\ verb[p].start \in 0..6
         /\ verb[p].goal \in 0..6 /\ verb[p].partial \in BOOLEAN /\ verb[p].cut \in BOOLEAN
         /\ Holds(p) /\ Walks(p) /\ Named(p) /\ SweptBy(p) /\ Cuts(p) /\ Merges(p) /\ TakesDown(p)
BY LifecycleAssumption DEF LifecycleInv, Local, LifecycleTypeOK, VerbRecords

LEMMA Turning ==
  ASSUME LifecycleInv, NEW p \in Callers, NEW r, Becomes(p, r)
  PROVE  verb'[p] = r /\ Alone(p) /\ (r \in VerbRecords => verb' \in [Callers -> VerbRecords])
BY DEF LifecycleInv, LifecycleTypeOK, Becomes, Alone

LEMMA Resting ==
  ASSUME LifecycleInv, NEW p \in Callers, Ends(p)
  PROVE  verb'[p] = Idle /\ Alone(p) /\ verb' \in [Callers -> VerbRecords]
BY RestIs, Turning DEF Ends

LEMMA Stepping ==
  ASSUME LifecycleInv, NEW p \in Callers, NEW s \in Steps, Goes(p, s)
  PROVE  /\ verb'[p] = [verb[p] EXCEPT !.step = s]
         /\ verb'[p].step = s /\ verb'[p].name = verb[p].name /\ verb'[p].to = verb[p].to
         /\ verb'[p].at = verb[p].at /\ verb'[p].goal = verb[p].goal
         /\ verb'[p].i = verb[p].i /\ verb'[p].cut = verb[p].cut
         /\ Alone(p) /\ verb' \in [Callers -> VerbRecords]
<1>1. verb[p] \in VerbRecords
  BY VerbIs
<1>2. [verb[p] EXCEPT !.step = s] \in VerbRecords
  BY <1>1 DEF VerbRecords
<1>3. verb'[p] = [verb[p] EXCEPT !.step = s] /\ Alone(p) /\ verb' \in [Callers -> VerbRecords]
  BY <1>2, Turning DEF Goes
<1> QED BY <1>1, <1>3 DEF VerbRecords

\* A step that keeps the issues and the history of them keeps what they reach.
LEMMA IssuesStand ==
  ASSUME session' = session, issue' = issue, history.behind \subseteq history'.behind,
         history'.bypass = history.bypass, NEW p
  PROVE  IssuesKeep(p)
<1>1. \A k, n : Reaches(k, n) => Reaches(k, n)'
  BY DEF Reaches
<1>2. Need' = Need
  BY DEF Need, Floor
<1>3. ASSUME NEW k \in Keys, Reaches(k, Need) PROVE Reaches(k, Need)'
  BY <1>2, <1>3 DEF Reaches
<1> QED BY <1>1, <1>3 DEF IssuesKeep

\* Only the verb of p changes, so only p may lose something.
LEMMA VerbKeeps ==
  ASSUME NEW p \in Callers, Alone(p),
         Cutting(p) => Cutting(p)' \/ history'.torn,
         verb[p].name = "spawn" => verb'[p].name = "spawn" \/ history'.leak,
         verb'[p].name = "spawn" =>
           verb[p].name = "spawn" \/ (tree' /\ session # "completed")
  PROVE  VerbsKeep
<1>1. ASSUME NEW q \in Callers, q # p PROVE verb'[q] = verb[q]
  BY <1>1 DEF Alone
<1>2. ASSUME NEW q \in Callers, q # p PROVE Cutting(q)' <=> Cutting(q)
  BY <1>1, <1>2 DEF Cutting
<1> QED BY <1>1, <1>2 DEF VerbsKeep

\* A caller without the lock relies on little.
LEMMA Unlocked ==
  ASSUME NEW p, owner' # p, verb'[p].step # "script", Walks(p)', Named(p)',
         Cutting(p)' => verb'[p].name = "abandon" /\ verb'[p].step = "move"
  PROVE  Local(p)'
BY DEF Local, Holds, SweptBy, Cuts, Merges, TakesDown

LEMMA IdleRests ==
  ASSUME NEW p, verb'[p] = Idle
  PROVE  /\ Walks(p)' /\ Named(p)' /\ ~Cutting(p)'
         /\ verb'[p].name # "spawn" /\ verb'[p].step # "script"
<1>1. /\ verb'[p].name = "queue" /\ verb'[p].step = "idle" /\ verb'[p].at = 0
      /\ verb'[p].cut = FALSE
  BY RestIs
<1>2. Walks(p)'
  BY <1>1 DEF Walks
<1>3. Named(p)' /\ ~Cutting(p)'
  BY <1>1 DEF Named, Cutting
<1> QED BY <1>1, <1>2, <1>3

LEMMA Rested ==
  ASSUME NEW p, owner' # p, verb'[p] = Idle
  PROVE  Local(p)'
BY IdleRests, Unlocked

\* What a step has to show, besides what happens to p.
LEMMA StepKept ==
  ASSUME LifecycleInv, NEW p \in Callers, Quiet(p), LifecycleTypeOK', Local(p)'
  PROVE  LifecycleInv'
<1>1. Global'
  BY GlobalKept
<1>2. ASSUME NEW q \in Callers PROVE Local(q)'
  BY OthersKept
<1> QED BY <1>1, <1>2 DEF LifecycleInv

-----------------------------------------------------------------------------
(* Verbs that start.                                                       *)

\* A caller that is idle holds nothing.
LEMMA IdleFree ==
  ASSUME LifecycleInv, NEW p \in Callers, verb[p].step \notin {"script", "walk", "move"}
  PROVE  owner # p /\ ~Cutting(p) /\ verb[p].name # "spawn"
BY VerbIs DEF Holds, Cuts, Named

LEMMA Undertakes ==
  ASSUME LifecycleInv, NEW p \in Callers, AtStep(p, "idle"),
         NEW r \in VerbRecords, Becomes(p, r),
         r.at = 0, r.cut = FALSE, r.step \notin {"script", "tidy", "remove"},
         UNCHANGED <<session, issue, merged, owner, history>>,
         tree' \in BOOLEAN, recorded' \in BOOLEAN,
         tree => tree', recorded' => recorded \/ tree',
         tree' => tree \/ r.name = "spawn", OpenPR' => OpenPR \/ r.name = "spawn",
         r.name = "spawn" =>
           r.step = "move" /\ r.to = "executing" /\ tree' /\ session # "completed",
         r.name = "abandon" => r.to = "abandoned", r.name = "complete" => merged,
         r.step = "close" => r.name = "abandon"
  PROVE  LifecycleInv'
<1>1. verb'[p] = r /\ Alone(p) /\ verb' \in [Callers -> VerbRecords]
  BY Turning
<1>2. owner # p /\ ~Cutting(p) /\ verb[p].name # "spawn"
  BY IdleFree DEF AtStep
<1>3. VerbsKeep
  BY <1>1, <1>2, VerbKeeps
<1>4. IssuesKeep(p)
  BY IssuesStand
<1>5. TreesKeep
  BY <1>1 DEF TreesKeep, Spawning
<1>6. Quiet(p)
  BY <1>1, <1>3, <1>4, <1>5 DEF Quiet, Recalls
<1>7. LifecycleTypeOK'
  BY <1>1 DEF LifecycleInv, LifecycleTypeOK
<1>8. Local(p)'
  <2>1. Walks(p)'
    BY <1>1 DEF Walks
  <2>2. Named(p)'
    BY <1>1 DEF Named
  <2>3. ~Cutting(p)'
    BY <1>1 DEF Cutting
  <2> QED BY <1>1, <1>2, <2>1, <2>2, <2>3, Unlocked
<1> QED BY <1>6, <1>7, <1>8, StepKept

LEMMA WordsAre ==
  /\ {"queue", "complete", "abandon", "reopen", "spawn", "sweep", "transition"} \subseteq Verbs
  /\ {"idle", "promote", "walk", "close", "remove", "reopen", "move", "script", "tidy"}
       \subseteq Steps
  /\ {"", "queued", "executing", "completed", "abandoned", "paused"} \subseteq Stations
BY DEF Verbs, Steps, Stations

\* A verb that starts without making worktrees.
LEMMA UndertakesBare ==
  ASSUME LifecycleInv, NEW p \in Callers, AtStep(p, "idle"),
         NEW r \in VerbRecords, Becomes(p, r),
         r.at = 0, r.cut = FALSE, r.step \notin {"script", "tidy", "remove"},
         UNCHANGED <<session, issue, tree, recorded, merged, owner, history>>,
         OpenPR' => OpenPR, r.name # "spawn",
         r.name = "abandon" => r.to = "abandoned", r.name = "complete" => merged,
         r.step = "close" => r.name = "abandon"
  PROVE  LifecycleInv'
<1>1. tree \in BOOLEAN /\ recorded \in BOOLEAN
  BY DEF LifecycleInv, LifecycleTypeOK
<1>2. /\ tree' \in BOOLEAN /\ recorded' \in BOOLEAN /\ (tree' <=> tree)
      /\ (recorded' <=> recorded)
  BY <1>1
<1>3. UNCHANGED <<session, issue, merged, owner, history>>
  OBVIOUS
<1> QED BY <1>2, <1>3, Undertakes

LEMMA StartsBare ==
  ASSUME LifecycleInv, NEW p \in Callers, NEW n \in Verbs, n # "spawn",
         NEW s \in Steps, s \notin {"script", "tidy", "remove"}, NEW to \in Stations,
         Starts(p, n, s, to),
         UNCHANGED <<session, issue, tree, recorded, merged, owner, history>>,
         OpenPR' => OpenPR,
         n = "abandon" => to = "abandoned", n = "complete" => merged,
         s = "close" => n = "abandon"
  PROVE  LifecycleInv'
<1> DEFINE r == [Idle EXCEPT !.name = n, !.step = s, !.to = to]
<1>1. AtStep(p, "idle") /\ Becomes(p, r)
  BY DEF Starts
<1>2. r \in VerbRecords
  BY RestIs DEF VerbRecords
<1>3. r.name = n /\ r.step = s /\ r.to = to /\ r.at = 0 /\ r.cut = FALSE
  BY RestIs DEF VerbRecords
<1> HIDE DEF r
<1> QED BY <1>1, <1>2, <1>3, UndertakesBare

LEMMA StartVerbKept ==
  ASSUME LifecycleInv, NEW p \in Callers, StartVerb(p)
  PROVE  LifecycleInv'
<1>1. CASE Queue(p)
  <2>1. PICK s \in {"promote", "move"} : Starts(p, "queue", s, "queued")
    BY <1>1 DEF Queue
  <2>2. UNCHANGED <<session, issue, tree, recorded, merged, owner, history>> /\ (OpenPR' => OpenPR)
    BY <1>1 DEF Queue, project, OpenPR
  <2>3. "queue" \in Verbs /\ s \in Steps /\ "queued" \in Stations
    BY WordsAre
  <2> QED BY <2>1, <2>2, <2>3, StartsBare
<1>2. CASE Complete(p)
  <2> DEFINE r == [Idle EXCEPT !.name = "complete", !.step = "walk",
                               !.to = "completed", !.goal = Goal("completed")]
  <2>1. /\ UNCHANGED <<session, issue, tree, recorded, merged, owner, history>> /\ merged
        /\ Becomes(p, r) /\ AtStep(p, "idle")
    BY <1>2 DEF Complete
  <2>2. OpenPR' => OpenPR
    BY <1>2 DEF Complete, OpenPR
  <2>3. "complete" \in Verbs /\ "walk" \in Steps /\ "completed" \in Stations
        /\ Goal("completed") \in 0..6
    BY GoalIs, WordsAre
  <2>4. r \in VerbRecords
    BY <2>3, RestIs DEF VerbRecords
  <2>5. r.name = "complete" /\ r.step = "walk" /\ r.at = 0 /\ r.cut = FALSE
    BY RestIs DEF VerbRecords
  <2> HIDE DEF r
  <2> QED BY <2>1, <2>2, <2>4, <2>5, UndertakesBare
<1>3. CASE Abandon(p)
  <2>1. Starts(p, "abandon", "close", "abandoned")
    BY <1>3 DEF Abandon
  <2>2. UNCHANGED <<session, issue, tree, recorded, merged, owner, history>> /\ (OpenPR' => OpenPR)
    BY <1>3 DEF Abandon, project, OpenPR
  <2>3. "abandon" \in Verbs /\ "close" \in Steps /\ "abandoned" \in Stations
    BY WordsAre
  <2> QED BY <2>1, <2>2, <2>3, StartsBare
<1>4. CASE Reopen(p)
  <2>1. Starts(p, "reopen", "reopen", "paused")
    BY <1>4 DEF Reopen
  <2>2. UNCHANGED <<session, issue, tree, recorded, merged, owner, history>> /\ (OpenPR' => OpenPR)
    BY <1>4 DEF Reopen, OpenPR
  <2>3. "reopen" \in Verbs /\ "reopen" \in Steps /\ "paused" \in Stations
    BY WordsAre
  <2> QED BY <2>1, <2>2, <2>3, StartsBare
<1>5. CASE Spawn(p)
  <2>1. /\ Starts(p, "spawn", "move", "executing") /\ tree' = TRUE /\ recorded' = TRUE
        /\ UNCHANGED <<session, issue, merged, owner, history>> /\ session # "completed"
    BY <1>5 DEF Spawn
  <2>2. "spawn" \in Verbs /\ "move" \in Steps /\ "executing" \in Stations
    BY WordsAre
  <2> DEFINE r == [Idle EXCEPT !.name = "spawn", !.step = "move", !.to = "executing"]
  <2>3. AtStep(p, "idle") /\ Becomes(p, r)
    BY <2>1 DEF Starts
  <2>4. r \in VerbRecords
    BY <2>2, RestIs DEF VerbRecords
  <2>5. r.name = "spawn" /\ r.step = "move" /\ r.to = "executing" /\ r.at = 0 /\ r.cut = FALSE
    BY RestIs DEF VerbRecords
  <2> HIDE DEF r
  <2>6. tree' \in BOOLEAN /\ recorded' \in BOOLEAN /\ tree' /\ recorded'
    BY <2>1
  <2> QED BY <2>1, <2>3, <2>4, <2>5, <2>6, Undertakes
<1>6. CASE Sweep(p)
  <2> DEFINE r == [Idle EXCEPT !.name = "sweep", !.step = "walk", !.goal = Goal(session)]
  <2>1. /\ UNCHANGED <<session, issue, tree, recorded, merged, owner, history>>
        /\ (OpenPR' => OpenPR) /\ AtStep(p, "idle") /\ Becomes(p, r)
    BY <1>6 DEF Sweep, project, OpenPR
  <2>2. "sweep" \in Verbs /\ "walk" \in Steps /\ Goal(session) \in 0..6
    BY GoalIs, WordsAre
  <2>3. r \in VerbRecords
    BY <2>2, RestIs DEF VerbRecords
  <2>4. r.name = "sweep" /\ r.step = "walk" /\ r.at = 0 /\ r.cut = FALSE
    BY RestIs DEF VerbRecords
  <2> HIDE DEF r
  <2> QED BY <2>1, <2>3, <2>4, UndertakesBare
<1>7. CASE Transition(p)
  <2>1. PICK t \in {r[2] : r \in LifecycleRoutes} : Starts(p, "transition", "move", t)
    BY <1>7 DEF Transition
  <2>2. UNCHANGED <<session, issue, tree, recorded, merged, owner, history>> /\ (OpenPR' => OpenPR)
    BY <1>7 DEF Transition, project, OpenPR
  <2>3. "transition" \in Verbs /\ "move" \in Steps /\ t \in Stations
    BY WordsAre DEF Stations
  <2> QED BY <2>1, <2>2, <2>3, StartsBare
<1> QED BY <1>1, <1>2, <1>3, <1>4, <1>5, <1>6, <1>7 DEF StartVerb

-----------------------------------------------------------------------------
(* Verbs that end.                                                         *)

LEMMA FailureKept ==
  ASSUME LifecycleInv, NEW p \in Callers, Fails(p), UNCHANGED project
  PROVE  LifecycleInv'
<1>1. verb'[p] = Idle /\ Alone(p) /\ verb' \in [Callers -> VerbRecords]
  BY Resting DEF Fails
<1>2. UNCHANGED <<session, issue, tree, recorded, pull, merged>>
  BY DEF project
<1>3. p # Nobody /\ owner' # p /\ (\A q \in Callers \ {p} : owner' = q <=> owner = q)
  BY LifecycleAssumption DEF Fails, InMove
<1>4. history \in Pasts /\ verb[p].cut \in BOOLEAN
  BY VerbIs DEF LifecycleInv, LifecycleTypeOK
<1>5. /\ history' \in Pasts /\ Recalls /\ history'.behind = history.behind
      /\ (verb[p].cut => history'.torn) /\ (verb[p].name = "spawn" => history'.leak)
  <2>1. PICK t \in BOOLEAN, l \in BOOLEAN :
          /\ history' = [history EXCEPT !.torn = t, !.leak = l]
          /\ (history.torn => t) /\ (history.leak => l)
          /\ (verb[p].cut => t) /\ (verb[p].name = "spawn" => l)
    <3> DEFINE t == history.torn \/ verb[p].cut
               l == history.leak \/ verb[p].name = "spawn"
    <3>1. history' = [history EXCEPT !.torn = t, !.leak = l]
      BY DEF Fails
    <3>2. t \in BOOLEAN /\ l \in BOOLEAN
      OBVIOUS
    <3> QED BY <3>1, <3>2
  <2>2. history' \in Pasts /\ history'.torn = t /\ history'.leak = l
    BY <1>4, <2>1 DEF Pasts
  <2>3. /\ history'.behind = history.behind /\ history'.late = history.late
        /\ history'.bypass = history.bypass /\ history'.bare = history.bare
        /\ history'.back = history.back
    BY <1>4, <2>1 DEF Pasts
  <2> QED BY <2>1, <2>2, <2>3 DEF Recalls
<1>6. VerbsKeep
  BY <1>1, <1>5, RestIs, VerbKeeps DEF Cutting
<1>7. IssuesKeep(p)
  BY <1>2, <1>5, IssuesStand DEF Recalls
<1>8. TreesKeep
  BY <1>2 DEF TreesKeep, OpenPR
<1>9. Quiet(p)
  BY <1>1, <1>2, <1>3, <1>5, <1>6, <1>7, <1>8 DEF Quiet
<1>10. LifecycleTypeOK'
  BY <1>1, <1>2, <1>5 DEF LifecycleInv, LifecycleTypeOK
<1>11. Local(p)'
  BY <1>1, <1>3, Rested
<1> QED BY <1>9, <1>10, <1>11, StepKept

-----------------------------------------------------------------------------
(* Loops over the issues.                                                  *)

\* An issue that goes on, or is noted as behind, keeps what it reaches.
LEMMA IssueGoes ==
  ASSUME LifecycleInv, NEW k \in Keys, NEW t \in IssueStatuses, session' = session,
         issue' = [issue EXCEPT ![k] = t], history.behind \subseteq history'.behind,
         history'.bypass = history.bypass,
         \/ k \in history'.behind \/ t \in OffPath
         \/ issue[k] \notin OffPath /\ Index(issue[k]) <= Index(t)
  PROVE  /\ \A j \in Keys, n \in 0..6 : Reaches(j, n) => Reaches(j, n)'
         /\ \A p : IssuesKeep(p)
<1>1. issue \in [Keys -> IssueStatuses]
  BY DEF LifecycleInv, LifecycleTypeOK
<1>2. Index(issue[k]) \in 0..6 /\ Index(t) \in 0..6
  BY <1>1, PositionIs
<1>3. ASSUME NEW j \in Keys, NEW n \in 0..6, Reaches(j, n) PROVE Reaches(j, n)'
  <2>1. CASE j = k
    BY <1>1, <1>2, <1>3, <2>1 DEF Reaches
  <2>2. CASE j # k
    BY <1>1, <1>3, <2>2 DEF Reaches
  <2> QED BY <2>1, <2>2
<1>4. Need \in 0..6 /\ Need' = Need
  BY GoalIs DEF Need, Floor
<1>5. ASSUME NEW j \in Keys, Reaches(j, Need) PROVE Reaches(j, Need)'
  BY <1>3, <1>4, <1>5 DEF Reaches
<1> QED BY <1>3, <1>5 DEF IssuesKeep

\* A step of a caller that has neither the lock nor anything to lose.
LEMMA PlainStep ==
  ASSUME LifecycleInv, NEW p \in Callers, owner # p, verb[p].step # "move",
         UNCHANGED <<session, tree, recorded, merged, owner>>, OpenPR' => OpenPR,
         Recalls, history' \in Pasts, issue' \in [Keys -> IssueStatuses], IssuesKeep(p),
         Alone(p), verb' \in [Callers -> VerbRecords],
         verb'[p].name # "spawn", verb'[p].step # "script",
         Walks(p)', Named(p)', ~Cutting(p)'
  PROVE  LifecycleInv'
<1>1. ~Cutting(p) /\ verb[p].name # "spawn"
  BY VerbIs DEF Cuts, Named
<1>2. VerbsKeep
  BY <1>1, VerbKeeps
<1>3. TreesKeep
  <2>1. (tree' <=> tree) /\ (recorded' <=> recorded)
    OBVIOUS
  <2> QED BY <2>1 DEF TreesKeep
<1>4. Quiet(p)
  BY <1>2, <1>3 DEF Quiet
<1>5. LifecycleTypeOK'
  BY DEF LifecycleInv, LifecycleTypeOK
<1>6. Local(p)'
  BY Unlocked
<1> QED BY <1>4, <1>5, <1>6, StepKept

LEMMA SameHistory ==
  ASSUME LifecycleInv, history' = history
  PROVE  Recalls /\ history' \in Pasts
BY DEF LifecycleInv, LifecycleTypeOK, Recalls

LEMMA ReopenChecksKept ==
  ASSUME LifecycleInv, NEW p \in Callers, ReopenChecks(p)
  PROVE  LifecycleInv'
<1>1. /\ UNCHANGED <<session, issue, tree, recorded, pull, merged, owner, history>>
      /\ verb[p].step = "reopen"
  BY DEF ReopenChecks, project, AtStep
<1>2. owner # p /\ ~Cutting(p) /\ verb[p].name # "spawn" /\ verb[p].cut = FALSE
  BY <1>1, IdleFree, VerbIs DEF Cutting
<1>3. Recalls /\ history' \in Pasts /\ IssuesKeep(p) /\ issue' \in [Keys -> IssueStatuses]
  BY <1>1, SameHistory, IssuesStand DEF LifecycleInv, LifecycleTypeOK
<1>4. /\ Alone(p) /\ verb' \in [Callers -> VerbRecords]
      /\ verb'[p].name # "spawn" /\ verb'[p].step # "script"
      /\ Walks(p)' /\ Named(p)' /\ ~Cutting(p)'
  <2>1. CASE session = "completed"
    <3>1. Goes(p, "move") /\ "move" \in Steps
      BY <2>1, WordsAre DEF ReopenChecks
    <3>2. Alone(p) /\ verb' \in [Callers -> VerbRecords] /\ verb'[p].step = "move"
          /\ verb'[p].name = verb[p].name /\ verb'[p].to = verb[p].to
          /\ verb'[p].at = verb[p].at /\ verb'[p].goal = verb[p].goal
          /\ verb'[p].i = verb[p].i /\ verb'[p].cut = verb[p].cut
      BY <3>1, Stepping
    <3>3. Walks(p)'
      <4>1. verb[p].at = 0
        BY <1>1, VerbIs DEF Walks
      <4> QED BY <3>2, <4>1 DEF Walks
    <3>4. Named(p)'
      BY <1>1, <1>2, <3>2, VerbIs DEF Named
    <3>5. ~Cutting(p)'
      BY <1>2, <3>2 DEF Cutting
    <3> QED BY <1>2, <3>2, <3>3, <3>4, <3>5
  <2>2. CASE session # "completed"
    <3>1. verb'[p] = Idle /\ Alone(p) /\ verb' \in [Callers -> VerbRecords]
      BY <2>2, Resting DEF ReopenChecks
    <3>2. Walks(p)' /\ Named(p)' /\ ~Cutting(p)' /\ verb'[p].name # "spawn" /\ verb'[p].step # "script"
      BY <3>1, IdleRests
    <3> QED BY <3>1, <3>2
  <2> QED BY <2>1, <2>2
<1>5. OpenPR' => OpenPR
  BY <1>1 DEF OpenPR
<1> QED BY <1>1, <1>2, <1>3, <1>4, <1>5, PlainStep

LEMMA PromoteKept ==
  ASSUME LifecycleInv, NEW p \in Callers, Promote(p)
  PROVE  LifecycleInv'
<1> DEFINE k == Members[verb[p].i]
<1>1. /\ UNCHANGED <<session, tree, recorded, pull, merged, owner, history>>
      /\ verb[p].step = "promote"
  BY DEF Promote, AtStep
<1>2. owner # p /\ ~Cutting(p) /\ verb[p].name # "spawn" /\ verb[p].cut = FALSE
  BY <1>1, IdleFree, VerbIs DEF Cutting
<1>3. Recalls /\ history' \in Pasts
  BY <1>1, SameHistory
<1>4. /\ Alone(p) /\ verb' \in [Callers -> VerbRecords]
      /\ verb'[p].name = verb[p].name /\ verb'[p].step \in {"promote", "move"}
      /\ verb'[p].to = verb[p].to /\ verb'[p].cut = verb[p].cut /\ verb'[p].at = verb[p].at
  <2>1. CASE verb[p].i > Len(Members)
    <3>1. Goes(p, "move") /\ "move" \in Steps
      BY <2>1, WordsAre DEF Promote
    <3> QED BY <3>1, Stepping
  <2>2. CASE ~(verb[p].i > Len(Members))
    <3> DEFINE r == [verb[p] EXCEPT !.i = @ + 1]
    <3>1. Becomes(p, r)
      BY <2>2 DEF Promote
    <3>2. verb[p] \in VerbRecords /\ verb[p].i + 1 \in Nat \ {0}
      BY VerbIs
    <3>3. r \in VerbRecords /\ r.name = verb[p].name /\ r.step = verb[p].step
          /\ r.to = verb[p].to /\ r.cut = verb[p].cut /\ r.at = verb[p].at
      BY <3>2 DEF VerbRecords
    <3> HIDE DEF r
    <3> QED BY <1>1, <3>1, <3>3, Turning
  <2> QED BY <2>1, <2>2
<1>5. Walks(p)'
  <2>1. verb[p].at = 0
    BY <1>1, VerbIs DEF Walks
  <2> QED BY <1>4, <2>1 DEF Walks
<1>6. Named(p)' /\ ~Cutting(p)'
  BY <1>1, <1>2, <1>4, VerbIs DEF Named, Cutting
<1>7. issue' \in [Keys -> IssueStatuses] /\ IssuesKeep(p)
  <2>1. CASE issue' = issue
    BY <1>1, <2>1, IssuesStand DEF LifecycleInv, LifecycleTypeOK
  <2>2. CASE issue' # issue
    <3>1. /\ ~(verb[p].i > Len(Members))
          /\ issue[k] = "planned" /\ issue' = [issue EXCEPT ![k] = "queued"]
      BY <2>2 DEF Promote
    <3>2. k \in Keys
      BY <3>1, MembersAre, VerbIs
    <3>3. /\ "queued" \in IssueStatuses /\ issue[k] \notin OffPath
          /\ Index(issue[k]) <= Index("queued")
      BY <3>1, EarlyPositions
    <3>4. IssuesKeep(p)
      BY <1>1, <3>1, <3>2, <3>3, IssueGoes
    <3> QED BY <3>1, <3>2, <3>3, <3>4 DEF LifecycleInv, LifecycleTypeOK
  <2> QED BY <2>1, <2>2
<1>8. OpenPR' => OpenPR
  BY <1>1 DEF OpenPR
<1> QED BY <1>1, <1>2, <1>3, <1>4, <1>5, <1>6, <1>7, <1>8, PlainStep

-----------------------------------------------------------------------------
(* Sweeps, of the verbs and of the scripts alike.                          *)

\* The verb stays what it is, the walk goes on.
LEMMA WalkStep ==
  ASSUME LifecycleInv, NEW p \in Callers, verb[p].step = "walk",
         UNCHANGED <<session, tree, recorded, pull, merged, owner>>,
         Recalls, history' \in Pasts, issue' \in [Keys -> IssueStatuses], IssuesKeep(p),
         NEW r \in VerbRecords, Becomes(p, r),
         r.name = verb[p].name, r.step = verb[p].step, r.to = verb[p].to,
         r.from = verb[p].from, r.left = verb[p].left, r.goal = verb[p].goal,
         r.cut = verb[p].cut, Walks(p)',
         owner = p => \/ r.partial
                      \/ \A j \in DOMAIN Members : j < r.i => Reaches(Members[j], r.goal)'
  PROVE  LifecycleInv'
<1>1. verb'[p] = r /\ Alone(p) /\ verb' \in [Callers -> VerbRecords]
  BY Turning
<1>2. VerbsKeep
  <2>1. Cutting(p)' <=> Cutting(p)
    BY <1>1 DEF Cutting
  <2> QED BY <1>1, <2>1, VerbKeeps
<1>3. TreesKeep
  <2>1. (tree' <=> tree) /\ (recorded' <=> recorded) /\ (OpenPR' <=> OpenPR)
    BY DEF OpenPR
  <2> QED BY <2>1 DEF TreesKeep
<1>4. Quiet(p)
  BY <1>1, <1>2, <1>3 DEF Quiet
<1>5. LifecycleTypeOK'
  BY <1>1 DEF LifecycleInv, LifecycleTypeOK
<1>6. Holds(p)' /\ Named(p)' /\ Cuts(p)' /\ Merges(p)' /\ TakesDown(p)'
  BY <1>1, <1>4, PlaceKept
<1>7. SweptBy(p)'
  <2>1. SUFFICES ASSUME owner = p
                 PROVE  \/ verb'[p].partial
                        \/ \A j \in DOMAIN Members :
                             j < verb'[p].i => Reaches(Members[j], verb[p].goal)'
    BY <1>1 DEF SweptBy, Reaches
  <2>2. CASE r.partial
    BY <1>1, <2>2
  <2>3. CASE \A j \in DOMAIN Members : j < r.i => Reaches(Members[j], r.goal)'
    BY <1>1, <2>3 DEF Reaches
  <2> QED BY <2>1, <2>2, <2>3
<1> QED BY <1>4, <1>5, <1>6, <1>7, StepKept DEF Local

LEMMA LoadIssueKept ==
  ASSUME LifecycleInv, NEW p \in Callers, LoadIssue(p)
  PROVE  LifecycleInv'
<1> DEFINE k == Members[verb[p].i]
           n == Index(issue[k])
<1>1. /\ verb[p].step = "walk" /\ verb[p].at = 0 /\ verb[p].i <= Len(Members)
      /\ Becomes(p, IF n = 0 \/ n >= verb[p].goal
                    THEN [verb[p] EXCEPT !.i = @ + 1]
                    ELSE [verb[p] EXCEPT !.at = n + 1, !.start = n])
      /\ UNCHANGED <<session, issue, tree, recorded, pull, merged, owner, history>>
  BY DEF LoadIssue, AtStep, project
<1>2. Recalls /\ history' \in Pasts /\ IssuesKeep(p) /\ issue' \in [Keys -> IssueStatuses]
  BY <1>1, SameHistory, IssuesStand DEF LifecycleInv, LifecycleTypeOK
<1>3. verb[p] \in VerbRecords /\ verb[p].i \in Nat \ {0} /\ verb[p].goal \in 0..6
  BY VerbIs
<1>4. k \in Keys /\ issue[k] \in IssueStatuses
  BY <1>1, <1>3, MembersAre DEF LifecycleInv, LifecycleTypeOK
<1>5. n \in 0..6 /\ (n = 0 => issue[k] \in OffPath)
  BY <1>4, PositionIs
<1>6. owner = p => \/ verb[p].partial
                   \/ \A j \in DOMAIN Members : j < verb[p].i => Reaches(Members[j], verb[p].goal)
  BY <1>1, VerbIs DEF SweptBy
<1>7. \A j, g : Reaches(j, g) => Reaches(j, g)'
  BY <1>1 DEF Reaches
<1>8. CASE n = 0 \/ n >= verb[p].goal
  <2>0. PICK r : r = [verb[p] EXCEPT !.i = verb[p].i + 1]
    OBVIOUS
  <2>1. Becomes(p, r) /\ verb[p].i + 1 \in Nat \ {0}
    BY <1>1, <1>3, <1>8, <2>0
  <2>2. /\ r \in VerbRecords /\ r.name = verb[p].name /\ r.step = verb[p].step
        /\ r.to = verb[p].to /\ r.from = verb[p].from /\ r.left = verb[p].left
        /\ r.goal = verb[p].goal /\ r.cut = verb[p].cut /\ r.partial = verb[p].partial
        /\ r.at = verb[p].at /\ r.i = verb[p].i + 1
    BY <1>3, <2>0, <2>1 DEF VerbRecords
  <2>3. verb'[p] = r
    BY <2>1, <2>2, Turning
  <2>4. Walks(p)'
    BY <1>1, <2>2, <2>3 DEF Walks
  <2>5. Reaches(k, r.goal)
    BY <1>5, <1>8, <2>2 DEF Reaches
  <2>6. owner = p => \/ r.partial
                     \/ \A j \in DOMAIN Members : j < r.i => Reaches(Members[j], r.goal)'
    <3>1. ASSUME NEW j \in DOMAIN Members, j < r.i PROVE j < verb[p].i \/ Members[j] = k
      <4>1. j \in Nat /\ verb[p].i \in Nat
        BY <1>3, MembersAre
      <4> QED BY <2>2, <3>1, <4>1
    <3>2. CASE verb[p].partial
      <4>1. r.partial
        BY <2>2, <3>2
      <4> QED BY <4>1
    <3>3. CASE \A j \in DOMAIN Members : j < verb[p].i => Reaches(Members[j], verb[p].goal)
      <4>1. ASSUME NEW j \in DOMAIN Members, j < r.i PROVE Reaches(Members[j], r.goal)
        BY <2>2, <2>5, <3>1, <3>3, <4>1
      <4> QED BY <1>7, <4>1
    <3> QED BY <1>6, <3>2, <3>3
  <2>7. UNCHANGED <<session, tree, recorded, pull, merged, owner>>
    BY <1>1
  <2> QED BY <1>1, <1>2, <2>1, <2>2, <2>4, <2>6, <2>7, WalkStep
<1>9. CASE ~(n = 0 \/ n >= verb[p].goal)
  <2>0. PICK r : r = [verb[p] EXCEPT !.at = n + 1, !.start = n]
    OBVIOUS
  <2>1. Becomes(p, r)
    BY <1>1, <1>9, <2>0
  <2>2. n + 1 \in 0..6 /\ n + 1 >= 2 /\ n + 1 <= verb[p].goal
    BY <1>3, <1>5, <1>9
  <2>3. /\ r \in VerbRecords /\ r.name = verb[p].name /\ r.step = verb[p].step
        /\ r.to = verb[p].to /\ r.from = verb[p].from /\ r.left = verb[p].left
        /\ r.goal = verb[p].goal /\ r.cut = verb[p].cut /\ r.partial = verb[p].partial
        /\ r.at = n + 1 /\ r.i = verb[p].i
    BY <1>3, <1>5, <2>0, <2>2 DEF VerbRecords
  <2>4. verb'[p] = r
    BY <2>1, <2>3, Turning
  <2>5. Walks(p)'
    BY <1>1, <2>2, <2>3, <2>4 DEF Walks
  <2>6. owner = p => \/ r.partial
                     \/ \A j \in DOMAIN Members : j < r.i => Reaches(Members[j], r.goal)'
    <3>1. CASE verb[p].partial
      <4>1. r.partial
        BY <2>3, <3>1
      <4> QED BY <4>1
    <3>2. CASE \A j \in DOMAIN Members : j < verb[p].i => Reaches(Members[j], verb[p].goal)
      BY <1>7, <2>3, <3>2
    <3> QED BY <1>6, <3>1, <3>2
  <2>7. UNCHANGED <<session, tree, recorded, pull, merged, owner>>
    BY <1>1
  <2> QED BY <1>1, <1>2, <2>1, <2>3, <2>5, <2>6, <2>7, WalkStep
<1> QED BY <1>8, <1>9

LEMMA StopIssueKept ==
  ASSUME LifecycleInv, NEW p \in Callers, StopIssue(p)
  PROVE  LifecycleInv'
<1> DEFINE k == Members[verb[p].i]
           moved == verb[p].at > verb[p].start + 1
<1>1. /\ verb[p].step = "walk" /\ verb[p].at > 0
      /\ Becomes(p, [verb[p] EXCEPT !.i = @ + 1, !.at = 0, !.partial = @ \/ moved])
      /\ UNCHANGED <<session, issue, tree, recorded, pull, merged, owner>>
      /\ history' = [history EXCEPT !.behind = IF moved THEN @ ELSE @ \cup {k}]
  BY DEF StopIssue, AtStep, project
<1>2. /\ verb[p] \in VerbRecords /\ verb[p].i \in Nat \ {0} /\ verb[p].partial \in BOOLEAN
      /\ verb[p].at \in 0..6 /\ history \in Pasts /\ verb[p].goal \in 0..6
  BY VerbIs DEF LifecycleInv, LifecycleTypeOK
<1>3. verb[p].i \in DOMAIN Members /\ k \in Keys
  BY <1>1, <1>2, VerbIs, MembersAre DEF Walks
<1>4. /\ history' \in Pasts /\ Recalls /\ history.behind \subseteq history'.behind
      /\ (~moved => k \in history'.behind)
  BY <1>1, <1>2, <1>3 DEF Pasts, Recalls
<1>5. IssuesKeep(p) /\ issue' \in [Keys -> IssueStatuses]
  BY <1>1, <1>4, IssuesStand DEF LifecycleInv, LifecycleTypeOK, Recalls
<1>6. PICK b \in BOOLEAN :
        /\ (verb[p].partial => b) /\ (moved => b)
        /\ Becomes(p, [verb[p] EXCEPT !.i = verb[p].i + 1, !.at = 0, !.partial = b])
  <2> DEFINE b == verb[p].partial \/ moved
  <2>1. Becomes(p, [verb[p] EXCEPT !.i = verb[p].i + 1, !.at = 0, !.partial = b])
    BY <1>1
  <2>2. b \in BOOLEAN
    OBVIOUS
  <2> QED BY <2>1, <2>2
<1>60. PICK r : r = [verb[p] EXCEPT !.i = verb[p].i + 1, !.at = 0, !.partial = b]
  OBVIOUS
<1>61. Becomes(p, r)
  BY <1>6, <1>60
<1>7. /\ r \in VerbRecords /\ r.name = verb[p].name /\ r.step = verb[p].step
      /\ r.to = verb[p].to /\ r.from = verb[p].from /\ r.left = verb[p].left
      /\ r.goal = verb[p].goal /\ r.cut = verb[p].cut
      /\ r.at = 0 /\ r.i = verb[p].i + 1 /\ r.partial = b
  <2>1. verb[p].i + 1 \in Nat \ {0} /\ 0 \in 0..6
    BY <1>2
  <2> QED BY <1>2, <1>60, <2>1 DEF VerbRecords
<1>8. Walks(p)'
  <2>1. verb'[p] = r
    BY <1>61, <1>7, Turning
  <2> QED BY <1>7, <2>1 DEF Walks
<1>9. \A j, g : Reaches(j, g) => Reaches(j, g)'
  BY <1>1, <1>4 DEF Reaches
<1>10. owner = p => \/ r.partial
                    \/ \A j \in DOMAIN Members : j < r.i => Reaches(Members[j], r.goal)'
  <2>1. CASE verb[p].partial \/ moved
    <3>1. r.partial
      BY <1>6, <1>7, <2>1
    <3> QED BY <3>1
  <2>2. CASE /\ \A j \in DOMAIN Members : j < verb[p].i => Reaches(Members[j], verb[p].goal)
             /\ ~moved
    <3>1. ASSUME NEW j \in DOMAIN Members, j < r.i PROVE j < verb[p].i \/ Members[j] = k
      <4>1. j \in Nat /\ verb[p].i \in Nat
        BY <1>2, MembersAre
      <4> QED BY <1>7, <3>1, <4>1
    <3>2. \A x : x = k => Reaches(x, r.goal)'
      BY <1>4, <2>2 DEF Reaches
    <3>3. ASSUME NEW j \in DOMAIN Members, j < r.i PROVE Reaches(Members[j], r.goal)'
      <4>1. CASE j < verb[p].i
        BY <1>7, <1>9, <2>2, <4>1
      <4>2. CASE Members[j] = k
        BY <3>2, <4>2
      <4> QED BY <3>1, <3>3, <4>1, <4>2
    <3> QED BY <3>3
  <2>3. owner = p => \/ verb[p].partial
                     \/ \A j \in DOMAIN Members : j < verb[p].i => Reaches(Members[j], verb[p].goal)
    BY <1>1, VerbIs DEF SweptBy
  <2> QED BY <2>1, <2>2, <2>3
<1>11. UNCHANGED <<session, tree, recorded, pull, merged, owner>>
  BY <1>1
<1> QED BY <1>1, <1>4, <1>5, <1>61, <1>7, <1>8, <1>10, <1>11, WalkStep

LEMMA AdvanceIssueKept ==
  ASSUME LifecycleInv, NEW p \in Callers, AdvanceIssue(p)
  PROVE  LifecycleInv'
<1>1. /\ verb[p].step = "walk" /\ verb[p].at > 0
      /\ UNCHANGED <<session, tree, recorded, pull, merged, owner>>
  BY DEF AdvanceIssue, AtStep
<1>2. /\ verb[p] \in VerbRecords /\ verb[p].i \in Nat \ {0} /\ verb[p].i \in DOMAIN Members
      /\ verb[p].at \in 2..6 /\ verb[p].goal \in 0..6 /\ verb[p].at <= verb[p].goal
  BY <1>1, VerbIs, MembersAre DEF Walks
<1>3. PICK k \in Keys : k = Members[verb[p].i]
  BY <1>2, MembersAre
<1>4. PICK t \in IssueStatuses, a \in 2..6 :
        t = Lifecycle[a] /\ a = verb[p].at /\ t \notin OffPath /\ Index(t) = a
  BY <1>2, PositionIs
<1>5. PICK g \in 2..6 : g = verb[p].goal /\ a <= g
  BY <1>2, <1>4
<1> DEFINE gone == a = g /\ g >= Goal(session) /\ owner \in {p, Nobody}
<1>6. /\ <<issue[k], t>> \in IssueRoutes /\ issue' = [issue EXCEPT ![k] = t]
      /\ history' = [history EXCEPT !.behind =
                       IF Index(t) < Index(issue[k]) THEN @ \cup {k}
                       ELSE IF gone THEN @ \ {k} ELSE @]
      /\ Becomes(p, IF a = g THEN [verb[p] EXCEPT !.i = @ + 1, !.at = 0]
                             ELSE [verb[p] EXCEPT !.at = @ + 1])
  BY <1>3, <1>4, <1>5 DEF AdvanceIssue, IssueMay
<1>7. issue[k] \notin OffPath
  <2>1. issue[k] \in OffPath => t \in OffPath \cup {"planned"}
    BY <1>6, FloorAssumption
  <2>2. t # "planned"
    BY <1>4, EarlyPositions
  <2> QED BY <1>4, <2>1, <2>2
<1>8. /\ issue \in [Keys -> IssueStatuses] /\ history \in Pasts
      /\ Index(issue[k]) \in 0..6 /\ Goal(session) \in 0..6
  BY PositionIs, GoalIs DEF LifecycleInv, LifecycleTypeOK
<1>9. /\ issue' \in [Keys -> IssueStatuses] /\ issue'[k] = t
      /\ \A j \in Keys : j # k => issue'[j] = issue[j]
  BY <1>6, <1>8
<1>10. /\ history' \in Pasts /\ Recalls
       /\ history'.behind = (IF Index(t) < Index(issue[k]) THEN history.behind \cup {k}
                             ELSE IF gone THEN history.behind \ {k} ELSE history.behind)
  <2>1. PICK B \in SUBSET Keys :
          /\ B = (IF Index(t) < Index(issue[k]) THEN history.behind \cup {k}
                  ELSE IF gone THEN history.behind \ {k} ELSE history.behind)
          /\ history' = [history EXCEPT !.behind = B]
    BY <1>6, <1>8 DEF Pasts
  <2> HIDE DEF gone
  <2> QED BY <1>8, <2>1 DEF Pasts, Recalls
<1>11. ASSUME NEW j \in Keys, NEW n \in 0..6, Reaches(j, n), n <= g PROVE Reaches(j, n)'
  <2>1. CASE j # k
    BY <1>9, <1>10, <1>11, <2>1 DEF Reaches
  <2>2. CASE j = k /\ Index(t) < Index(issue[k])
    BY <1>10, <2>2 DEF Reaches
  <2>3. CASE j = k /\ ~(Index(t) < Index(issue[k])) /\ gone
    <3>1. Index(issue'[k]) >= n
      BY <1>4, <1>9, <1>11, <2>3
    <3> QED BY <2>3, <3>1 DEF Reaches
  <2>4. CASE j = k /\ ~(Index(t) < Index(issue[k])) /\ ~gone
    <3>1. history'.behind = history.behind
      BY <1>10, <2>4
    <3>2. k \in history.behind \/ Index(issue'[k]) >= n
      BY <1>4, <1>7, <1>8, <1>9, <1>11, <2>4 DEF Reaches
    <3> QED BY <2>4, <3>1, <3>2 DEF Reaches
  <2> QED BY <2>1, <2>2, <2>3, <2>4
<1>12. ASSUME ~gone, NEW j \in Keys, NEW n \in 0..6, Reaches(j, n) PROVE Reaches(j, n)'
  <2>1. CASE j # k
    BY <1>9, <1>10, <1>12, <2>1 DEF Reaches
  <2>2. CASE j = k /\ Index(t) < Index(issue[k])
    BY <1>10, <2>2 DEF Reaches
  <2>3. CASE j = k /\ ~(Index(t) < Index(issue[k]))
    <3>1. history'.behind = history.behind
      BY <1>10, <1>12, <2>3
    <3>2. k \in history.behind \/ Index(issue'[k]) >= n
      BY <1>4, <1>7, <1>8, <1>9, <1>12, <2>3 DEF Reaches
    <3> QED BY <2>3, <3>1, <3>2 DEF Reaches
  <2> QED BY <2>1, <2>2, <2>3
<1>13. IssuesKeep(p)
  <2>1. Need \in 0..6 /\ Need' = Need /\ (gone => Need <= g)
    BY <1>1, <1>8, <1>10 DEF Need, Floor, Recalls
  <2>2. ASSUME NEW j \in Keys, Reaches(j, Need) PROVE Reaches(j, Need)'
    <3>1. \A n : n = Need => Reaches(j, n)'
      BY <1>11, <1>12, <2>1, <2>2
    <3> QED BY <2>1, <3>1 DEF Reaches
  <2>3. owner \notin {p, Nobody} => \A j \in Keys, n \in 0..6 : Reaches(j, n) => Reaches(j, n)'
    BY <1>12
  <2> QED BY <2>2, <2>3 DEF IssuesKeep
<1>14. PICK r : r = IF a = g THEN [verb[p] EXCEPT !.i = @ + 1, !.at = 0]
                             ELSE [verb[p] EXCEPT !.at = @ + 1]
  OBVIOUS
<1>15. /\ r \in VerbRecords /\ r.name = verb[p].name /\ r.step = verb[p].step
       /\ r.to = verb[p].to /\ r.from = verb[p].from /\ r.left = verb[p].left
       /\ r.goal = verb[p].goal /\ r.cut = verb[p].cut /\ r.partial = verb[p].partial
       /\ \/ a = g /\ r.at = 0 /\ r.i = verb[p].i + 1
          \/ a < g /\ r.at = a + 1 /\ r.i = verb[p].i
  <2>1. CASE a = g
    <3>1. verb[p].i + 1 \in Nat \ {0} /\ 0 \in 0..6
      BY <1>2
    <3>2. r = [verb[p] EXCEPT !.i = verb[p].i + 1, !.at = 0]
      BY <1>14, <2>1
    <3> QED BY <1>2, <2>1, <3>1, <3>2 DEF VerbRecords
  <2>2. CASE a # g
    <3>1. a < g /\ a + 1 \in 0..6
      BY <1>5, <2>2
    <3>2. r = [verb[p] EXCEPT !.at = a + 1]
      BY <1>4, <1>14, <2>2
    <3> QED BY <1>2, <3>1, <3>2 DEF VerbRecords
  <2> QED BY <2>1, <2>2
<1>16. Becomes(p, r)
  BY <1>6, <1>14
<1>17. Walks(p)'
  <2>1. verb'[p] = r
    BY <1>15, <1>16, Turning
  <2>2. verb[p].i <= Len(Members)
    BY <1>1, VerbIs DEF Walks
  <2> QED BY <1>1, <1>5, <1>15, <2>1, <2>2 DEF Walks
<1>18. owner = p => \/ r.partial
                    \/ \A j \in DOMAIN Members : j < r.i => Reaches(Members[j], r.goal)'
  <2>1. CASE verb[p].partial
    <3>1. r.partial
      BY <1>15, <2>1
    <3> QED BY <3>1
  <2>2. CASE \A j \in DOMAIN Members : j < verb[p].i => Reaches(Members[j], verb[p].goal)
    <3>1. ASSUME NEW j \in DOMAIN Members, j < r.i PROVE Reaches(Members[j], r.goal)'
      <4>1. j \in Nat /\ Members[j] \in Keys /\ verb[p].i \in Nat /\ r.goal = g
        BY <1>2, <1>5, <1>15, MembersAre
      <4>2. CASE j < verb[p].i
        <5>1. Reaches(Members[j], g)
          BY <1>5, <2>2, <4>2
        <5>2. Reaches(Members[j], g)'
          BY <1>11, <4>1, <5>1
        <5> QED BY <4>1, <5>2
      <4>3. CASE ~(j < verb[p].i)
        <5>1. Members[j] = k /\ a = g
          BY <1>3, <1>15, <3>1, <4>1, <4>3
        <5>2. Reaches(k, g)'
          BY <1>4, <1>9, <5>1 DEF Reaches
        <5> QED BY <4>1, <5>1, <5>2
      <4> QED BY <4>2, <4>3
    <3> QED BY <3>1
  <2>3. owner = p => \/ verb[p].partial
                     \/ \A j \in DOMAIN Members : j < verb[p].i => Reaches(Members[j], verb[p].goal)
    BY <1>1, VerbIs DEF SweptBy
  <2> QED BY <2>1, <2>2, <2>3
<1> QED BY <1>1, <1>9, <1>10, <1>13, <1>15, <1>16, <1>17, <1>18, WalkStep

-----------------------------------------------------------------------------
(* Steps under the lock.                                                   *)

\* The caller that holds the lock goes on in its move.
LEMMA HeldKept ==
  ASSUME LifecycleInv, NEW p \in Callers, Quiet(p), owner = p, owner' = p,
         NEW r, verb'[p] = r, r.name = verb[p].name, r.to = verb[p].to,
         r.from = verb[p].from, r.step \in {"script", "walk"},
         r.cut => \/ verb[p].cut \/ verb[p].to = "abandoned"
                  \/ Route(p) = <<"verified", "completed">>,
         verb[p].to = "abandoned" /\ Ahead(p, "close_open_prs") =>
           Ahead(p, "close_open_prs")' \/ ~OpenPR' \/ history'.leak,
         verb[p].to = "abandoned" /\ Ahead(p, "remove_worktrees") =>
           Ahead(p, "remove_worktrees")' \/ ~tree'
  PROVE  Named(p)' /\ Cuts(p)' /\ Merges(p)' /\ TakesDown(p)'
<1>1. /\ session' = session /\ (merged => merged') /\ Recalls /\ TreesKeep /\ VerbsKeep
  BY DEF Quiet
<1>2. Named(p) /\ Cuts(p) /\ Merges(p) /\ TakesDown(p)
  BY VerbIs
<1>3. Named(p)'
  BY <1>1, <1>2 DEF Named
<1>4. Cuts(p)'
  BY <1>1, <1>2 DEF Cuts, Cutting, Route
<1>5. Merges(p)'
  <2>1. (\E q \in Callers \ {p} : Cutting(q)) =>
          (\E q \in Callers \ {p} : Cutting(q)') \/ history'.torn
    BY <1>1 DEF VerbsKeep
  <2> QED BY <1>1, <1>2, <2>1 DEF Merges, Recalls, Route
<1>6. TakesDown(p)'
  <2>1. Spawning => Spawning' \/ history'.leak
    BY <1>1 DEF VerbsKeep, Spawning
  <2>2. /\ (tree' => tree \/ Spawning') /\ (OpenPR' => OpenPR \/ Spawning')
        /\ (history.leak => history'.leak)
    BY <1>1 DEF TreesKeep, Recalls
  <2>3. SUFFICES ASSUME verb[p].to = "abandoned", session \notin {"planned", "queued"}
                 PROVE  /\ ~Ahead(p, "close_open_prs")' => ~OpenPR' \/ history'.leak \/ Spawning'
                        /\ ~Ahead(p, "remove_worktrees")' => ~tree' \/ history'.leak \/ Spawning'
    BY <1>1 DEF TakesDown
  <2>4. /\ ~Ahead(p, "close_open_prs") => ~OpenPR \/ history.leak \/ Spawning
        /\ ~Ahead(p, "remove_worktrees") => ~tree \/ history.leak \/ Spawning
    BY <1>2, <2>3 DEF TakesDown
  <2> QED BY <2>1, <2>2, <2>3, <2>4
<1> QED BY <1>3, <1>4, <1>5, <1>6

\* The sweep of a script is over: the script has been run.
LEMMA ScriptSweptKept ==
  ASSUME LifecycleInv, NEW p \in Callers, owner = p, ~verb[p].partial,
         verb[p].step = "walk", verb[p].i > Len(Members),
         NEW l \in Seq(ScriptNames), l = Tail(verb[p].left),
         Becomes(p, [verb[p] EXCEPT !.step = "script", !.left = l, !.i = 1]),
         UNCHANGED <<session, issue, tree, recorded, pull, merged, owner, history>>
  PROVE  LifecycleInv'
<1>1. /\ verb[p] \in VerbRecords /\ verb[p].left \in Seq(ScriptNames)
      /\ Holds(p) /\ Walks(p) /\ SweptBy(p)
  BY VerbIs
<1>2. /\ verb[p].left # <<>> /\ Head(verb[p].left) = "sweep_issues_forward"
      /\ verb[p].goal = Goal(verb[p].to) /\ verb[p].from = session /\ Route(p) \in LifecycleRoutes
      /\ Range(verb[p].left) \subseteq Range(Scripts[Route(p)])
  BY <1>1 DEF Holds
<1>3. /\ Range(l) \subseteq Range(verb[p].left)
      /\ \A x \in Range(verb[p].left) : x = "sweep_issues_forward" \/ x \in Range(l)
  BY <1>1, <1>2, RangeIs
<1>4. PICK r : r = [verb[p] EXCEPT !.step = "script", !.left = l, !.i = 1]
  OBVIOUS
<1>5. /\ r \in VerbRecords /\ r.name = verb[p].name /\ r.step = "script"
      /\ r.to = verb[p].to /\ r.from = verb[p].from /\ r.left = l
      /\ r.goal = verb[p].goal /\ r.cut = verb[p].cut /\ r.at = verb[p].at
  <2>1. "script" \in Steps
    BY WordsAre
  <2>2. 1 \in Nat \ {0}
    OBVIOUS
  <2> QED BY <1>1, <1>3, <1>4, <2>1, <2>2 DEF VerbRecords
<1>6. verb'[p] = r /\ Alone(p) /\ verb' \in [Callers -> VerbRecords]
  <2>1. Becomes(p, r)
    BY <1>4
  <2> QED BY <1>5, <2>1, Turning
<1>7. Quiet(p)
  <2>1. VerbsKeep
    <3>1. Cutting(p)' <=> Cutting(p)
      BY <1>5, <1>6 DEF Cutting
    <3> QED BY <1>5, <1>6, <3>1, VerbKeeps
  <2>2. TreesKeep
    BY DEF TreesKeep, OpenPR
  <2>3. Recalls /\ IssuesKeep(p)
    BY SameHistory, IssuesStand
  <2> QED BY <1>6, <2>1, <2>2, <2>3 DEF Quiet
<1>8. Named(p)' /\ Cuts(p)' /\ Merges(p)' /\ TakesDown(p)'
  <2>1. /\ Ahead(p, "close_open_prs") => Ahead(p, "close_open_prs")'
        /\ Ahead(p, "remove_worktrees") => Ahead(p, "remove_worktrees")'
    BY <1>3, <1>5, <1>6 DEF Ahead
  <2>2. owner' = p
    OBVIOUS
  <2> QED BY <1>5, <1>6, <1>7, <2>1, <2>2, HeldKept
<1>9. Holds(p)'
  BY <1>2, <1>3, <1>5, <1>6 DEF Holds, Route
<1>10. Walks(p)'
  <2>1. verb[p].at = 0
    BY <1>1, MembersAre, VerbIs DEF Walks
  <2> QED BY <1>5, <1>6, <2>1 DEF Walks
<1>11. SweptBy(p)'
  <2>1. \A j \in DOMAIN Members : Reaches(Members[j], verb[p].goal)
    <3>1. \A j \in DOMAIN Members : j < verb[p].i
      BY MembersAre, VerbIs
    <3> QED BY <1>1, <3>1 DEF SweptBy
  <2>2. \A k \in Keys : Reaches(k, Goal(verb[p].to))
    BY <1>2, <2>1, MembersAre
  <2>3. \A k \in Keys : Reaches(k, Goal(verb[p].to))'
    BY <1>5, <1>6, <2>2 DEF Reaches
  <2> QED BY <1>5, <1>6, <2>3 DEF SweptBy
<1>12. LifecycleTypeOK'
  BY <1>6 DEF LifecycleInv, LifecycleTypeOK
<1> QED BY <1>7, <1>8, <1>9, <1>10, <1>11, <1>12, StepKept DEF Local

LEMMA EndSweepKept ==
  ASSUME LifecycleInv, NEW p \in Callers, EndSweep(p)
  PROVE  LifecycleInv'
<1>1. /\ UNCHANGED <<session, issue, tree, recorded, pull, merged>> /\ UNCHANGED project
      /\ verb[p].step = "walk" /\ verb[p].i > Len(Members)
  BY DEF EndSweep, project, AtStep
<1>2. verb[p] \in VerbRecords /\ verb[p].at = 0
  BY <1>1, VerbIs, MembersAre DEF Walks
<1>3. CASE /\ Scripted(p) /\ ~verb[p].partial
           /\ Becomes(p, [verb[p] EXCEPT !.step = "script", !.left = Tail(@), !.i = 1])
           /\ UNCHANGED <<owner, history>>
  <2>1. /\ owner = p /\ ~verb[p].partial
        /\ UNCHANGED <<session, issue, tree, recorded, pull, merged, owner, history>>
    BY <1>1, <1>3 DEF Scripted, InMove
  <2>2. Tail(verb[p].left) \in Seq(ScriptNames)
    BY <1>1, <2>1, RangeIs, VerbIs DEF Holds
  <2>3. PICK l \in Seq(ScriptNames) :
          /\ l = Tail(verb[p].left)
          /\ Becomes(p, [verb[p] EXCEPT !.step = "script", !.left = l, !.i = 1])
    BY <1>3, <2>2
  <2> QED BY <1>1, <2>1, <2>3, ScriptSweptKept
<1>4. CASE Scripted(p) /\ verb[p].partial /\ Fails(p)
  BY <1>1, <1>4, FailureKept
<1>5. CASE /\ ~Scripted(p) /\ verb[p].name = "complete"
           /\ Becomes(p, [verb[p] EXCEPT !.step = "move", !.i = 1])
           /\ UNCHANGED <<owner, history>>
  <2>1. owner # p /\ verb[p].cut = FALSE /\ merged
    BY <1>1, <1>5, VerbIs DEF Scripted, InMove, Cuts, Cutting, Named
  <2>11. "move" \in Steps
    BY WordsAre
  <2>12. 1 \in Nat \ {0}
    OBVIOUS
  <2>2. PICK r : r = [verb[p] EXCEPT !.step = "move", !.i = 1]
    OBVIOUS
  <2>3. /\ r \in VerbRecords /\ r.name = "complete" /\ r.step = "move"
        /\ r.to = verb[p].to /\ r.cut = verb[p].cut /\ r.at = 0
    BY <1>2, <1>5, <2>2, <2>11, <2>12 DEF VerbRecords
  <2>4. verb'[p] = r /\ Alone(p) /\ verb' \in [Callers -> VerbRecords]
    <3>1. Becomes(p, r)
      BY <1>5, <2>2
    <3> QED BY <2>3, <3>1, Turning
  <2>5. /\ Walks(p)' /\ Named(p)' /\ ~Cutting(p)'
        /\ verb'[p].name # "spawn" /\ verb'[p].step # "script"
    BY <1>1, <2>1, <2>3, <2>4 DEF Walks, Named, Cutting
  <2>6. Recalls /\ history' \in Pasts /\ IssuesKeep(p) /\ issue' \in [Keys -> IssueStatuses]
    BY <1>1, <1>5, SameHistory, IssuesStand DEF LifecycleInv, LifecycleTypeOK
  <2>7. (OpenPR' => OpenPR) /\ UNCHANGED <<session, tree, recorded, merged, owner>>
    BY <1>1, <1>5 DEF OpenPR
  <2> QED BY <1>1, <2>1, <2>4, <2>5, <2>6, <2>7, PlainStep
<1>6. CASE ~Scripted(p) /\ Ends(p) /\ UNCHANGED <<owner, history>>
  <2>1. verb'[p] = Idle /\ Alone(p) /\ verb' \in [Callers -> VerbRecords] /\ owner # p
    BY <1>6, Resting DEF Scripted, InMove
  <2>2. /\ Walks(p)' /\ Named(p)' /\ ~Cutting(p)'
        /\ verb'[p].name # "spawn" /\ verb'[p].step # "script"
    BY <2>1, IdleRests
  <2>3. Recalls /\ history' \in Pasts /\ IssuesKeep(p) /\ issue' \in [Keys -> IssueStatuses]
    BY <1>1, <1>6, SameHistory, IssuesStand DEF LifecycleInv, LifecycleTypeOK
  <2>4. (OpenPR' => OpenPR) /\ UNCHANGED <<session, tree, recorded, merged, owner>>
    BY <1>1, <1>6 DEF OpenPR
  <2> QED BY <1>1, <2>1, <2>2, <2>3, <2>4, PlainStep
<1> QED BY <1>3, <1>4, <1>5, <1>6 DEF EndSweep

-----------------------------------------------------------------------------
(* Tearing down.                                                           *)

LEMMA ClosePRKept ==
  ASSUME LifecycleInv, NEW p \in Callers, ClosePR(p)
  PROVE  LifecycleInv'
<1>1. /\ UNCHANGED <<session, issue, tree, recorded, merged, owner>>
      /\ verb[p].step = "close" /\ Goes(p, "remove")
  BY DEF ClosePR, AtStep
<1>2. OpenPR' => OpenPR
  BY DEF ClosePR, OpenPR
<1>3. owner # p /\ verb[p].name = "abandon" /\ verb[p].cut = FALSE /\ verb[p].at = 0
  BY <1>1, IdleFree, VerbIs DEF Named, Cutting, Walks
<1>4. PICK l \in BOOLEAN : history' = [history EXCEPT !.leak = l] /\ (history.leak => l)
  <2> DEFINE l == history.leak \/ pull' \in {"draft", "ready"}
  <2>1. history' = [history EXCEPT !.leak = l]
    BY DEF ClosePR
  <2> QED BY <2>1
<1>5. Recalls /\ history' \in Pasts /\ history'.behind = history.behind
  BY <1>4 DEF Recalls, Pasts, LifecycleInv, LifecycleTypeOK
<1>6. IssuesKeep(p) /\ issue' \in [Keys -> IssueStatuses]
  BY <1>1, <1>5, IssuesStand DEF LifecycleInv, LifecycleTypeOK, Recalls
<1>7. /\ Alone(p) /\ verb' \in [Callers -> VerbRecords] /\ verb'[p].step = "remove"
      /\ verb'[p].name = verb[p].name /\ verb'[p].to = verb[p].to
      /\ verb'[p].at = verb[p].at /\ verb'[p].cut = verb[p].cut
  <2>1. "remove" \in Steps
    BY WordsAre
  <2> QED BY <1>1, <2>1, Stepping
<1>8. /\ Walks(p)' /\ Named(p)' /\ ~Cutting(p)'
      /\ verb'[p].name # "spawn" /\ verb'[p].step # "script"
  BY <1>3, <1>7, VerbIs DEF Walks, Named, Cutting
<1> QED BY <1>1, <1>2, <1>3, <1>5, <1>6, <1>7, <1>8, PlainStep

LEMMA RemoveTreesKept ==
  ASSUME LifecycleInv, NEW p \in Callers, RemoveTrees(p)
  PROVE  LifecycleInv'
<1>1. /\ UNCHANGED <<session, issue, recorded, pull, merged, owner>>
      /\ verb[p].step = "remove" /\ tree' \in {FALSE, tree}
      /\ tree \in BOOLEAN /\ tree' \in BOOLEAN
  BY DEF RemoveTrees, AtStep, LifecycleInv, LifecycleTypeOK
<1>2. /\ owner # p /\ ~Cutting(p) /\ verb[p].name = "abandon" /\ verb[p].at = 0
      /\ verb[p].to = "abandoned" /\ verb[p] \in VerbRecords
  BY <1>1, IdleFree, VerbIs DEF Named, Walks
<1>3. PICK l \in BOOLEAN : history' = [history EXCEPT !.leak = l] /\ (history.leak => l)
  <2> DEFINE l == history.leak \/ tree'
  <2>1. history' = [history EXCEPT !.leak = l]
    BY DEF RemoveTrees
  <2> QED BY <2>1
<1>4. Recalls /\ history' \in Pasts /\ history'.behind = history.behind
  BY <1>3 DEF Recalls, Pasts, LifecycleInv, LifecycleTypeOK
<1>5. PICK c \in BOOLEAN :
        (c <=> ~tree') /\ Becomes(p, [verb[p] EXCEPT !.step = "move", !.cut = c])
  <2> DEFINE c == ~tree'
  <2>1. Becomes(p, [verb[p] EXCEPT !.step = "move", !.cut = c])
    BY DEF RemoveTrees
  <2> QED BY <2>1
<1>6. PICK r : r = [verb[p] EXCEPT !.step = "move", !.cut = c]
  OBVIOUS
<1>7. /\ r \in VerbRecords /\ r.name = "abandon" /\ r.step = "move" /\ r.to = "abandoned"
      /\ r.at = 0 /\ r.cut = c
  <2>1. "move" \in Steps
    BY WordsAre
  <2> QED BY <1>2, <1>6, <2>1 DEF VerbRecords
<1>8. verb'[p] = r /\ Alone(p) /\ verb' \in [Callers -> VerbRecords]
  <2>1. Becomes(p, r)
    BY <1>5, <1>6
  <2> QED BY <1>7, <2>1, Turning
<1>9. Cutting(p)' <=> ~tree'
  BY <1>5, <1>7, <1>8 DEF Cutting
<1>10. Quiet(p)
  <2>1. VerbsKeep
    BY <1>2, <1>7, <1>8, VerbKeeps
  <2>2. TreesKeep
    <3>1. (recorded' => recorded) /\ (OpenPR' => OpenPR) /\ (tree' => tree)
      <4>1. recorded' => recorded
        BY <1>1
      <4>2. OpenPR' => OpenPR
        BY <1>1 DEF OpenPR
      <4>3. tree' = FALSE \/ tree' = tree
        BY <1>1
      <4> QED BY <4>1, <4>2, <4>3
    <3>2. tree => tree' \/ SomeCutting'
      BY <1>9 DEF SomeCutting
    <3> QED BY <3>1, <3>2 DEF TreesKeep
  <2>3. IssuesKeep(p)
    BY <1>1, <1>4, IssuesStand DEF Recalls
  <2> QED BY <1>1, <1>4, <1>8, <2>1, <2>2, <2>3 DEF Quiet
<1>11. LifecycleTypeOK'
  BY <1>1, <1>4, <1>8 DEF LifecycleInv, LifecycleTypeOK
<1>12. Local(p)'
  <2>1. Walks(p)' /\ Named(p)'
    BY <1>7, <1>8 DEF Walks, Named
  <2> QED BY <1>1, <1>2, <1>7, <1>8, <2>1, Unlocked
<1> QED BY <1>10, <1>11, <1>12, StepKept

LEMMA TidyKept ==
  ASSUME LifecycleInv, NEW p \in Callers, Tidy(p)
  PROVE  LifecycleInv'
<1>1. /\ UNCHANGED <<session, issue, recorded, pull, merged, owner>>
      /\ verb[p].step = "tidy" /\ tree' \in {FALSE, tree}
      /\ tree \in BOOLEAN /\ tree' \in BOOLEAN
  BY DEF Tidy, AtStep, LifecycleInv, LifecycleTypeOK
<1>2. owner # p /\ ~Cutting(p) /\ verb[p].name # "spawn" /\ merged
  BY <1>1, IdleFree, VerbIs DEF Named
<1>3. PICK l \in BOOLEAN : /\ history' = [history EXCEPT !.late = l] /\ (history.late => l)
                           /\ tree /\ ~tree' /\ session # "completed" => l
  <2> DEFINE l == history.late \/ (tree /\ ~tree' /\ session # "completed")
  <2>1. history' = [history EXCEPT !.late = l]
    BY DEF Tidy
  <2> QED BY <2>1
<1>4. /\ Recalls /\ history' \in Pasts /\ history'.behind = history.behind
      /\ (tree /\ ~tree' /\ session # "completed" => history'.late)
  BY <1>3 DEF Recalls, Pasts, LifecycleInv, LifecycleTypeOK
<1>5. verb'[p] = Idle /\ Alone(p) /\ verb' \in [Callers -> VerbRecords]
  BY Resting DEF Tidy
<1>6. Quiet(p)
  <2>1. VerbsKeep
    <3>1. verb'[p].name # "spawn"
      BY <1>5, RestIs
    <3> QED BY <1>2, <1>5, <3>1, VerbKeeps
  <2>2. TreesKeep
    <3>1. (recorded' => recorded) /\ (OpenPR' => OpenPR) /\ (tree' => tree)
      <4>1. recorded' => recorded
        BY <1>1
      <4>2. OpenPR' => OpenPR
        BY <1>1 DEF OpenPR
      <4>3. tree' = FALSE \/ tree' = tree
        BY <1>1
      <4> QED BY <4>1, <4>2, <4>3
    <3> QED BY <1>2, <1>4, <3>1 DEF TreesKeep
  <2>3. IssuesKeep(p)
    BY <1>1, <1>4, IssuesStand DEF Recalls
  <2> QED BY <1>1, <1>4, <1>5, <2>1, <2>2, <2>3 DEF Quiet
<1>7. LifecycleTypeOK'
  BY <1>1, <1>4, <1>5 DEF LifecycleInv, LifecycleTypeOK
<1>8. Local(p)'
  BY <1>1, <1>2, <1>5, Rested
<1> QED BY <1>6, <1>7, <1>8, StepKept

-----------------------------------------------------------------------------
(* The scripts of a move.                                                  *)

\* A script but the sweep is over.
LEMMA NextScriptKept ==
  ASSUME LifecycleInv, NEW p \in Callers, verb[p].step = "script",
         NEW s, s = Head(verb[p].left), verb[p].left # <<>>, s # "sweep_issues_forward",
         UNCHANGED <<session, issue, recorded, merged, owner>>,
         NEW c \in BOOLEAN, NEW l \in Seq(ScriptNames), l = Tail(verb[p].left),
         Becomes(p, [verb[p] EXCEPT !.left = l, !.cut = c]),
         verb[p].cut => c,
         c => \/ verb[p].cut \/ verb[p].to = "abandoned"
              \/ Route(p) = <<"verified", "completed">>,
         tree' \in BOOLEAN, tree' => tree, tree => tree' \/ c, OpenPR' => OpenPR,
         Recalls, history' \in Pasts, history'.behind = history.behind,
         s = "close_open_prs" => ~OpenPR' \/ history'.leak,
         s = "remove_worktrees" => ~tree'
  PROVE  LifecycleInv'
<1>1. /\ verb[p] \in VerbRecords /\ verb[p].left \in Seq(ScriptNames)
      /\ Holds(p) /\ Walks(p) /\ SweptBy(p)
  BY VerbIs
<1>2. /\ owner = p /\ owner' = p /\ verb[p].from = session /\ Route(p) \in LifecycleRoutes
      /\ Range(verb[p].left) \subseteq Range(Scripts[Route(p)]) /\ verb[p].at = 0
  BY <1>1, VerbIs DEF Holds, Walks
<1>3. /\ Range(l) \subseteq Range(verb[p].left)
      /\ \A x \in Range(verb[p].left) : x = s \/ x \in Range(l)
  BY <1>1, RangeIs
<1>4. PICK r : r = [verb[p] EXCEPT !.left = l, !.cut = c]
  OBVIOUS
<1>5. /\ r \in VerbRecords /\ r.name = verb[p].name /\ r.step = "script"
      /\ r.to = verb[p].to /\ r.from = verb[p].from /\ r.left = l
      /\ r.goal = verb[p].goal /\ r.cut = c /\ r.at = 0
  BY <1>1, <1>2, <1>4 DEF VerbRecords
<1>6. verb'[p] = r /\ Alone(p) /\ verb' \in [Callers -> VerbRecords]
  <2>1. Becomes(p, r)
    BY <1>4
  <2> QED BY <1>5, <2>1, Turning
<1>7. Quiet(p)
  <2>1. Cutting(p)' <=> c
    BY <1>5, <1>6 DEF Cutting
  <2>2. VerbsKeep
    <3>1. Cutting(p) => Cutting(p)'
      BY <2>1 DEF Cutting
    <3> QED BY <1>5, <1>6, <3>1, VerbKeeps
  <2>3. TreesKeep
    <3>1. tree => tree' \/ SomeCutting'
      BY <2>1 DEF SomeCutting
    <3>2. recorded' => recorded
      OBVIOUS
    <3> QED BY <3>1, <3>2 DEF TreesKeep
  <2>4. IssuesKeep(p)
    BY IssuesStand DEF Recalls
  <2> QED BY <1>6, <2>2, <2>3, <2>4 DEF Quiet
<1>8. Named(p)' /\ Cuts(p)' /\ Merges(p)' /\ TakesDown(p)'
  <2>1. /\ Ahead(p, "close_open_prs") =>
             Ahead(p, "close_open_prs")' \/ ~OpenPR' \/ history'.leak
        /\ Ahead(p, "remove_worktrees") => Ahead(p, "remove_worktrees")' \/ ~tree'
    BY <1>3, <1>5, <1>6 DEF Ahead
  <2> QED BY <1>2, <1>5, <1>6, <1>7, <2>1, HeldKept
<1>9. Holds(p)'
  BY <1>2, <1>3, <1>5, <1>6 DEF Holds, Route
<1>10. Walks(p)'
  BY <1>5, <1>6 DEF Walks
<1>11. SweptBy(p)'
  <2>1. SUFFICES ASSUME Has(Route(p), "sweep_issues_forward")', ~Ahead(p, "sweep_issues_forward")',
                        NEW k \in Keys
                 PROVE  Reaches(k, Goal(verb[p].to))'
    BY <1>5, <1>6 DEF SweptBy
  <2>2. Has(Route(p), "sweep_issues_forward") /\ ~Ahead(p, "sweep_issues_forward")
    BY <1>3, <1>5, <1>6, <2>1 DEF Ahead, Has, Route
  <2>3. Reaches(k, Goal(verb[p].to))
    BY <1>1, <1>2, <2>2 DEF SweptBy
  <2> QED BY <1>5, <1>6, <2>3 DEF Reaches
<1>12. LifecycleTypeOK'
  BY <1>6 DEF LifecycleInv, LifecycleTypeOK
<1> QED BY <1>7, <1>8, <1>9, <1>10, <1>11, <1>12, StepKept DEF Local

LEMMA SweepScriptKept ==
  ASSUME LifecycleInv, NEW p \in Callers, SweepScript(p), verb[p].step = "script",
         verb[p].left # <<>>, Head(verb[p].left) = "sweep_issues_forward",
         UNCHANGED <<session, issue, recorded, merged, owner>>
  PROVE  LifecycleInv'
<1>1. verb[p] \in VerbRecords /\ Holds(p) /\ Walks(p) /\ UNCHANGED <<tree, pull, history>>
  BY VerbIs DEF SweepScript
<1>2. /\ owner = p /\ owner' = p /\ verb[p].from = session /\ Route(p) \in LifecycleRoutes
      /\ Range(verb[p].left) \subseteq Range(Scripts[Route(p)])
  BY <1>1 DEF Holds
<1>3. PICK g \in 0..6 : g = Goal(verb[p].to)
  BY GoalIs
<1>4. PICK r : r = [verb[p] EXCEPT !.step = "walk", !.i = 1, !.at = 0, !.partial = FALSE, !.goal = g]
  OBVIOUS
<1>5. /\ r \in VerbRecords /\ r.name = verb[p].name /\ r.step = "walk"
      /\ r.to = verb[p].to /\ r.from = verb[p].from /\ r.left = verb[p].left
      /\ r.goal = g /\ r.cut = verb[p].cut /\ r.at = 0 /\ r.i = 1
  <2>1. "walk" \in Steps
    BY WordsAre
  <2>2. 1 \in Nat \ {0} /\ 0 \in 0..6 /\ FALSE \in BOOLEAN
    OBVIOUS
  <2>3. r \in VerbRecords
    BY <1>1, <1>4, <2>1, <2>2 DEF VerbRecords
  <2> QED BY <1>1, <1>4, <2>3 DEF VerbRecords
<1>6. verb'[p] = r /\ Alone(p) /\ verb' \in [Callers -> VerbRecords]
  <2>1. Becomes(p, r)
    BY <1>3, <1>4 DEF SweepScript
  <2> QED BY <1>5, <2>1, Turning
<1>7. Quiet(p)
  <2>1. VerbsKeep
    <3>1. Cutting(p)' <=> Cutting(p)
      BY <1>5, <1>6 DEF Cutting
    <3> QED BY <1>5, <1>6, <3>1, VerbKeeps
  <2>2. TreesKeep
    BY <1>1 DEF TreesKeep, OpenPR
  <2>3. Recalls /\ IssuesKeep(p)
    BY <1>1, SameHistory, IssuesStand
  <2> QED BY <1>6, <2>1, <2>2, <2>3 DEF Quiet
<1>8. Named(p)' /\ Cuts(p)' /\ Merges(p)' /\ TakesDown(p)'
  <2>1. /\ Ahead(p, "close_open_prs") => Ahead(p, "close_open_prs")'
        /\ Ahead(p, "remove_worktrees") => Ahead(p, "remove_worktrees")'
    BY <1>5, <1>6 DEF Ahead
  <2> QED BY <1>2, <1>5, <1>6, <1>7, <2>1, HeldKept
<1>9. Holds(p)'
  BY <1>2, <1>3, <1>5, <1>6 DEF Holds, Route
<1>10. Walks(p)'
  BY <1>5, <1>6 DEF Walks
<1>11. SweptBy(p)'
  <2>1. \A j \in DOMAIN Members : ~(j < 1)
    BY MembersAre
  <2> QED BY <1>5, <1>6, <2>1 DEF SweptBy
<1>12. LifecycleTypeOK'
  BY <1>1, <1>6 DEF LifecycleInv, LifecycleTypeOK
<1> QED BY <1>7, <1>8, <1>9, <1>10, <1>11, <1>12, StepKept DEF Local

LEMMA ScriptWorksKept ==
  ASSUME LifecycleInv, NEW p \in Callers, ScriptWorks(p)
  PROVE  LifecycleInv'
<1>1. PICK s : s = Head(verb[p].left)
  OBVIOUS
<1>2. /\ verb[p].step = "script" /\ verb[p].left # <<>>
      /\ UNCHANGED <<session, issue, recorded, merged, owner>>
  BY DEF ScriptWorks, AtStep
<1>3. PICK l \in Seq(ScriptNames) : l = Tail(verb[p].left)
  BY <1>2, RangeIs, VerbIs
<1>4. /\ verb[p] \in VerbRecords /\ verb[p].cut \in BOOLEAN
      /\ tree \in BOOLEAN /\ history \in Pasts
  BY VerbIs DEF LifecycleInv, LifecycleTypeOK
<1>5. NextScript(p) => Becomes(p, [verb[p] EXCEPT !.left = l, !.cut = verb[p].cut])
  <2>1. NextScript(p) => Becomes(p, [verb[p] EXCEPT !.left = l])
    BY <1>3 DEF NextScript
  <2>2. [verb[p] EXCEPT !.left = l] = [verb[p] EXCEPT !.left = l, !.cut = verb[p].cut]
    BY <1>4 DEF VerbRecords
  <2> QED BY <2>1, <2>2
<1>6. ASSUME NextScript(p), s # "sweep_issues_forward", s # "remove_worktrees",
             tree' = tree, OpenPR' => OpenPR,
             Recalls, history' \in Pasts, history'.behind = history.behind,
             s = "close_open_prs" => ~OpenPR' \/ history'.leak
      PROVE  LifecycleInv'
  <2>1. Becomes(p, [verb[p] EXCEPT !.left = l, !.cut = verb[p].cut])
    BY <1>5, <1>6
  <2>2. tree' \in BOOLEAN /\ (tree' => tree) /\ (tree => tree' \/ verb[p].cut)
    BY <1>4, <1>6
  <2> QED BY <1>1, <1>2, <1>3, <1>4, <1>6, <2>1, <2>2, NextScriptKept
<1>7. CASE s = "sweep_issues_forward" /\ SweepScript(p)
  BY <1>1, <1>2, <1>7, SweepScriptKept
<1>8. CASE s = "flip_drafts_to_ready" /\ FlipToReady(p)
  <2>1. OpenPR' => OpenPR
    BY <1>8 DEF FlipToReady, OpenPR
  <2>2. tree' = tree /\ history' = history /\ NextScript(p)
    BY <1>8 DEF FlipToReady
  <2> QED BY <1>6, <1>8, <2>1, <2>2, SameHistory
<1>9. CASE s = "flip_drafts_to_draft" /\ FlipToDraft(p)
  <2>1. OpenPR' => OpenPR
    BY <1>9 DEF FlipToDraft, OpenPR
  <2>2. tree' = tree /\ history' = history /\ NextScript(p)
    BY <1>9 DEF FlipToDraft
  <2> QED BY <1>6, <1>9, <2>1, <2>2, SameHistory
<1>10. CASE s = "close_open_prs" /\ CloseOpenPRs(p)
  <2>1. PICK b \in BOOLEAN : /\ history' = [history EXCEPT !.leak = b] /\ (history.leak => b)
                             /\ OpenPR /\ ~tree => b
    <3> DEFINE b == history.leak \/ (OpenPR /\ ~tree)
    <3>1. history' = [history EXCEPT !.leak = b]
      BY <1>10 DEF CloseOpenPRs
    <3> QED BY <3>1
  <2>2. /\ Recalls /\ history' \in Pasts /\ history'.behind = history.behind
        /\ (OpenPR /\ ~tree => history'.leak)
    BY <1>4, <2>1 DEF Recalls, Pasts
  <2>3. pull' = (IF tree /\ OpenPR THEN "closed" ELSE pull) /\ NextScript(p) /\ tree' = tree
    BY <1>10 DEF CloseOpenPRs
  <2>4. (OpenPR' => OpenPR) /\ (OpenPR' => history'.leak)
    <3>1. CASE tree /\ OpenPR
      BY <2>3, <3>1 DEF OpenPR
    <3>2. CASE ~(tree /\ OpenPR)
      <4>1. OpenPR' <=> OpenPR
        BY <2>3, <3>2 DEF OpenPR
      <4> QED BY <2>2, <3>2, <4>1
    <3> QED BY <3>1, <3>2
  <2> QED BY <1>6, <1>10, <2>2, <2>3, <2>4
<1>11. CASE s = "remove_worktrees" /\ RemoveWorktrees(p)
  <2>1. PICK c \in BOOLEAN : (c <=> verb[p].cut \/ tree)
                             /\ Becomes(p, [verb[p] EXCEPT !.left = l, !.cut = c])
    <3> DEFINE c == verb[p].cut \/ tree
    <3>1. Becomes(p, [verb[p] EXCEPT !.left = l, !.cut = c])
      BY <1>3, <1>11 DEF RemoveWorktrees
    <3> QED BY <3>1
  <2>2. tree' \in BOOLEAN /\ ~tree' /\ history' = history
    BY <1>11 DEF RemoveWorktrees
  <2>3. OpenPR' => OpenPR
    BY <1>11 DEF RemoveWorktrees, OpenPR
  <2>4. verb[p].to = "abandoned" \/ Route(p) = <<"verified", "completed">>
    <3>1. Route(p) \in LifecycleRoutes /\ Range(verb[p].left) \subseteq Range(Scripts[Route(p)])
      BY <1>2, VerbIs DEF Holds
    <3>2. "remove_worktrees" \in Range(verb[p].left)
      BY <1>1, <1>2, <1>11, RangeIs, VerbIs
    <3>3. Has(Route(p), "remove_worktrees") /\ Route(p)[2] = verb[p].to
      BY <3>1, <3>2 DEF Has, Route
    <3> QED BY <3>1, <3>3, TeardownAssumption
  <2>5. Recalls /\ history' \in Pasts /\ history'.behind = history.behind
    BY <2>2, SameHistory
  <2> QED BY <1>1, <1>2, <1>3, <1>11, <2>1, <2>2, <2>3, <2>4, <2>5, NextScriptKept
<1>12. CASE /\ OtherScript(p)
            /\ s \notin {"sweep_issues_forward", "close_open_prs", "remove_worktrees"}
  <2>1. OpenPR' => OpenPR
    BY <1>12 DEF OtherScript, OpenPR
  <2>2. tree' = tree /\ history' = history /\ NextScript(p)
    BY <1>12 DEF OtherScript
  <2> QED BY <1>6, <1>12, <2>1, <2>2, SameHistory
<1>13. CASE s = "sweep_issues_forward"
  BY <1>1, <1>7, <1>13 DEF ScriptWorks
<1>14. CASE s = "flip_drafts_to_ready"
  BY <1>1, <1>8, <1>14 DEF ScriptWorks
<1>15. CASE s = "flip_drafts_to_draft"
  BY <1>1, <1>9, <1>15 DEF ScriptWorks
<1>16. CASE s = "close_open_prs"
  BY <1>1, <1>10, <1>16 DEF ScriptWorks
<1>17. CASE s = "remove_worktrees"
  BY <1>1, <1>11, <1>17 DEF ScriptWorks
<1>18. CASE s \notin {"sweep_issues_forward", "flip_drafts_to_ready", "flip_drafts_to_draft",
                      "close_open_prs", "remove_worktrees"}
  BY <1>1, <1>12, <1>18 DEF ScriptWorks
<1> QED BY <1>13, <1>14, <1>15, <1>16, <1>17, <1>18

LEMMA FailingKept ==
  ASSUME LifecycleInv, NEW p \in Callers,
         ScriptFails(p) \/ MoveRefused(p) \/ MoveTimesOut(p) \/ Crash(p)
  PROVE  LifecycleInv'
<1>1. Fails(p) /\ UNCHANGED project
  BY DEF ScriptFails, MoveRefused, MoveTimesOut, Crash
<1> QED BY <1>1, FailureKept

-----------------------------------------------------------------------------
(* The two ends of a move.                                                 *)

\* What the gate has seen under the lock is what Merges asks for.
LEMMA MoveAcquiresKept ==
  ASSUME LifecycleInv, NEW p \in Callers, MoveAcquires(p)
  PROVE  LifecycleInv'
<1>1. PICK r \in LifecycleRoutes : r = <<session, verb[p].to>>
  BY DEF MoveAcquires
<1>2. PICK l \in Seq(ScriptNames) : l = Scripts[r]
  BY ScriptsAre
<1>3. /\ verb[p].step = "move" /\ owner = Nobody /\ owner' = p
      /\ UNCHANGED <<session, issue, tree, recorded, pull, merged, history>>
      /\ GateAllows(session, verb[p].to)
      /\ Becomes(p, [verb[p] EXCEPT !.step = "script", !.from = session, !.left = l])
  BY <1>1, <1>2 DEF MoveAcquires, AtStep, project
<1>4. /\ verb[p] \in VerbRecords /\ p # Nobody /\ verb[p].at = 0 /\ session \in Stations
      /\ Named(p) /\ Cuts(p) /\ RecordedIsMerged
  BY <1>3, VerbIs DEF Walks, LifecycleInv, LifecycleTypeOK, Global
<1>5. PICK v : v = [verb[p] EXCEPT !.step = "script", !.from = session, !.left = l]
  OBVIOUS
<1>6. /\ v \in VerbRecords /\ v.name = verb[p].name /\ v.step = "script"
      /\ v.to = verb[p].to /\ v.from = session /\ v.left = l
      /\ v.cut = verb[p].cut /\ v.at = 0
  <2>1. "script" \in Steps
    BY WordsAre
  <2> QED BY <1>4, <1>5, <2>1 DEF VerbRecords
<1>7. verb'[p] = v /\ Alone(p) /\ verb' \in [Callers -> VerbRecords]
  <2>1. Becomes(p, v)
    BY <1>3, <1>5
  <2> QED BY <1>6, <2>1, Turning
<1>8. Cutting(p)' <=> Cutting(p)
  BY <1>3, <1>6, <1>7 DEF Cutting
<1>9. Quiet(p)
  <2>1. VerbsKeep
    BY <1>6, <1>7, <1>8, VerbKeeps
  <2>2. TreesKeep
    BY <1>3 DEF TreesKeep, OpenPR
  <2>3. Recalls /\ IssuesKeep(p)
    BY <1>3, SameHistory, IssuesStand
  <2>4. \A q \in Callers \ {p} : owner' = q <=> owner = q
    BY <1>3, LifecycleAssumption
  <2> QED BY <1>3, <1>7, <2>1, <2>2, <2>3, <2>4 DEF Quiet
<1>10. Route(p)' = r /\ Range(verb'[p].left) = Range(Scripts[r])
  BY <1>1, <1>2, <1>6, <1>7 DEF Route
<1>11. Holds(p)'
  BY <1>3, <1>6, <1>7, <1>10 DEF Holds
<1>12. Walks(p)' /\ Named(p)'
  BY <1>3, <1>4, <1>6, <1>7 DEF Walks, Named
<1>13. SweptBy(p)'
  <2>1. Has(Route(p), "sweep_issues_forward")' => Ahead(p, "sweep_issues_forward")'
    BY <1>10 DEF Has, Ahead
  <2> QED BY <1>6, <1>7, <2>1 DEF SweptBy
<1>14. verb[p].cut => verb[p].to = "abandoned"
  BY <1>3, <1>4 DEF Cuts, Cutting, Named
<1>15. Cuts(p)'
  BY <1>3, <1>6, <1>7, <1>14 DEF Cuts
<1>16. Merges(p)'
  <2>1. SUFFICES ASSUME r = <<"verified", "completed">>
                 PROVE  merged \/ history.torn \/ \E q \in Callers \ {p} : Cutting(q)'
    BY <1>3, <1>10 DEF Merges
  <2>2. session = "verified" /\ verb[p].to = "completed"
    BY <1>1, <2>1
  <2>3. recorded /\ (tree => merged)
    BY <1>3, <2>2 DEF GateAllows, PrMerged
  <2>4. ~Cutting(p)
    BY <1>14, <2>2 DEF Cutting
  <2>5. \A q \in Callers \ {p} : Cutting(q) => Cutting(q)'
    BY <1>7 DEF Alone, Cutting
  <2> QED BY <1>4, <2>2, <2>3, <2>4, <2>5 DEF RecordedIsMerged, SomeCutting
<1>17. TakesDown(p)'
  <2>1. SUFFICES ASSUME verb[p].to = "abandoned", session \notin {"planned", "queued"}
                 PROVE  Ahead(p, "close_open_prs")' /\ Ahead(p, "remove_worktrees")'
    BY <1>3, <1>6, <1>7 DEF TakesDown
  <2>2. Has(r, "close_open_prs") /\ Has(r, "remove_worktrees")
    BY <1>1, <2>1, TeardownAssumption
  <2> QED BY <1>10, <2>2 DEF Ahead, Has
<1>18. LifecycleTypeOK'
  BY <1>3, <1>7 DEF LifecycleInv, LifecycleTypeOK
<1> QED BY <1>9, <1>11, <1>12, <1>13, <1>15, <1>16, <1>17, <1>18, StepKept DEF Local

LEMMA PastsTake ==
  ASSUME NEW h \in Pasts, NEW a \in BOOLEAN, NEW b \in BOOLEAN, NEW c \in BOOLEAN,
         NEW d \in BOOLEAN
  PROVE  [h EXCEPT !.bypass = a, !.bare = b, !.back = c, !.late = d] \in Pasts
BY DEF Pasts

\* The commit: what each route promises of the status it ends in.
LEMMA CommitKept ==
  ASSUME LifecycleInv, NEW p \in Callers, Commit(p)
  PROVE  LifecycleInv'
<1>1. PICK S \in Stations, T \in Stations : S = session /\ T = verb[p].to
  BY VerbIs DEF LifecycleInv, LifecycleTypeOK
<1>2. /\ verb[p].step = "script" /\ verb[p].left = <<>> /\ session' = T /\ owner' = Nobody
      /\ UNCHANGED <<issue, tree, recorded, pull, merged>>
      /\ verb[p].name = "complete" => Goes(p, "tidy")
      /\ verb[p].name # "complete" => Ends(p)
  BY <1>1 DEF Commit, AtStep
<1>3. /\ owner = p /\ p # Nobody /\ verb[p].from = S /\ Route(p) = <<S, T>>
      /\ <<S, T>> \in LifecycleRoutes
      /\ Named(p) /\ SweptBy(p) /\ Cuts(p) /\ Merges(p) /\ TakesDown(p)
      /\ verb[p].at = 0 /\ verb[p].cut \in BOOLEAN
  <2>1. /\ Holds(p) /\ Walks(p) /\ Named(p) /\ SweptBy(p) /\ Cuts(p) /\ Merges(p) /\ TakesDown(p)
        /\ p # Nobody /\ verb[p].at \in 0..6 /\ verb[p].cut \in BOOLEAN
    BY VerbIs
  <2>2. /\ owner = p /\ verb[p].from = session /\ Route(p) \in LifecycleRoutes
        /\ Route(p) = <<verb[p].from, verb[p].to>>
    BY <1>2, <2>1 DEF Holds, Route
  <2>3. verb[p].at = 0
    BY <1>2, <2>1 DEF Walks
  <2> QED BY <1>1, <2>1, <2>2, <2>3
<1>4. /\ history \in Pasts /\ issue \in [Keys -> IssueStatuses]
      /\ \A k \in Keys : Reaches(k, Need)
      /\ RecordedIsMerged /\ CompletedIsMerged /\ NothingLeft /\ SpawnHasTrees /\ LiveHasTrees
  BY DEF LifecycleInv, LifecycleTypeOK, Global
<1>5. \A script : ~Ahead(p, script)
  BY <1>2, EmptyRange DEF Ahead
<1>6. PICK bypass \in BOOLEAN, bare \in BOOLEAN, back \in BOOLEAN, late \in BOOLEAN :
        /\ history' = [history EXCEPT !.bypass = bypass, !.bare = bare, !.back = back,
                                      !.late = late]
        /\ bypass <=> history.bypass \/ <<S, T>> = <<"paused", "completed">>
        /\ bare <=> history.bare \/ (T = "executing" /\ verb[p].name # "spawn")
        /\ back <=> history.back \/ (T = "queued" /\ (tree \/ OpenPR))
        /\ late <=> history.late \/ (T = "completed" /\ Spawning)
  <2> DEFINE bypass == history.bypass \/ <<verb[p].from, verb[p].to>> = <<"paused", "completed">>
             bare == history.bare \/ (verb[p].to = "executing" /\ verb[p].name # "spawn")
             back == history.back \/ (verb[p].to = "queued" /\ (tree \/ OpenPR))
             late == history.late \/ (/\ verb[p].to = "completed"
                                      /\ \E q \in Callers : verb[q].name = "spawn")
  <2>1. history' = [history EXCEPT !.bypass = bypass, !.bare = bare, !.back = back, !.late = late]
    BY DEF Commit
  <2>2. (bypass <=> history.bypass \/ <<S, T>> = <<"paused", "completed">>) /\ bypass \in BOOLEAN
    BY <1>1, <1>3
  <2>3. (bare <=> history.bare \/ (T = "executing" /\ verb[p].name # "spawn")) /\ bare \in BOOLEAN
    BY <1>1
  <2>4. (back <=> history.back \/ (T = "queued" /\ (tree \/ OpenPR))) /\ back \in BOOLEAN
    BY <1>1
  <2>5. (late <=> history.late \/ (T = "completed" /\ Spawning)) /\ late \in BOOLEAN
    BY <1>1 DEF Spawning
  <2> HIDE DEF bypass, bare, back, late
  <2> QED BY <2>1, <2>2, <2>3, <2>4, <2>5
<1>7. /\ history' \in Pasts
      /\ history'.behind = history.behind /\ history'.torn = history.torn
      /\ history'.leak = history.leak /\ history'.bypass = bypass
      /\ history'.bare = bare /\ history'.back = back /\ history'.late = late
  <2>1. history' = [history EXCEPT !.bypass = bypass, !.bare = bare, !.back = back,
                                   !.late = late]
    BY <1>6
  <2>2. history' \in Pasts
    BY <1>4, <2>1, PastsTake
  <2>3. /\ history'.behind = history.behind /\ history'.torn = history.torn
        /\ history'.leak = history.leak
    BY <1>4, <2>1 DEF Pasts
  <2>4. /\ history'.bypass = bypass /\ history'.bare = bare /\ history'.back = back
        /\ history'.late = late
    BY <1>4, <2>1 DEF Pasts
  <2> QED BY <2>2, <2>3, <2>4
<1>8. /\ Alone(p) /\ verb' \in [Callers -> VerbRecords] /\ Walks(p)' /\ Named(p)'
      /\ ~Cutting(p)' /\ verb'[p].name # "spawn" /\ verb'[p].step # "script"
  <2>1. CASE verb[p].name = "complete"
    <3>1. "tidy" \in Steps
      BY WordsAre
    <3>2. /\ Alone(p) /\ verb' \in [Callers -> VerbRecords] /\ verb'[p].step = "tidy"
          /\ verb'[p].name = "complete" /\ verb'[p].at = 0
      BY <1>2, <1>3, <2>1, <3>1, Stepping
    <3>3. merged'
      BY <1>2, <1>3, <2>1 DEF Named
    <3> QED BY <3>2, <3>3 DEF Walks, Named, Cutting
  <2>2. CASE verb[p].name # "complete"
    <3>1. verb'[p] = Idle /\ Alone(p) /\ verb' \in [Callers -> VerbRecords]
      BY <1>2, <2>2, Resting
    <3> QED BY <3>1, IdleRests
  <2> QED BY <2>1, <2>2
<1>9. \A q \in Callers : q # p => verb'[q] = verb[q]
  BY <1>8 DEF Alone
<1>10. ASSUME NEW q \in Callers PROVE Local(q)'
  <2>1. owner' # q
    BY <1>2, LifecycleAssumption
  <2>2. CASE q = p
    BY <1>8, <2>1, <2>2, Unlocked
  <2>3. CASE q # p
    <3>1. verb'[q] = verb[q] /\ owner # q
      BY <1>3, <1>9, <2>3
    <3>2. Holds(q) /\ Walks(q) /\ Named(q) /\ Cuts(q)
      BY VerbIs
    <3>3. verb'[q].step # "script"
      BY <3>1, <3>2 DEF Holds
    <3>4. Walks(q)' /\ Named(q)'
      BY <1>2, <3>1, <3>2 DEF Walks, Named
    <3>5. Cutting(q)' => verb'[q].name = "abandon" /\ verb'[q].step = "move"
      BY <3>1, <3>2 DEF Cuts, Cutting
    <3> QED BY <2>1, <3>3, <3>4, <3>5, Unlocked
  <2> QED BY <2>2, <2>3
\* The verbs that have cut, and the spawns, but for this one.
<1>11. \A q \in Callers : q # p => (Cutting(q)' <=> Cutting(q))
  BY <1>9 DEF Cutting
<1>12. T = "completed" => S = "paused" \/ merged \/ history.torn \/ SomeCutting'
  <2>1. SUFFICES ASSUME T = "completed", S # "paused"
                 PROVE  merged \/ history.torn \/ SomeCutting'
    OBVIOUS
  <2>2. S = "verified"
    <3>1. <<S, T>>[1] = S /\ <<S, T>>[2] = T
      OBVIOUS
    <3> QED BY <1>3, <2>1, <3>1, TeardownAssumption
  <2>3. merged \/ history.torn \/ \E q \in Callers \ {p} : Cutting(q)
    BY <1>3, <2>1, <2>2 DEF Merges
  <2> QED BY <1>11, <2>3 DEF SomeCutting
<1>13. SomeCutting => \/ SomeCutting' \/ T = "abandoned"
                      \/ T = "completed" /\ (merged \/ history.torn)
  <2>1. SUFFICES ASSUME NEW q \in Callers, Cutting(q)
                 PROVE  \/ SomeCutting' \/ T = "abandoned"
                        \/ T = "completed" /\ (merged \/ history.torn)
    BY DEF SomeCutting
  <2>2. CASE q # p
    BY <1>11, <2>1, <2>2 DEF SomeCutting
  <2>3. CASE q = p
    <3>1. T = "abandoned" \/ (S = "verified" /\ T = "completed")
      BY <1>1, <1>3, <2>1, <2>3 DEF Cuts, Cutting
    <3> QED BY <1>12, <3>1
  <2> QED BY <2>2, <2>3
<1>14. /\ Spawning' => Spawning
       /\ Spawning => Spawning' \/ T = "executing"
       /\ verb[p].name = "spawn" => Spawning
  <2>1. verb[p].name = "spawn" => T = "executing"
    BY <1>1, <1>3 DEF Named
  <2> QED BY <1>8, <1>9, <2>1 DEF Spawning
<1>15. <<S, T>>[1] = S /\ <<S, T>>[2] = T
  OBVIOUS
<1>16. S # "abandoned" /\ T # "planned"
  BY <1>3, <1>15, TeardownAssumption
<1>17. \A k \in Keys : Reaches(k, Need)'
  <2>1. PICK n \in 0..6, m \in 0..6 : n = Need /\ m = Need'
    BY GoalIs DEF Need, Floor
  <2>2. /\ n = (IF history.bypass /\ S = "completed" THEN 2 ELSE Floor(S))
        /\ m = (IF bypass /\ T = "completed" THEN 2 ELSE Floor(T))
    <3>1. n = (IF history.bypass /\ S = "completed" THEN 2 ELSE Floor(S))
      BY <1>1, <2>1 DEF Need
    <3>2. m = (IF bypass /\ T = "completed" THEN 2 ELSE Floor(T))
      BY <1>2, <1>7, <2>1 DEF Need, Floor
    <3> QED BY <3>1, <3>2
  <2>3. Floor("completed") = 6 /\ Floor("paused") = 2 /\ Floor(S) \in 0..6 /\ Floor(T) \in 0..6
    BY GoalIs DEF Floor, Goal
  <2>4. ASSUME NEW k \in Keys, NEW g \in 0..6, Reaches(k, g), m <= g PROVE Reaches(k, Need)'
    <3>1. Index(issue[k]) \in 0..6
      BY <1>4, PositionIs
    <3>2. issue[k] \in OffPath \/ k \in history.behind \/ Index(issue[k]) >= m
      BY <2>4, <3>1 DEF Reaches
    <3> QED BY <1>2, <1>7, <2>1, <3>2 DEF Reaches
  <2>5. CASE Has(<<S, T>>, "sweep_issues_forward") /\ Floor(T) = Goal(T)
    <3>1. \A k \in Keys : Reaches(k, Goal(T))
      BY <1>1, <1>2, <1>3, <1>5, <2>5 DEF SweptBy
    <3>2. m <= Goal(T) /\ Goal(T) \in 0..6
      BY <2>2, <2>3, <2>5, GoalIs
    <3> QED BY <2>4, <3>1, <3>2
  <2>6. CASE S = "paused" /\ T = "completed"
    <3>1. m = 2 /\ n = 2
      BY <1>6, <2>2, <2>3, <2>6
    <3> QED BY <1>4, <2>1, <2>4, <3>1
  <2>7. CASE Floor(T) <= Floor(S) /\ (S = "completed" => Floor(T) <= 2)
    <3>1. m <= n
      <4>1. m <= Floor(T)
        BY <2>2, <2>3
      <4>2. Floor(T) <= n
        BY <2>2, <2>3, <2>7
      <4> QED BY <2>1, <2>3, <4>1, <4>2
    <3> QED BY <1>4, <2>1, <2>4, <3>1
  <2>8. \/ Has(<<S, T>>, "sweep_issues_forward") /\ Floor(T) = Goal(T)
        \/ <<S, T>> = <<"paused", "completed">>
        \/ Floor(T) <= Floor(S) /\ (S = "completed" => Floor(T) <= Floor("paused"))
    BY <1>3, <1>15, FloorAssumption
  <2> QED BY <2>3, <2>5, <2>6, <2>7, <2>8
<1>18. RecordedIsMerged'
  <2>1. SUFFICES ASSUME recorded, ~tree
                 PROVE  merged \/ history.torn \/ T = "abandoned" \/ SomeCutting'
    BY <1>2, <1>7 DEF RecordedIsMerged
  <2> QED BY <1>1, <1>4, <1>13, <1>16, <2>1 DEF RecordedIsMerged
<1>19. CompletedIsMerged'
  <2>1. T = "completed" => merged \/ history.torn \/ bypass \/ SomeCutting'
    BY <1>6, <1>12
  <2> QED BY <1>2, <1>7, <2>1 DEF CompletedIsMerged
<1>20. NothingLeft'
  <2>1. SUFFICES ASSUME T \in {"planned", "queued", "abandoned"}
                 PROVE  (~tree /\ ~OpenPR) \/ history.leak \/ back \/ Spawning'
    BY <1>2, <1>7 DEF NothingLeft, OpenPR
  <2>2. CASE T = "queued"
    BY <1>6, <2>2
  <2>3. CASE T = "abandoned" /\ S \in {"planned", "queued"}
    BY <1>1, <1>4, <1>6, <1>14, <2>3 DEF NothingLeft
  <2>4. CASE T = "abandoned" /\ S \notin {"planned", "queued"}
    BY <1>1, <1>3, <1>5, <1>14, <2>4 DEF TakesDown
  <2> QED BY <1>16, <2>1, <2>2, <2>3, <2>4
<1>21. SpawnHasTrees'
  <2>1. Spawning /\ T # "abandoned" => tree \/ history.torn \/ bare \/ late \/ SomeCutting'
    BY <1>1, <1>4, <1>6, <1>13, <1>16 DEF SpawnHasTrees
  <2>2. Spawning /\ T = "completed" => late
    BY <1>6
  <2> QED BY <1>2, <1>7, <1>14, <2>1, <2>2 DEF SpawnHasTrees
<1>22. LiveHasTrees'
  <2>1. SUFFICES ASSUME T \in Live
                 PROVE  tree \/ history.torn \/ bare \/ late \/ SomeCutting'
    BY <1>2, <1>7 DEF LiveHasTrees, Live
  <2>2. CASE T = "executing" /\ verb[p].name # "spawn"
    BY <1>6, <2>2
  <2>3. CASE T = "executing" /\ verb[p].name = "spawn"
    BY <1>1, <1>4, <1>6, <1>13, <1>14, <1>16, <2>3 DEF SpawnHasTrees
  <2>4. CASE T \in {"in_review", "verified"}
    <3>1. S \in Live
      BY <1>3, <1>15, <2>4, TeardownAssumption
    <3> QED BY <1>1, <1>4, <1>6, <1>13, <2>4, <3>1 DEF LiveHasTrees
  <2> QED BY <2>1, <2>2, <2>3, <2>4 DEF Live
<1>23. LifecycleTypeOK'
  BY <1>2, <1>7, <1>8 DEF LifecycleInv, LifecycleTypeOK
<1> QED BY <1>10, <1>17, <1>18, <1>19, <1>20, <1>21, <1>22, <1>23 DEF LifecycleInv, Global

-----------------------------------------------------------------------------
(* What goes on beside the verbs.                                          *)

\* A step of nobody among the callers.
LEMMA OutsideKept ==
  ASSUME LifecycleInv, UNCHANGED <<session, tree, recorded, owner, verb>>,
         merged => merged', merged' \in BOOLEAN, OpenPR' => OpenPR,
         Recalls, history' \in Pasts, issue' \in [Keys -> IssueStatuses],
         \A q : IssuesKeep(q)
  PROVE  LifecycleInv'
<1>1. Alone(Nobody) /\ VerbsKeep
  BY DEF Alone, VerbsKeep, Cutting
<1>2. TreesKeep
  <2>1. (recorded' <=> recorded) /\ (tree' <=> tree)
    OBVIOUS
  <2> QED BY <2>1 DEF TreesKeep
<1>3. Quiet(Nobody)
  BY <1>1, <1>2 DEF Quiet
<1>4. Global'
  BY <1>3, GlobalKept
<1>5. ASSUME NEW q \in Callers PROVE Local(q)'
  <2>1. q \in Callers \ {Nobody}
    BY LifecycleAssumption
  <2> QED BY <1>3, <2>1, OthersKept
<1>6. LifecycleTypeOK'
  BY DEF LifecycleInv, LifecycleTypeOK
<1> QED BY <1>4, <1>5, <1>6 DEF LifecycleInv

LEMMA IssueMoveKept ==
  ASSUME LifecycleInv, IssueMove
  PROVE  LifecycleInv'
<1>1. PICK k \in Keys, s \in IssueStatuses :
        /\ IssueMay(k, s) /\ issue' = [issue EXCEPT ![k] = s]
        /\ history' = [history EXCEPT !.behind =
                         IF Index(s) < Index(issue[k]) \/ s = "planned"
                         THEN @ \cup {k} ELSE @]
        /\ UNCHANGED <<session, tree, recorded, pull, merged, owner, verb>>
  BY DEF IssueMove
<1>2. history \in Pasts /\ issue \in [Keys -> IssueStatuses] /\ merged \in BOOLEAN
  BY DEF LifecycleInv, LifecycleTypeOK
<1>3. PICK B \in SUBSET Keys :
        /\ history' = [history EXCEPT !.behind = B] /\ history.behind \subseteq B
        /\ Index(s) < Index(issue[k]) \/ s = "planned" => k \in B
  <2> DEFINE B == IF Index(s) < Index(issue[k]) \/ s = "planned"
                  THEN history.behind \cup {k} ELSE history.behind
  <2>1. history' = [history EXCEPT !.behind = B]
    BY <1>1
  <2>2. B \in SUBSET Keys /\ history.behind \subseteq B
    BY <1>2 DEF Pasts
  <2>3. Index(s) < Index(issue[k]) \/ s = "planned" => k \in B
    OBVIOUS
  <2> HIDE DEF B
  <2> QED BY <2>1, <2>2, <2>3
<1>4. Recalls /\ history' \in Pasts /\ history'.behind = B
  BY <1>2, <1>3 DEF Recalls, Pasts
<1>5. \/ k \in history'.behind \/ s \in OffPath
      \/ issue[k] \notin OffPath /\ Index(issue[k]) <= Index(s)
  <2>1. Index(s) \in 0..6 /\ Index(issue[k]) \in 0..6
    BY <1>2, PositionIs
  <2>2. issue[k] \in OffPath => s \in OffPath \/ s = "planned"
    <3>1. <<issue[k], s>> \in IssueRoutes /\ <<issue[k], s>>[1] = issue[k] /\ <<issue[k], s>>[2] = s
      BY <1>1 DEF IssueMay
    <3> QED BY <3>1, FloorAssumption
  <2> QED BY <1>3, <1>4, <2>1, <2>2
<1>6. \A q : IssuesKeep(q)
  <2>1. history.behind \subseteq history'.behind /\ history'.bypass = history.bypass
    BY <1>3, <1>4 DEF Recalls
  <2> QED BY <1>1, <1>5, <2>1, IssueGoes
<1>7. issue' \in [Keys -> IssueStatuses] /\ merged' \in BOOLEAN /\ (merged => merged')
  BY <1>1, <1>2
<1>8. OpenPR' => OpenPR
  BY <1>1 DEF OpenPR
<1> QED BY <1>1, <1>4, <1>6, <1>7, <1>8, OutsideKept

LEMMA PullRequestKept ==
  ASSUME LifecycleInv, PullRequest
  PROVE  LifecycleInv'
<1>1. /\ UNCHANGED <<session, issue, tree, recorded, owner, verb, history>>
      /\ OpenPR' => OpenPR
  BY DEF PullRequest, OpenPR
<1>2. merged \in BOOLEAN /\ issue \in [Keys -> IssueStatuses]
  BY DEF LifecycleInv, LifecycleTypeOK
<1>3. merged' \in BOOLEAN /\ (merged => merged')
  BY <1>2 DEF PullRequest
<1>4. Recalls /\ history' \in Pasts /\ (\A q : IssuesKeep(q))
  BY <1>1, SameHistory, IssuesStand
<1>5. issue' \in [Keys -> IssueStatuses]
  BY <1>1, <1>2
<1> QED BY <1>1, <1>3, <1>4, <1>5, OutsideKept

-----------------------------------------------------------------------------
(* The invariant.                                                          *)

LEMMA LifecycleInitOK == LifecycleInit => LifecycleInv
<1> SUFFICES ASSUME LifecycleInit PROVE LifecycleInv
  OBVIOUS
<1>1. /\ session \in StartStatuses /\ issue \in [Keys -> IssueStatuses] /\ owner = Nobody
      /\ verb = [p \in Callers |-> Idle]
      /\ tree = (session \notin {"planned", "queued", "completed", "abandoned"})
      /\ recorded = (session \notin {"planned", "queued"})
      /\ pull \in IF tree THEN {"none", "draft"} ELSE {"none"}
      /\ merged = (session = "completed")
      /\ history = [behind |-> {}, torn |-> FALSE, leak |-> FALSE, bypass |-> FALSE,
                    bare |-> FALSE, back |-> FALSE, late |-> FALSE]
  BY DEF LifecycleInit
<1>2. \A k \in Keys : issue[k] \in OffPath \/ Index(issue[k]) >= Goal(session)
  BY DEF LifecycleInit
<1>3. /\ history.behind = {} /\ history.torn = FALSE /\ history.leak = FALSE
      /\ history.bypass = FALSE /\ history.bare = FALSE /\ history.back = FALSE
      /\ history.late = FALSE
  BY <1>1
<1>4. LifecycleTypeOK
  <2>1. history \in Pasts
    BY <1>1 DEF Pasts
  <2>2. verb \in [Callers -> VerbRecords]
    BY <1>1, RestIs
  <2>3. session \in Stations
    BY <1>1 DEF Stations
  <2>4. tree \in BOOLEAN /\ recorded \in BOOLEAN /\ merged \in BOOLEAN
    BY <1>1
  <2> QED BY <1>1, <2>1, <2>2, <2>3, <2>4 DEF LifecycleTypeOK
<1>5. ASSUME NEW p \in Callers PROVE Local(p) /\ ~Cutting(p) /\ verb[p].name # "spawn"
  <2>1. /\ owner # p /\ verb[p].name = "queue" /\ verb[p].step = "idle" /\ verb[p].at = 0
        /\ verb[p].cut = FALSE
    BY <1>1, RestIs, LifecycleAssumption
  <2> QED BY <2>1 DEF Local, Holds, Walks, Named, SweptBy, Cuts, Merges, TakesDown, Cutting
<1>6. Global
  <2>1. ~Spawning
    BY <1>5 DEF Spawning
  <2>2. \A k \in Keys : Reaches(k, Need)
    <3>1. Need = Goal(session)
      BY <1>1, <1>3, FloorAssumption DEF Need
    <3> QED BY <1>2, <3>1 DEF Reaches
  <2>3. tree <=> session \notin {"planned", "queued", "completed", "abandoned"}
    BY <1>1
  <2>4. recorded <=> session \notin {"planned", "queued"}
    BY <1>1
  <2>5. (merged <=> session = "completed") /\ (~tree => ~OpenPR)
    BY <1>1 DEF OpenPR
  <2>6. RecordedIsMerged /\ CompletedIsMerged
    BY <2>3, <2>4, <2>5 DEF RecordedIsMerged, CompletedIsMerged
  <2>7. NothingLeft /\ SpawnHasTrees /\ LiveHasTrees
    BY <2>1, <2>3, <2>5 DEF NothingLeft, SpawnHasTrees, LiveHasTrees, Live
  <2> QED BY <2>2, <2>6, <2>7 DEF Global
<1> QED BY <1>4, <1>5, <1>6 DEF LifecycleInv

LEMMA LifecycleStepOK == LifecycleInv /\ [LifecycleNext]_lifecycleVars => LifecycleInv'
<1> SUFFICES ASSUME LifecycleInv, [LifecycleNext]_lifecycleVars PROVE LifecycleInv'
  OBVIOUS
<1>1. CASE UNCHANGED lifecycleVars
  <2>1. /\ UNCHANGED <<session, issue, tree, recorded, pull, merged, owner, verb, history>>
        /\ OpenPR' => OpenPR
    BY <1>1 DEF lifecycleVars, OpenPR
  <2>2. merged \in BOOLEAN /\ issue \in [Keys -> IssueStatuses]
    BY DEF LifecycleInv, LifecycleTypeOK
  <2>3. merged' \in BOOLEAN /\ (merged => merged') /\ issue' \in [Keys -> IssueStatuses]
    BY <2>1, <2>2
  <2>4. Recalls /\ history' \in Pasts /\ (\A q : IssuesKeep(q))
    BY <2>1, SameHistory, IssuesStand
  <2> QED BY <2>1, <2>3, <2>4, OutsideKept
<1>2. CASE IssueMove \/ PullRequest
  BY <1>2, IssueMoveKept, PullRequestKept
<1>3. ASSUME NEW p \in Callers, StartVerb(p) \/ Runs(p) \/ Crash(p) PROVE LifecycleInv'
  <2>1. CASE StartVerb(p)
    BY <2>1, StartVerbKept
  <2>2. CASE Promote(p) \/ ReopenChecks(p)
    BY <2>2, PromoteKept, ReopenChecksKept
  <2>3. CASE LoadIssue(p) \/ AdvanceIssue(p) \/ StopIssue(p) \/ EndSweep(p)
    BY <2>3, LoadIssueKept, AdvanceIssueKept, StopIssueKept, EndSweepKept
  <2>4. CASE ClosePR(p) \/ RemoveTrees(p) \/ Tidy(p)
    BY <2>4, ClosePRKept, RemoveTreesKept, TidyKept
  <2>5. CASE MoveAcquires(p) \/ ScriptWorks(p) \/ Commit(p)
    BY <2>5, MoveAcquiresKept, ScriptWorksKept, CommitKept
  <2>6. CASE MoveRefused(p) \/ MoveTimesOut(p) \/ ScriptFails(p) \/ Crash(p)
    BY <2>6, FailingKept
  <2> QED BY <1>3, <2>1, <2>2, <2>3, <2>4, <2>5, <2>6 DEF Runs
<1> QED BY <1>1, <1>2, <1>3 DEF LifecycleNext

\* What every verb of a session relies on holds throughout, whichever verbs run
\* against each other and wherever they fail.
THEOREM LifecycleInvariant == LifecycleSpec => []LifecycleInv
<1> QED BY LifecycleInitOK, LifecycleStepOK, PTL DEF LifecycleSpec

\* The types of session.yaml, issue.yaml and the verbs' own state.
THEOREM LifecycleTypeCorrect == LifecycleSpec => []LifecycleTypeOK
<1>1. LifecycleInv => LifecycleTypeOK
  BY DEF LifecycleInv
<1> QED BY <1>1, LifecycleInvariant, PTL

\* Member issues keep up with their session, through refused sweeps, moves of
\* single issues and every route of the session.
THEOREM IssuesKeepUp == LifecycleSpec => []FloorKept
<1>1. LifecycleInv => FloorKept
  <2> SUFFICES ASSUME LifecycleInv, NEW k \in Keys
               PROVE  \/ issue[k] \in OffPath \/ Index(issue[k]) >= Goal(session)
                      \/ k \in history.behind
                      \/ history.bypass /\ session = "completed"
    BY DEF FloorKept
  <2>1. Reaches(k, Need) /\ issue[k] \in IssueStatuses
    BY DEF LifecycleInv, Global, LifecycleTypeOK
  <2>2. Index(issue[k]) \in 0..6 /\ Goal(session) \in 0..6
    BY <2>1, PositionIs, GoalIs
  <2>3. Floor(session) >= Goal(session)
    BY <2>2 DEF Floor, Goal
  <2>4. CASE history.bypass /\ session = "completed"
    BY <2>4
  <2>5. CASE ~(history.bypass /\ session = "completed")
    <3>1. Reaches(k, Floor(session)) /\ Floor(session) \in 0..6
      BY <2>1, <2>2, <2>5 DEF Need, Floor
    <3> QED BY <2>2, <2>3, <3>1 DEF Reaches
  <2> QED BY <2>4, <2>5
<1> QED BY <1>1, LifecycleInvariant, PTL

\* No session is completed without its branch merged, but by the route that
\* checks nothing or once the worktrees the check looks at are gone.
THEOREM CompletedAreMerged == LifecycleSpec => []CompletedMeansMerged
<1>1. LifecycleInv => CompletedMeansMerged
  BY DEF LifecycleInv, Global, CompletedIsMerged, SomeCutting, Cutting, CompletedMeansMerged
<1> QED BY <1>1, LifecycleInvariant, PTL

\* An abandoned session has no worktree and no open pull request, unless a
\* recorded failure, a spawn or a return to the queue left it one.
THEOREM AbandonedAreBare == LifecycleSpec => []AbandonedLeavesNothing
<1>1. LifecycleInv => AbandonedLeavesNothing
  <2> SUFFICES ASSUME LifecycleInv, session = "abandoned"
               PROVE  \/ ~tree /\ pull \notin {"draft", "ready"}
                      \/ history.leak \/ history.back
                      \/ \E p \in Callers : verb[p].name = "spawn" /\ AtStep(p, "move")
    BY DEF AbandonedLeavesNothing
  <2>1. (~tree /\ ~OpenPR) \/ history.leak \/ history.back \/ Spawning
    BY DEF LifecycleInv, Global, NothingLeft
  <2>2. ASSUME NEW p \in Callers, verb[p].name = "spawn" PROVE AtStep(p, "move")
    <3>1. owner # p
      <4>1. owner = p => session = verb[p].from /\ Route(p) \in LifecycleRoutes
        BY VerbIs DEF Holds
      <4>2. Route(p)[1] = verb[p].from
        BY DEF Route
      <4> QED BY <4>1, <4>2, TeardownAssumption
    <3> QED BY <2>2, <3>1, VerbIs DEF Named, AtStep
  <2> QED BY <2>1, <2>2 DEF OpenPR, Spawning
<1> QED BY <1>1, LifecycleInvariant, PTL

\* A session at work or under review has the worktrees its completion will
\* look at, but for the recorded ways to lose them.
THEOREM LiveHaveTrees == LifecycleSpec => []LiveSessionHasTrees
<1>1. LifecycleInv => LiveSessionHasTrees
  BY DEF LifecycleInv, Global, LiveHasTrees, Live, SomeCutting, Cutting, LiveSessionHasTrees
<1> QED BY <1>1, LifecycleInvariant, PTL
=============================================================================

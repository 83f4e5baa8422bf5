------------------------------ MODULE LiveView ------------------------------
(***************************************************************************)
(* The web UI follows the project's files: an observer thread sees them    *)
(* change, a debouncer gathers the changes of one entity, a task passes    *)
(* them on to the sockets of the open pages, and a page asks again for     *)
(* what it shows of the entity (ui/file_watcher.py, ui/ws/hub.py,          *)
(* ui/server.py, ui/routes/ws.py; web/src/lib/realtime).                   *)
(*                                                                         *)
(* A file's content is the number of times it was changed; a file written  *)
(* in place changes twice, when it is truncated and when it is filled.     *)
(* A key stands for an entity or, in `channel`, for the process events of  *)
(* a session, which the emitter renames into place.  An event carries      *)
(* nothing that matters beside its key: a page asks again for the whole    *)
(* entity, whatever became of it.                                          *)
(*                                                                         *)
(* External are the watchdog library, asyncio and uvicorn, and the page's  *)
(* query cache.                                                            *)
(***************************************************************************)
EXTENDS Integers, Sequences, FiniteSets

CONSTANTS
  Pages,
  Keys,
  MaxChanges, MaxMounts, MaxBreaks  \* changes of files; openings of pages; breaks, stops and crashes

ASSUME LiveViewAssumption ==
  {MaxChanges, MaxMounts, MaxBreaks} \subseteq Nat

VARIABLES
  channel,  \* the keys that stand for the process events of a session
  disk,     \* what is in the files of each key
  phase,    \* of the server: up, stopping (no socket is left, the tasks run), down
  fs,       \* what the operating system has to tell the observer
  deb,      \* the debouncer, for each key
  queue,    \* the event queue
  conns,    \* the hub's sockets
  task,     \* what the broadcaster sends, to whom it still has to, and who did not take it
  sock,     \* each socket: its endpoint, whether it is whole, what is on the way to the page
  page,     \* each page: its connection and its queries
  budget,
  missed    \* history: keys whose change a page will not be told of

server == <<phase, fs, deb, queue, conns, task>>
files == <<channel, disk>>
viewVars == <<files, server, sock, page, budget, missed>>

\* A page has a socket for every mount and for every one that it has lost.
Sockets == Pages \X (1..(MaxMounts + MaxBreaks))
Connected(p) == page[p].at \in {"accepted", "open"}
Own(p) == <<p, IF Connected(p) THEN page[p].socket ELSE page[p].socket + 1>>

Resting == [ev |-> "none", left |-> {}, dead |-> {}]
Calm == [pending |-> FALSE, armed |-> FALSE, loose |-> 0]
NoData == -1
Unasked == [st |-> "idle", got |-> NoData, data |-> NoData]
Socket(end, ok) == [end |-> end, ok |-> ok, wire |-> <<>>]

ViewInit ==
  /\ channel \in SUBSET Keys
  /\ disk = [k \in Keys |-> 0]
  /\ phase = "up" /\ fs = <<>> /\ queue = <<>> /\ conns = {}
  /\ deb = [k \in Keys |-> Calm]
  /\ task = Resting
  /\ sock = [s \in Sockets |-> Socket("none", FALSE)]
  /\ page = [p \in Pages |-> [at |-> "away", socket |-> 0, retrying |-> FALSE,
                              query |-> [k \in Keys |-> Unasked]]]
  /\ budget = [changes |-> MaxChanges, mounts |-> MaxMounts, faults |-> MaxBreaks]
  /\ missed = [p \in Pages |-> {}]

Spend(what) == budget[what] > 0 /\ budget' = [budget EXCEPT ![what] = @ - 1]
Becomes(p, r) == page' = [page EXCEPT ![p] = r]
Open == {p \in Pages : page[p].at # "away"}
Misses(S, K) == missed' = [p \in Pages |-> IF p \in S THEN missed[p] \cup K ELSE missed[p]]

-----------------------------------------------------------------------------
(* The files.                                                               *)

\* The emitter's temporary file has no name to go by, and its rename is `moved`.
\* It is `created` only where a new directory is scanned after the rename.
Told(k) == IF k \notin channel THEN {"modified"}
           ELSE IF disk[k] = 0 THEN {"created", "moved"} ELSE {"moved"}

Change(k) ==
  /\ Spend("changes")
  /\ disk' = [disk EXCEPT ![k] = @ + 1]
  /\ IF phase # "down" THEN \E how \in Told(k) : fs' = Append(fs, [key |-> k, how |-> how])
                       ELSE fs' = fs
  /\ UNCHANGED <<channel, phase, deb, queue, conns, task, sock, page, missed>>

-----------------------------------------------------------------------------
(* The observer thread and the debouncer's timers.                          *)

\* The key's timer is cancelled and a new one armed; but one that has run out by
\* then runs all the same: it is loose.
schedule(k) ==
  \E late \in {TRUE, FALSE} :
    /\ late => deb[k].armed
    /\ deb' = [deb EXCEPT ![k] = [pending |-> TRUE, armed |-> TRUE,
                                  loose |-> IF late THEN @.loose + 1 ELSE @.loose]]

\* on_any_event: of the process events only created ones are passed on.
Handle ==
  LET e == Head(fs) IN
  /\ fs # <<>> /\ fs' = Tail(fs)
  /\ \/ /\ e.key \notin channel /\ schedule(e.key)
        /\ UNCHANGED <<queue, missed>>
     \/ /\ e.key \in channel /\ e.how = "created"
        /\ queue' = Append(queue, e.key)
        /\ UNCHANGED <<deb, missed>>
     \/ /\ e.key \in channel /\ e.how # "created"
        /\ Misses(Open, {e.key})
        /\ UNCHANGED <<deb, queue>>
  /\ UNCHANGED <<files, phase, conns, task, sock, page, budget>>

\* Any timer of a key takes what is pending and strikes the key's timer off, also
\* another one; from then on nobody can cancel that one, and it is loose in turn.
Taken(d, loose) == [pending |-> FALSE, armed |-> FALSE, loose |-> loose]

_fire(k) ==
  LET d == deb[k] IN
  /\ \/ d.armed /\ deb' = [deb EXCEPT ![k] = Taken(d, d.loose)]
     \/ /\ d.loose > 0
        /\ deb' = [deb EXCEPT ![k] = Taken(d, IF d.armed THEN d.loose ELSE d.loose - 1)]
  /\ queue' = IF d.pending THEN Append(queue, k) ELSE queue
  /\ UNCHANGED <<files, phase, fs, conns, task, sock, page, budget, missed>>

-----------------------------------------------------------------------------
(* The hub and its two tasks.                                               *)

\* A page that will ask for everything, for it has lost a connection or will.
Resyncs(p) ==
  \/ page[p].retrying
  \/ Connected(p) /\ ~sock[Own(p)].ok

\* Who is not among the sockets, and will not be told otherwise.
Unheard == {p \in Open : ~Resyncs(p) /\ Own(p) \notin conns}

\* broadcast, up to its first send: the sockets of this moment.
broadcast(ev) ==
  task' = IF conns = {} THEN Resting ELSE [ev |-> ev, left |-> conns, dead |-> {}]

broadcast_events ==
  /\ queue # <<>> /\ task = Resting
  /\ queue' = Tail(queue)
  /\ broadcast(Head(queue))
  /\ Misses(Unheard, {Head(queue)})
  /\ UNCHANGED <<files, phase, fs, deb, conns, sock, page, budget>>

\* Mutant of Undeliverable: a send on a socket that is gone waits for ever.
UndeliverableNever(s) == FALSE

\* A send on a socket that is gone raises, at the latest when the server has found
\* it out.
Undeliverable(s) == ~sock[s].ok

\* One socket after the other; those that did not take it are struck off.
Send ==
  \E s \in task.left :
    LET left == task.left \ {s}
        dead == IF Undeliverable(s) THEN task.dead \cup {s} ELSE task.dead
    IN /\ Undeliverable(s) \/ sock[s].ok
       /\ sock' = IF sock[s].ok THEN [sock EXCEPT ![s].wire = Append(@, task.ev)] ELSE sock
       /\ task' = IF left = {} THEN Resting ELSE [task EXCEPT !.left = left, !.dead = dead]
       /\ conns' = IF left = {} THEN conns \ dead ELSE conns
       /\ UNCHANGED <<files, phase, fs, deb, queue, page, budget, missed>>

\* A ping says nothing to a page; those sockets are struck off that did not take it,
\* at the end of its broadcast, and by then a socket is still as gone as it was.
heartbeat_loop ==
  \E dead \in SUBSET {s \in conns : Undeliverable(s)} \ {{}} :
    /\ conns' = conns \ dead
    /\ UNCHANGED <<files, phase, fs, deb, queue, task, sock, page, budget, missed>>

\* ws_endpoint: connect accepts the socket and then adds it.
Accept(p) ==
  /\ phase = "up" /\ page[p].at = "connecting"
  /\ Becomes(p, [page[p] EXCEPT !.at = "accepted", !.socket = @ + 1])
  /\ sock' = [sock EXCEPT ![Own(p)] = Socket("accepted", TRUE)]
  /\ UNCHANGED <<server, files, budget, missed>>

Add(s) ==
  /\ sock[s].end = "accepted"
  /\ sock' = [sock EXCEPT ![s].end = "added"]
  /\ conns' = conns \cup {s}
  /\ UNCHANGED <<files, phase, fs, deb, queue, task, page, budget, missed>>

disconnect(s) ==
  /\ sock[s].end = "added" /\ ~sock[s].ok
  /\ sock' = [sock EXCEPT ![s].end = "ended"]
  /\ conns' = conns \ {s}
  /\ UNCHANGED <<files, phase, fs, deb, queue, task, page, budget, missed>>

-----------------------------------------------------------------------------
(* The server stops in order, or dies.                                      *)

\* A page whose first connection is under way may get it from the next server.
Forgets == Misses({p \in Pages : page[p].at = "connecting" /\ ~page[p].retrying}, Keys)

Broken(s) == IF sock[s].ok THEN [sock[s] EXCEPT !.ok = FALSE, !.wire = <<>>] ELSE sock[s]

\* uvicorn lets nobody in any more and closes the sockets, before the lifespan ends.
Stop ==
  /\ phase = "up" /\ phase' = "stopping" /\ Spend("faults")
  /\ sock' = [s \in Sockets |-> Broken(s)]
  /\ Forgets
  /\ UNCHANGED <<files, fs, deb, queue, conns, task, page>>

\* Tasks cancelled, observer stopped, sockets closed; or the process is gone.
Ends ==
  /\ phase' = "down" /\ fs' = <<>> /\ queue' = <<>> /\ conns' = {}
  /\ deb' = [k \in Keys |-> Calm]
  /\ task' = Resting
  /\ sock' = [s \in Sockets |-> IF sock[s].end = "none" THEN sock[s] ELSE Socket("ended", FALSE)]
  /\ Forgets
  /\ UNCHANGED <<files, page>>

lifespan == phase = "stopping" /\ Ends /\ UNCHANGED budget
Crash == phase = "up" /\ Spend("faults") /\ Ends

Start ==
  /\ phase = "down" /\ phase' = "up"
  /\ UNCHANGED <<files, fs, deb, queue, conns, task, sock, page, budget, missed>>

-----------------------------------------------------------------------------
(* The page's connection.                                                   *)

Ask(q) == [q EXCEPT !.st = "asked", !.got = NoData]

\* What it has, or is about to get, is not what is in the file.
Outdated(p, k) ==
  LET q == page[p].query[k] IN
  (q.st = "idle" /\ q.data # disk[k]) \/ (q.st = "read" /\ q.got # disk[k])

\* useProjectWebSocket and the queries of a page that is opened, or come back to:
\* what is under way goes on, and what is fresh (30 s) is not asked for.
Mount(p) ==
  \E fresh \in SUBSET {k \in Keys : page[p].query[k].data # NoData} :
    LET kept == fresh \cup {k \in Keys : page[p].query[k].st # "idle"} IN
    /\ page[p].at = "away" /\ Spend("mounts")
    /\ Becomes(p, [page[p] EXCEPT
         !.at = "connecting", !.retrying = FALSE,
         !.query = [k \in Keys |-> IF k \in kept THEN @[k] ELSE Ask(@[k])]])
    /\ Misses({p}, IF phase = "up" THEN {k \in kept : Outdated(p, k)} ELSE Keys)
    /\ UNCHANGED <<server, files, sock>>

\* The last consumer is gone: close, without a reconnect.
Leave(p) ==
  /\ page[p].at # "away"
  /\ Becomes(p, [page[p] EXCEPT !.at = "away", !.retrying = FALSE])
  /\ sock' = IF Connected(p) THEN [sock EXCEPT ![Own(p)] = Broken(Own(p))] ELSE sock
  /\ missed' = [missed EXCEPT ![p] = {}]
  /\ UNCHANGED <<server, files, budget>>

\* An invalidation has a query start again, but one that has never had data goes
\* on with its first load.
Joins(q) == q.data = NoData /\ q.st # "idle"
Invalidated(q) == IF Joins(q) THEN q ELSE Ask(q)
FirstLoads(p, K) == {k \in K : Joins(page[p].query[k]) /\ page[p].query[k].st = "read"}

\* Mutant of wasReconnect: nothing is caught up on.
wasReconnectNever(p) == FALSE

wasReconnect(p) == page[p].retrying

onopen(p) ==
  /\ page[p].at = "accepted" /\ sock[Own(p)].ok
  /\ Becomes(p, [page[p] EXCEPT
       !.at = "open", !.retrying = FALSE,
       !.query = IF wasReconnect(p) THEN [k \in Keys |-> Invalidated(@[k])] ELSE @])
  /\ Misses({p}, IF wasReconnect(p) THEN FirstLoads(p, Keys) ELSE {})
  /\ UNCHANGED <<server, files, sock, budget>>

onmessage(p) ==
  LET s == Own(p)
      k == Head(sock[s].wire) IN
  /\ page[p].at = "open" /\ sock[s].wire # <<>>
  /\ sock' = [sock EXCEPT ![s].wire = Tail(@)]
  /\ Becomes(p, [page[p] EXCEPT !.query[k] = Invalidated(@)])
  /\ Misses({p}, FirstLoads(p, {k}))
  /\ UNCHANGED <<server, files, budget>>

\* The connection is lost in between; what was on the way to the page is lost.
Break(s) ==
  /\ sock[s].ok /\ Spend("faults")
  /\ sock' = [sock EXCEPT ![s] = Broken(s)]
  /\ UNCHANGED <<server, files, page, missed>>

\* onclose plans the next connect; how long it waits makes no difference here.
onclose(p) ==
  /\ \/ page[p].at = "connecting" /\ phase # "up" /\ ~page[p].retrying
     \/ Connected(p) /\ ~sock[Own(p)].ok
  /\ Becomes(p, [page[p] EXCEPT !.at = "connecting", !.retrying = TRUE])
  /\ UNCHANGED <<server, files, sock, budget, missed>>

-----------------------------------------------------------------------------
(* The page's queries.                                                      *)

\* What was missed is no longer, when the file is read after it.
Serve(p, k) ==
  /\ page[p].query[k].st = "asked" /\ phase = "up"
  /\ Becomes(p, [page[p] EXCEPT !.query[k].st = "read", !.query[k].got = disk[k]])
  /\ missed' = [missed EXCEPT ![p] = @ \ {k}]
  /\ UNCHANGED <<server, files, sock, budget>>

Show(p, k) ==
  LET q == page[p].query[k] IN
  /\ q.st = "read"
  /\ Becomes(p, [page[p] EXCEPT !.query[k] = [Unasked EXCEPT !.data = q.got]])
  /\ UNCHANGED <<server, files, sock, budget, missed>>

\* No server, and none when it is tried once more.
Unserved(p, k) ==
  /\ page[p].query[k].st # "idle" /\ phase # "up"
  /\ Becomes(p, [page[p] EXCEPT !.query[k].st = "idle", !.query[k].got = NoData])
  /\ UNCHANGED <<server, files, sock, budget, missed>>

-----------------------------------------------------------------------------

Server ==
  \/ Handle \/ broadcast_events \/ Send \/ lifespan
  \/ \E k \in Keys : _fire(k)
  \/ \E p \in Pages : Accept(p)
  \/ \E s \in Sockets : Add(s) \/ disconnect(s)

Client ==
  \E p \in Pages :
    \/ onopen(p) \/ onmessage(p) \/ onclose(p)
    \/ \E k \in Keys : Serve(p, k) \/ Show(p, k) \/ Unserved(p, k)

World ==
  \/ heartbeat_loop \/ Stop \/ Crash \/ Start
  \/ \E k \in Keys : Change(k)
  \/ \E s \in Sockets : Break(s)
  \/ \E p \in Pages : Mount(p) \/ Leave(p)

ViewNext == Server \/ Client \/ World

\* The server's threads and tasks go on, and so do the pages; nobody has to change a
\* file, open or leave a page or start a server, and no connection has to break.
Fairness == WF_viewVars(Server) /\ WF_viewVars(Client)

ViewSpec == ViewInit /\ [][ViewNext]_viewVars /\ Fairness

-----------------------------------------------------------------------------
(* Properties.                                                              *)

Has(seq, x) == \E i \in DOMAIN seq : seq[i] = x

\* A change of k has not been lost on its way to the hub, or to p.
Pending(k) ==
  \/ \E i \in DOMAIN fs : fs[i].key = k
  \/ deb[k].pending /\ (deb[k].armed \/ deb[k].loose > 0)
  \/ Has(queue, k)
Sent(p, k) ==
  \/ task.ev = k /\ Own(p) \in task.left
  \/ Connected(p) /\ Has(sock[Own(p)].wire, k)
Missed(p, k) == k \in missed[p]

\* What an open page shows of an entity is what is in the file, or it is going to
\* be asked for again: the change is with the operating system, with a timer that
\* will run, in the queue, on a socket or in a request, or the page has a lost
\* connection to make up for.  Except for changes that came when the page's first
\* connection was not yet made, or a later one not yet added to the hub; or while
\* the first answer was awaited; or while the page was away; and for process
\* events that were renamed into place.
StaleIsOnItsWay ==
  \A p \in Pages, k \in Keys :
    page[p].at # "away" /\ Outdated(p, k)
      => Pending(k) \/ Sent(p, k) \/ Resyncs(p) \/ Missed(p, k)

\* And so an open page comes to show what is in the files, if the server stays.
CatchesUp ==
  \A p \in Pages, k \in Keys :
    <>[](phase = "up" /\ page[p].at # "away") =>
      <>[](page[p].query[k].data = disk[k] \/ Missed(p, k))
=============================================================================

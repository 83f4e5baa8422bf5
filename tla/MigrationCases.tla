--------------------------- MODULE MigrationCases ---------------------------
(***************************************************************************)
(* Small projects for Migration: what the theorems do not say, and         *)
(* where command, help text and the readers of what it leaves disagree.    *)
(***************************************************************************)
EXTENDS Sequences, TLC

Mig == INSTANCE Migration WITH Tops <- {"issues", "sessions"}, EntityNames <- {"k1"},
                               Entries <- {"main", "notes"}, FileTexts <- {"old"}

FileAt(root, docs, entry) == [at |-> [root |-> root, top |-> "issues", name |-> "k1",
                                      docs |-> docs, entry |-> entry],
                              text |-> "old"]
NoMarkers == [locks |-> {}, acks |-> {}]
SmallFiles == {FileAt(root, docs, "notes") : root \in {Mig!Flat, Mig!New}, docs \in BOOLEAN}
              \cup {FileAt(Mig!Legacy, TRUE, "notes")}

\* For every small project: nothing is lost wherever the run ends, and after it a
\* second run without --yes is refused unless nothing is left to move.
ASSUME MigrationKeeps ==
  \A project \in SUBSET SmallFiles :
     /\ \A q \in Mig!Interrupted(project) : Mig!Keeps(project, q)
     /\ LET after == Mig!Storage(project)
            answer == Mig!StorageAnswer(after, NoMarkers, FALSE)
        IN answer = "nothing" <=> \A f \in after : f.at.root = Mig!New

\* A run that ends early cannot be repeated as it was given, nor can one that has
\* left a conflict behind.
ASSUME MigrationIsRefused ==
  LET project == {FileAt(Mig!Flat, FALSE, "main"), FileAt(Mig!Legacy, TRUE, "notes")}
      twice == project \cup {FileAt(Mig!Flat, TRUE, "notes")}
  IN /\ Mig!StorageAnswer(project, NoMarkers, FALSE) = "moves"
     /\ \E q \in Mig!Interrupted(project) : Mig!StorageAnswer(q, NoMarkers, FALSE) = "refused"
     /\ Mig!StorageAnswer(Mig!Storage(project), NoMarkers, FALSE) = "nothing"
     /\ Mig!StorageAnswer(Mig!Storage(twice), NoMarkers, FALSE) = "refused"

\* A migrated lock is the one the executor takes, unless the session's id begins
\* like the name of the workflow; a migrated acknowledgement is not the one the
\* prompt looks for.
ASSUME MigratedMarkers ==
  /\ Mig!Renamed({Mig!OldLock(<<"s1">>)}) = {Mig!NewLock(Mig!Workflow, <<"s1">>)}
  /\ LET sid == <<Mig!Workflow, "s1">>
     IN Mig!Renamed({Mig!OldLock(sid)}) # {Mig!NewLock(Mig!Workflow, sid)}
  /\ Mig!ack_marker_path(Mig!Workflow, <<"s1">>, <<"exit">>)
       \notin Mig!Renamed({Mig!OldAck(<<"exit">>, <<"s1">>)})

\* The statuses of a flat project are not rewritten until its storage is.
ASSUME StorageComesFirst ==
  LET p(root) == FileAt(root, FALSE, "main").at
  IN /\ Mig!StatusValues(p(Mig!Flat) :> "todo")[p(Mig!Flat)] = "todo"
     /\ Mig!StatusValues(p(Mig!New) :> "todo")[p(Mig!New)] = "queued"

\* One conflict keeps the directories after it, but not those before it, where
\* they were; once it is resolved the rest follows.
ASSUME TemplatesMove ==
  LET old == {Mig!TemplateRenames[i][1] : i \in DOMAIN Mig!TemplateRenames}
      new == {Mig!TemplateRenames[i][2] : i \in DOMAIN Mig!TemplateRenames}
      after == Mig!Rename(old \cup {"templates/enums"}, {}, Mig!TemplateRenames)
  IN /\ after = (old \ {"agents"}) \cup {"templates/agents", "templates/enums"}
     /\ Mig!Rename(after \ {"templates/enums"}, {}, Mig!TemplateRenames) = new
     /\ Mig!Rename(old, {"orchestration"}, Mig!TemplateRenames)
          = (new \ {"templates/orchestration"}) \cup {"orchestration"}
     /\ ~Mig!RenameFails(new, {}, Mig!TemplateRenames)
     /\ \A others \in SUBSET {"notes"} :
          Mig!GraphDirStays({"graph/index.yaml"}, {}, others) <=> others # {}

\* The other rewritings are done after one run.
ASSUME RewritingsSettle ==
  \A renames \in {Mig!EdgeRenames, Mig!IssueRenames, Mig!SessionRenames} :
     LET values == [v \in DOMAIN renames |-> v]
     IN /\ Mig!Rewritten(renames, values) = DOMAIN renames
        /\ Mig!Rewritten(renames, Mig!RewriteAll(renames, values)) = {}
=============================================================================

------------------------------ MODULE TaskFeed ------------------------------
(***************************************************************************)
(* What a client promises about the task changes that a host publishes,    *)
(* whatever becomes of sockets, leases, subscriptions and host processes:  *)
(* the cursor it has processed only moves forward, over changes that its   *)
(* task list shows or to a snapshot it has read.  A list whose read failed *)
(* says so, and says so until it shows everything the client has processed *)
(* in the meantime: nothing processed is missing unnoticed.                *)
(***************************************************************************)
EXTENDS Integers

CONSTANT None    \* the client has processed nothing

VARIABLES
    published,   \* the cursor of the newest change, reset or start of the host
    processed,   \* the cursor the client has processed
    missing,     \* the cursors of the changes and resets that the task list does not show
    failed       \* the task list reports that its read failed

feedVars == <<published, processed, missing, failed>>

Cursors == [epoch : Nat, sequence : Nat]

\* cursor c is not newer than cursor d.
UpTo(c, d) == c.epoch < d.epoch \/ (c.epoch = d.epoch /\ c.sequence <= d.sequence)

\* A client that has processed a cursor shows every change up to it, or reports a failed read.
NothingProcessedIsMissing ==
    (processed # None /\ ~failed) => \A c \in missing : ~UpTo(c, processed)

Init ==
    /\ published = [epoch |-> 1, sequence |-> 0]
    /\ processed = None
    /\ missing = {}
    /\ failed = FALSE

Publish ==
    /\ published' = [published EXCEPT !.sequence = @ + 1]
    /\ missing' = missing \cup {published'}
    /\ UNCHANGED <<processed, failed>>

Restart ==
    /\ published' = [epoch |-> published.epoch + 1, sequence |-> 0]
    /\ UNCHANGED <<processed, missing, failed>>

\* The client processes changes that follow its cursor, or a snapshot.  Either its list shows
\* everything up to the cursor it moves to, or the failure of the list stays as it is.
Advance ==
    /\ processed' \in Cursors
    /\ UpTo(processed', published)
    /\ processed # None => UpTo(processed, processed')
    /\ \/ failed /\ UNCHANGED <<missing, failed>>
       \/ missing' \subseteq missing /\ ~failed' /\ NothingProcessedIsMissing'
    /\ UNCHANGED published

\* The list shows more than the client has processed: an overtaken run of changes or snapshot, or a
\* read outside the stream.  A failure ends with a read of everything processed.
Show ==
    /\ missing' \subseteq missing
    /\ ~failed' /\ NothingProcessedIsMissing'
    /\ UNCHANGED <<published, processed>>

\* A read of the list fails.
Fail ==
    /\ failed' = TRUE
    /\ UNCHANGED <<published, processed, missing>>

Next ==
    \/ Publish
    \/ Restart
    \/ Advance
    \/ Show
    \/ Fail

Spec == Init /\ [][Next]_feedVars

=============================================================================

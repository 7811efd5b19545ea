-------------------------------- MODULE Dial --------------------------------
(***************************************************************************)
(* One call of Connections.dial (connection.go): TCP, the preface, one GET *)
(* answered, the server's SETTINGS seen, all under deadlines, beside the   *)
(* connection's reader and a server that may do any of it or none.  Time   *)
(* passes only while dial waits: its own steps take none.                  *)
(***************************************************************************)
EXTENDS Integers

CONSTANT DialTimeout        \* -dt, in ticks

ASSUME DialTimeoutAssumption == DialTimeout \in Nat \ {0}

NoDeadline == 0

VARIABLES
    pc,             \* where dial is
    clock,          \* ticks since dial was called
    deadline,       \* of the socket, NoDeadline for none
    sock,           \* "none", "open" or "closed"
    rpc,            \* the reader: "none", "read", "fail", "failing", "seen", "done"
    ccErr,          \* cc.err is set
    answer,         \* the stream's result: "none", "ok", "status" or "err"
    settingsSeen,   \* the channel is closed
    gotSettings     \* history: a SETTINGS frame was handled

connVars == <<sock, rpc, ccErr, answer, settingsSeen, gotSettings>>
dialVars == <<pc, clock, deadline, connVars>>

DialInit ==
    /\ pc = "connect" /\ clock = 0 /\ deadline = NoDeadline
    /\ sock = "none" /\ rpc = "none" /\ ccErr = FALSE
    /\ answer = "none" /\ settingsSeen = FALSE /\ gotSettings = FALSE

(***************************************************************************)
(* dial.                                                                   *)
(***************************************************************************)
ConnectedNoDeadline ==
    /\ pc = "connect"
    /\ sock' = "open" /\ pc' = "open"
    /\ UNCHANGED <<clock, deadline, rpc, ccErr, answer, settingsSeen, gotSettings>>

Connected ==
    /\ pc = "connect"
    /\ sock' = "open" /\ pc' = "open"
    /\ deadline' = clock + DialTimeout
    /\ UNCHANGED <<clock, rpc, ccErr, answer, settingsSeen, gotSettings>>

ConnectFailed ==
    /\ pc = "connect"
    /\ pc' = "failed"
    /\ UNCHANGED <<clock, deadline, connVars>>

PrefaceLeftOpen ==
    /\ pc = "open"
    /\ pc' = "failed"
    /\ UNCHANGED <<clock, deadline, connVars>>

PrefaceFailed ==
    /\ pc = "open"
    /\ sock' = "closed" /\ pc' = "failed"
    /\ UNCHANGED <<clock, deadline, rpc, ccErr, answer, settingsSeen, gotSettings>>

PrefaceWritten ==
    /\ pc = "open"
    /\ rpc' = "read" /\ pc' = "do"
    /\ UNCHANGED <<clock, deadline, sock, ccErr, answer, settingsSeen, gotSettings>>

\* Do has its result.
DoReturned ==
    /\ pc = "do" /\ answer # "none"
    /\ pc' = IF answer = "ok" THEN "settings" ELSE "close"
    /\ UNCHANGED <<clock, deadline, connVars>>

SettingsUnchecked ==
    /\ pc = "settings" /\ settingsSeen
    /\ pc' = "clear"
    /\ UNCHANGED <<clock, deadline, connVars>>

SettingsWaited ==
    /\ pc = "settings" /\ settingsSeen
    /\ pc' = IF ccErr THEN "close" ELSE "clear"
    /\ UNCHANGED <<clock, deadline, connVars>>

CloseSocket ==
    /\ pc = "close"
    /\ sock' = "closed" /\ pc' = "closing"
    /\ UNCHANGED <<clock, deadline, rpc, ccErr, answer, settingsSeen, gotSettings>>

\* Close waits for the reader.
Closed ==
    /\ pc = "closing" /\ rpc = "done"
    /\ pc' = "failed"
    /\ UNCHANGED <<clock, deadline, connVars>>

ClearDeadline ==
    /\ pc = "clear"
    /\ deadline' = NoDeadline /\ pc' = "returned"
    /\ UNCHANGED <<clock, connVars>>

DialStep ==
    \/ PrefaceFailed \/ PrefaceWritten \/ DoReturned \/ SettingsWaited
    \/ CloseSocket \/ Closed \/ ClearDeadline

(***************************************************************************)
(* The reader.  It reads a frame, or fails: because the socket was closed, *)
(* because the deadline passed, or because the server or the network ended *)
(* the connection.                                                         *)
(***************************************************************************)
Reading == rpc = "read" /\ sock = "open"

ReadSettings ==
    /\ Reading
    /\ gotSettings' = TRUE /\ settingsSeen' = TRUE
    /\ UNCHANGED <<pc, clock, deadline, sock, rpc, ccErr, answer>>

\* The answer to the GET, a 200 or another status, or a reset of its stream.
ReadAnswer(result) ==
    /\ Reading /\ answer = "none" /\ pc = "do"
    /\ answer' = result
    /\ UNCHANGED <<pc, clock, deadline, sock, rpc, ccErr, settingsSeen, gotSettings>>

\* GOAWAY, with the GET's stream kept or refused.
ReadGoAway(kept) ==
    /\ Reading
    /\ ccErr' = TRUE
    /\ answer' = IF kept \/ answer # "none" THEN answer ELSE "err"
    /\ UNCHANGED <<pc, clock, deadline, sock, rpc, settingsSeen, gotSettings>>

ReadFailed ==
    /\ rpc = "read"
    /\ rpc' = "fail" /\ sock' = "closed"
    /\ UNCHANGED <<pc, clock, deadline, ccErr, answer, settingsSeen, gotSettings>>

ReaderFails ==
    /\ rpc = "fail"
    /\ rpc' = "failing" /\ ccErr' = TRUE
    /\ UNCHANGED <<pc, clock, deadline, sock, answer, settingsSeen, gotSettings>>

ReaderFinishes ==
    /\ rpc = "failing"
    /\ rpc' = "seen"
    /\ answer' = IF answer = "none" THEN "err" ELSE answer
    /\ UNCHANGED <<pc, clock, deadline, sock, ccErr, settingsSeen, gotSettings>>

ReaderLeaves ==
    /\ rpc = "seen"
    /\ rpc' = "done"
    /\ UNCHANGED <<pc, clock, deadline, sock, ccErr, answer, settingsSeen, gotSettings>>

ReaderStops ==
    /\ rpc = "seen"
    /\ rpc' = "done" /\ settingsSeen' = TRUE
    /\ UNCHANGED <<pc, clock, deadline, sock, ccErr, answer, gotSettings>>

ReaderStep == ReaderFails \/ ReaderFinishes \/ ReaderStops

(***************************************************************************)
(* Time.  A connect, a read or a write ends no later than its deadline.    *)
(***************************************************************************)
BeforeDeadline == deadline = NoDeadline \/ clock < deadline

Waiting ==
    \/ pc = "connect" /\ clock < DialTimeout
    \/ pc = "open" /\ BeforeDeadline
    \/ pc = "do" /\ answer = "none" /\ rpc = "read" /\ BeforeDeadline
    \/ pc = "settings" /\ ~settingsSeen /\ rpc = "read" /\ BeforeDeadline

Tick ==
    /\ Waiting
    /\ clock' = clock + 1
    /\ UNCHANGED <<pc, deadline, connVars>>

DeadlinePassed ==
    /\ deadline # NoDeadline /\ clock >= deadline
    /\ ReadFailed

SocketClosed == sock = "closed" /\ ReadFailed

Done ==
    /\ pc \in {"failed", "returned"}
    /\ UNCHANGED dialVars

DialNext ==
    \/ Connected \/ ConnectFailed \/ DialStep
    \/ ReadSettings \/ ReaderStep \/ ReadFailed
    \/ \E result \in {"ok", "status", "err"} : ReadAnswer(result)
    \/ \E kept \in BOOLEAN : ReadGoAway(kept)
    \/ Tick \/ Done

DialSpec == DialInit /\ [][DialNext]_dialVars

(***************************************************************************)
(* Fairness: time passes, connect and writes return by their deadline,     *)
(* goroutines run, and a read ends once its deadline has passed or its     *)
(* socket is closed.  Nothing is asked of the server.                      *)
(***************************************************************************)
DialLiveSpec ==
    /\ DialSpec
    /\ WF_dialVars(Tick) /\ WF_dialVars(Connected \/ ConnectFailed)
    /\ WF_dialVars(DialStep) /\ WF_dialVars(ReaderStep)
    /\ WF_dialVars(DeadlinePassed) /\ WF_dialVars(SocketClosed)

---------------------------------------------------------------------------
\* A connection that dial returns has had a request answered with a 200 and has the
\* server's SETTINGS, so it knows how many streams it may open: the channel that a
\* failing reader closes too never stands for SETTINGS that did not come.
ServedAndSet == pc = "returned" => answer = "ok" /\ gotSettings

\* A dial that fails leaves no socket open and no reader running.
NothingLeftOpen == pc = "failed" => sock # "open" /\ rpc \in {"none", "done"}

\* dial ends within a timeout for TCP and another for all the rest.
WithinTwoTimeouts == clock <= 2 * DialTimeout

\* dial returns whatever the server does, also one that answers without SETTINGS or
\* says nothing at all.
DialReturns == <>(pc \in {"failed", "returned"})
=============================================================================

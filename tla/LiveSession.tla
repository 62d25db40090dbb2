----------------------------- MODULE LiveSession -----------------------------
(***************************************************************************)
(* Live mode of the impeccable design skill kept in this repository: a     *)
(* helper server between a browser page, in which the user asks for        *)
(* variants of an element and accepts or discards them, and a chat agent,  *)
(* which polls for those events, edits the source and replies.             *)
(*                                                                         *)
(* The server keeps the queue of events in memory and hands each out under *)
(* a lease; what must survive it is in an append-only journal per session. *)
(* Replies name a session, not an event, and the journal knows one pending *)
(* event per session: what becomes of an event posted while an earlier one *)
(* of its session is not answered yet is the subject of this module.       *)
(***************************************************************************)
EXTENDS Integers, Sequences, SequencesExt, FiniteSets, Functions

CONSTANTS
  Sessions,    \* variant sessions the page starts
  None,        \* no session: the session of an exit event, of an idle agent
  MaxTabs,     \* bound: pages connected at a time
  MaxIncidents   \* bound: kinds of incidents that happen, each once

ASSUME SessionsAssumption == IsFiniteSet(Sessions)
ASSUME NoneAssumption == None \notin Sessions
ASSUME TabsAssumption == MaxTabs \in Nat
ASSUME IncidentsAssumption == MaxIncidents \in Nat

VARIABLES
  up,          \* the helper server runs
  queue,       \* state.pendingEvents: [session, type, leased]
  tabs,        \* size of state.sseClients
  exitTimer,   \* state.exitTimer is set
  phase,       \* the journal's fold: "active" stands for every phase that is
               \* neither new nor one of COMPLETED_PHASES
  pending,     \* the journal's fold: type of pendingEvent
  agent,       \* where the chat agent stands
  held,        \* the session and type of the event it got
  answer,      \* the reply it is about to post
  page,        \* page[s]: state of the browser while s is its session
  source,      \* source[s]: what session s has left in the source file
  owed,        \* history: events accepted by the server that no reply was about
  asked,       \* history: the exit button was used since a page connected
  crossed,     \* history: sessions in which an event met an earlier one
  incidents    \* history: the kinds that happened

journal == <<phase, pending>>
server == <<up, queue, tabs, exitTimer>>
worker == <<agent, held, answer>>
history == <<owed, asked, crossed, incidents>>

vars == <<server, journal, worker, page, source, history>>

Types == {"generate", "accept", "discard"}
Idle == [session |-> None, type |-> "none"]
Terminal(s) == phase[s] \in {"completed", "discarded"}     \* COMPLETED_PHASES
Current(s) == page[s] \in {"capturing", "generating", "cycling", "saving"}
Connected == up /\ tabs > 0

Init ==
  /\ up = TRUE
  /\ queue = <<>>
  /\ tabs = 0
  /\ exitTimer = FALSE
  /\ phase = [s \in Sessions |-> "new"]
  /\ pending = [s \in Sessions |-> "none"]
  /\ agent = "idle"
  /\ held = Idle
  /\ answer = "none"
  /\ page = [s \in Sessions |-> "none"]
  /\ source = [s \in Sessions |-> "plain"]
  /\ owed = {}
  /\ asked = FALSE
  /\ crossed = {}
  /\ incidents = {}

Incident(kind) ==
  /\ kind \notin incidents
  /\ Cardinality(incidents) < MaxIncidents
  /\ incidents' = incidents \union {kind}

-----------------------------------------------------------------------------
(* The queue.                                                              *)

Entry(s, t) == [session |-> s, type |-> t, leased |-> FALSE]
\* Only the entries of exit events have no session.
Entries == [session : Sessions, type : Types, leased : BOOLEAN] \union {Entry(None, "exit")}
Queued(s, t) == \E i \in DOMAIN queue : queue[i].session = s /\ queue[i].type = t
Free(q) == {i \in DOMAIN q : ~q[i].leased}
First(S) == CHOOSE i \in S : \A j \in S : i <= j

\* enqueueEvent: an event with an id is queued once per type.
Pushed(s, t) ==
  IF s # None /\ Queued(s, t) THEN queue ELSE Append(queue, Entry(s, t))

LeasedGone(q, i) == RemoveAt(q, i)   \* mutant

\* leaseEvent: an event without an id is gone once handed out.
Leased(q, i) ==
  IF q[i].session = None THEN RemoveAt(q, i) ELSE [q EXCEPT ![i].leased = TRUE]

\* The agent gets the first free event of q.
Deliver(q) ==
  LET i == First(Free(q)) IN
  /\ queue' = Leased(q, i)
  /\ IF q[i].type = "exit"
       THEN agent' = "ended" /\ held' = Idle
       ELSE agent' = "working" /\ held' = [session |-> q[i].session, type |-> q[i].type]
  /\ UNCHANGED answer

\* flushPendingPolls: a parked poll is answered as soon as an event is free.
Flush(q) ==
  IF agent = "parked" /\ Free(q) # {}
    THEN Deliver(q)
    ELSE queue' = q /\ UNCHANGED worker

\* acknowledgePendingEvent: the first entry of the session, whatever its type.
OfSession(s) == {i \in DOMAIN queue : queue[i].session = s}
AckedNever(s) == queue   \* mutant
Acked(s) == IF OfSession(s) = {} THEN queue ELSE RemoveAt(queue, First(OfSession(s)))

LeaseExpiresSilently ==   \* mutant
  \E i \in DOMAIN queue :
    /\ queue[i].leased
    /\ queue' = [queue EXCEPT ![i].leased = FALSE]
    /\ UNCHANGED <<up, tabs, exitTimer, journal, worker, page, source, history>>

\* A lease runs out after ten minutes; a timer wakes a parked poll for it.
LeaseExpires ==
  \E i \in DOMAIN queue :
    /\ queue[i].leased
    /\ Flush([queue EXCEPT ![i].leased = FALSE])
    /\ UNCHANGED <<up, tabs, exitTimer, journal, page, source, history>>

-----------------------------------------------------------------------------
(* The page.  After a restart of the server a page must be loaded anew to  *)
(* know the new token.                                                     *)

Overtakes(s) == held.session = s \/ OfSession(s) # {}

\* POST /events: journal, then queue.
Post(s, t) ==
  /\ up
  /\ phase' = [phase EXCEPT ![s] = "active"]
  /\ pending' = [pending EXCEPT ![s] = t]
  /\ Flush(Pushed(s, t))
  /\ owed' = owed \union {<<s, t>>}
  /\ crossed' = IF Overtakes(s) THEN crossed \union {s} ELSE crossed
  /\ UNCHANGED <<up, tabs, exitTimer, source, asked, incidents>>

\* The page takes a picture of the element before it sends the event, ...
Go(s) ==
  /\ Connected
  /\ page[s] = "none"
  /\ \A r \in Sessions : ~Current(r)
  /\ page' = [page EXCEPT ![s] = "capturing"]
  /\ UNCHANGED <<server, journal, worker, source, history>>

\* ... and sends it whatever the user has done meanwhile.
Emit(s) ==
  /\ page[s] = "capturing"
  /\ \E state \in {"generating", "dropped"} : page' = [page EXCEPT ![s] = state]
  /\ Post(s, "generate")

\* The page is loaded anew before that: no event.
Lost(s) ==
  /\ page[s] = "capturing"
  /\ page' = [page EXCEPT ![s] = "dropped"]
  /\ UNCHANGED <<server, journal, worker, source, history>>

\* Hot reload shows the variants in the page, often before the agent's reply.
VariantsArrive(s) ==
  /\ page[s] = "generating"
  /\ source[s] = "variants"
  /\ page' = [page EXCEPT ![s] = "cycling"]
  /\ UNCHANGED <<server, journal, worker, source, history>>

Accept(s) ==
  /\ Connected
  /\ page[s] = "cycling"
  /\ page' = [page EXCEPT ![s] = "saving"]
  /\ Post(s, "accept")

Discard(s) ==
  /\ Connected
  /\ page[s] = "cycling"
  /\ page' = [page EXCEPT ![s] = "handled"]
  /\ Post(s, "discard")

\* A checkpoint is journalled and not queued: the first precedes the generate.
CheckpointAlways(s) ==   \* mutant
  /\ Connected /\ Current(s)
  /\ phase' = [phase EXCEPT ![s] = "active"]
  /\ UNCHANGED <<server, pending, worker, page, source, history>>
Checkpoint(s) ==
  /\ Connected /\ Current(s)
  /\ phase' = IF Terminal(s) THEN phase ELSE [phase EXCEPT ![s] = "active"]
  /\ UNCHANGED <<server, pending, worker, page, source, history>>

\* A page loaded anew finds the variants of a session it has not handled.
Reload(s) ==
  /\ page[s] \in {"saving", "dropped"}
  /\ source[s] = "variants"
  /\ \A r \in Sessions \ {s} : ~Current(r)
  /\ page' = [page EXCEPT ![s] = "cycling"]
  /\ UNCHANGED <<server, journal, worker, source, history>>

-----------------------------------------------------------------------------
(* Connections of pages and the exit timer.                                *)

\* cancelQueuedAnonymousExitEvents: the other entries, in their order.
NthOf(S, n) == CHOOSE i \in S : Cardinality({j \in S : j < i}) = n - 1
NoExits(q) ==
  LET kept == {i \in DOMAIN q : q[i].type # "exit"} IN
  [n \in 1..Cardinality(kept) |-> q[NthOf(kept, n)]]

ConnectKeepsExits ==   \* mutant
  /\ up /\ tabs < MaxTabs
  /\ tabs' = tabs + 1
  /\ exitTimer' = FALSE
  /\ asked' = FALSE
  /\ UNCHANGED <<up, queue, journal, worker, page, source, owed, crossed, incidents>>
Connect ==
  /\ up /\ tabs < MaxTabs
  /\ tabs' = tabs + 1
  /\ exitTimer' = FALSE
  /\ queue' = NoExits(queue)
  /\ asked' = FALSE
  /\ UNCHANGED <<up, journal, worker, page, source, owed, crossed, incidents>>

Disconnect ==
  /\ tabs > 0
  /\ tabs' = tabs - 1
  /\ exitTimer' = IF tabs = 1 THEN TRUE ELSE exitTimer
  /\ UNCHANGED <<up, queue, journal, worker, page, source, history>>

\* Eight seconds without a page.
ExitTimerFires ==
  /\ exitTimer
  /\ exitTimer' = FALSE
  /\ IF tabs = 0 THEN Flush(Pushed(None, "exit")) ELSE UNCHANGED <<queue, worker>>
  /\ UNCHANGED <<up, tabs, journal, page, source, history>>

\* The exit button: the page posts an event without an id and tears itself
\* down; its connection closes a little later.
Exit ==
  /\ Connected
  /\ Incident("exit")
  /\ Flush(Pushed(None, "exit"))
  /\ \/ page' = [s \in Sessions |->
                 IF Current(s) /\ page[s] # "capturing" THEN "dropped" ELSE page[s]]
     \/ UNCHANGED page     \* the button of another tab
  /\ asked' = TRUE
  /\ UNCHANGED <<up, tabs, exitTimer, journal, source, owed, crossed>>

-----------------------------------------------------------------------------
(* The agent.                                                              *)

Poll ==
  /\ agent = "idle"
  /\ up
  /\ IF Free(queue) # {} THEN Deliver(queue)
                         ELSE agent' = "parked" /\ UNCHANGED <<queue, held, answer>>
  /\ UNCHANGED <<up, tabs, exitTimer, journal, page, source, history>>

Ready(reply) ==
  /\ agent' = "answering"
  /\ answer' = reply
  /\ UNCHANGED <<server, journal, held, page, history>>

\* The agent writes all variants in one edit, or gives up.
Generate ==
  LET s == held.session IN
  /\ agent = "working" /\ held.type = "generate"
  /\ \/ source' = [source EXCEPT ![s] = "variants"] /\ Ready("done")
     \/ UNCHANGED source /\ Ready("error")

\* live-accept.mjs, run by the poll script, and completionTypeForAcceptResult.
RunAccept ==
  LET s == held.session IN
  /\ agent = "working" /\ held.type = "accept"
  /\ IF source[s] = "variants"
       THEN \/ source' = [source EXCEPT ![s] = "accepted"] /\ Ready("complete")
            \/ source' = [source EXCEPT ![s] = "carbonize"] /\ Ready("agent_done")
       ELSE UNCHANGED source /\ Ready("agent_done")

RunDiscard ==
  LET s == held.session IN
  /\ agent = "working" /\ held.type = "discard"
  /\ IF source[s] = "variants"
       THEN source' = [source EXCEPT ![s] = "plain"] /\ Ready("discarded")
       ELSE UNCHANGED source /\ Ready("error")

\* live-accept.mjs fails or takes more than thirty seconds.
ScriptFails ==
  /\ agent = "working" /\ held.type \in {"accept", "discard"}
  /\ Incident("script")
  /\ agent' = "answering"
  /\ answer' = "error"
  /\ UNCHANGED <<server, journal, held, page, source, owed, asked, crossed>>

PhaseAfterName(reply) == reply   \* mutant

PhaseAfterDone(reply) ==   \* mutant
  CASE reply \in {"complete", "agent_done"} -> "completed"
    [] reply = "discarded" -> "discarded"
    [] OTHER -> "active"

\* What the reply adds to the journal.
PhaseAfter(reply) ==
  CASE reply = "complete" -> "completed"
    [] reply = "discarded" -> "discarded"
    [] OTHER -> "active"

\* What the page makes of the reply that the server broadcasts.
PageAfter(s, reply) ==
  IF tabs = 0 THEN page
  ELSE [r \in Sessions |->
    CASE r = s /\ reply = "done" /\ page[s] = "generating" /\ source[s] = "variants" -> "cycling"
      [] r = s /\ reply = "complete" /\ page[s] = "saving" -> "handled"
      [] r = s /\ reply = "discarded" /\ Current(s) -> "handled"
      [] r = s /\ reply = "error" /\ page[s] = "saving" -> "cycling"
      [] reply = "error" /\ page[s] # "saving" /\ page[r] \in {"generating", "cycling", "saving"} -> "dropped"
      [] OTHER -> page[r]]

\* After a carbonize accept the agent cleans up and completes explicitly.
Afterwards(s, reply) ==
  IF reply = "agent_done" /\ source[s] = "carbonize"
    THEN agent' = "cleaning" /\ UNCHANGED held
    ELSE agent' = "idle" /\ held' = Idle

\* POST /poll with a reply: acknowledge, journal, broadcast.
Reply ==
  LET s == held.session IN
  /\ agent = "answering"
  /\ up
  /\ queue' = Acked(s)
  /\ \/ /\ ~(OfSession(s) = {} /\ Terminal(s))
        /\ phase' = [phase EXCEPT ![s] = PhaseAfter(answer)]
        /\ pending' = [pending EXCEPT ![s] = "none"]
        /\ UNCHANGED incidents
     \/ /\ OfSession(s) = {} /\ Terminal(s)
        /\ UNCHANGED <<journal, incidents>>
     \/ Incident("append") /\ UNCHANGED journal
  /\ page' = PageAfter(s, answer)
  /\ owed' = owed \ {<<s, held.type>>}
  /\ Afterwards(s, answer)
  /\ answer' = "none"
  /\ UNCHANGED <<up, tabs, exitTimer, source, asked, crossed>>

CleanUp ==
  /\ agent = "cleaning"
  /\ source' = [source EXCEPT ![held.session] = "accepted"]
  /\ Ready("complete")

\* live-complete.mjs writes the journal itself when the server is down.
CompleteDirectly ==
  LET s == held.session IN
  /\ agent = "answering" /\ ~up
  /\ answer \in {"complete", "discarded"}
  /\ phase' = [phase EXCEPT ![s] = PhaseAfter(answer)]
  /\ pending' = [pending EXCEPT ![s] = "none"]
  /\ owed' = owed \ {<<s, held.type>>}
  /\ agent' = "idle" /\ held' = Idle /\ answer' = "none"
  /\ UNCHANGED <<server, page, source, asked, crossed, incidents>>

\* The chat is interrupted; what the agent has done to the source stays.
Interrupt ==
  /\ agent \in {"parked", "working", "answering", "cleaning"}
  /\ Incident("interrupt")
  /\ agent' = "idle" /\ held' = Idle /\ answer' = "none"
  /\ UNCHANGED <<server, journal, page, source, owed, asked, crossed>>

-----------------------------------------------------------------------------
(* The server dies, or is stopped by the agent's clean-up after exit, and  *)
(* is started again: the queue is restored from the journal.               *)

\* A page that is still taking its picture will be refused.
Down ==
  /\ up
  /\ up' = FALSE
  /\ queue' = <<>>
  /\ tabs' = 0
  /\ exitTimer' = FALSE
  /\ page' = [s \in Sessions |-> IF page[s] = "capturing" THEN "dropped" ELSE page[s]]

Crash ==
  /\ Down
  /\ Incident("crash")
  /\ agent' = IF agent = "parked" THEN "idle" ELSE agent
  /\ UNCHANGED <<journal, held, answer, source, owed, asked, crossed>>

Clean(s) == CASE source[s] = "variants" -> "plain"
              [] source[s] = "carbonize" -> "accepted"
              [] OTHER -> source[s]

\* On an exit event, or asked to in the chat, the agent stops the server and
\* takes what sessions have left out of the source.
Stop ==
  /\ \/ agent = "ended" /\ UNCHANGED incidents
     \/ agent \in {"idle", "parked"} /\ Incident("stop")
  /\ Down
  /\ agent' = "ended"
  /\ \/ source' = [s \in Sessions |-> Clean(s)]
     \/ UNCHANGED source
  /\ UNCHANGED <<journal, held, answer, owed, asked, crossed>>

Restorable == {s \in Sessions : phase[s] = "active" /\ pending[s] # "none"}

Start ==
  /\ ~up
  /\ up' = TRUE
  /\ \E order \in Bijection(1..Cardinality(Restorable), Restorable) :
       queue' = [i \in DOMAIN order |-> Entry(order[i], pending[order[i]])]
  /\ agent' = IF agent = "ended" THEN "idle" ELSE agent
  /\ UNCHANGED <<tabs, exitTimer, journal, held, answer, page, source, history>>

-----------------------------------------------------------------------------
Work == Generate \/ RunAccept \/ RunDiscard \/ Reply \/ CleanUp

Page(s) ==
  Go(s) \/ Emit(s) \/ Lost(s) \/ VariantsArrive(s) \/ Accept(s) \/ Discard(s)
    \/ Checkpoint(s) \/ Reload(s)

Next ==
  \/ \E s \in Sessions : Page(s)
  \/ Connect \/ Disconnect \/ ExitTimerFires \/ Exit
  \/ Poll \/ Work \/ ScriptFails \/ CompleteDirectly \/ Interrupt
  \/ LeaseExpires \/ Crash \/ Stop \/ Start

Spec == Init /\ [][Next]_vars

\* The agent goes on with its work and polls again after each event; leases
\* run out after ten minutes.  Nothing makes the user act.
Fairness ==
  /\ WF_vars(Poll)
  /\ WF_vars(Work)
  /\ WF_vars(LeaseExpires)

FairSpec == Spec /\ Fairness

-----------------------------------------------------------------------------
(* Properties.                                                             *)

\* Where the server, the agent and the sessions may stand.
TypeOK ==
  /\ up \in BOOLEAN
  /\ queue \in Seq(Entries)
  /\ tabs \in 0..MaxTabs
  /\ exitTimer \in BOOLEAN
  /\ phase \in [Sessions -> {"new", "active", "completed", "discarded"}]
  /\ pending \in [Sessions -> Types \union {"none"}]
  /\ agent \in {"idle", "parked", "working", "answering", "cleaning", "ended"}
  /\ held \in [session : Sessions, type : Types] \union {Idle}
  /\ answer \in {"none", "done", "error", "complete", "agent_done", "discarded"}
  /\ page \in [Sessions -> {"none", "capturing", "generating", "cycling", "saving", "handled", "dropped"}]
  /\ source \in [Sessions -> {"plain", "variants", "accepted", "carbonize"}]
  /\ owed \subseteq Sessions \X Types
  /\ asked \in BOOLEAN
  /\ crossed \subseteq Sessions
  /\ incidents \subseteq {"crash", "interrupt", "append", "script", "exit", "stop"}

\* "The durable journal replays unacknowledged work after helper restart": an
\* event the page was told is taken stays in the queue, or while the server is
\* down in the journal, until the agent has replied to it.  The code keeps it
\* for a session whose events come one at a time.
NothingIsLost ==
  \A s \in Sessions \ crossed : \A t \in Types :
    <<s, t>> \in owed =>
      IF up THEN Queued(s, t) ELSE s \in Restorable /\ pending[s] = t

\* A restart gives back just what is queued: while no write is lost, each
\* session that was not crossed has its pending event in the queue, and no other.
JournalMatchesQueue ==
  up /\ "append" \notin incidents =>
    \A s \in Sessions \ crossed : \A t \in Types :
      Queued(s, t) <=> s \in Restorable /\ pending[s] = t

\* "Plain accepts/discards are terminal immediately": a session that reads
\* completed or discarded stays so until the page posts another event of it,
\* unless its events crossed and were acknowledged in the wrong order.
TerminalStays ==
  [][\A s \in Sessions \ crossed :
       Terminal(s) /\ owed' \subseteq owed => phase'[s] = phase[s]]_vars

\* A session that reads completed or discarded has left no wrapper and no
\* carbonize block in the source.
EndedIsClean ==
  \A s \in Sessions : Terminal(s) => source[s] \notin {"variants", "carbonize"}

\* A page that is connected is not left without an agent: an exit event waits
\* only while no page is connected, or since the user pressed the exit button.
ExitOnlyAlone == (\E i \in DOMAIN queue : queue[i].type = "exit") => tabs = 0 \/ asked

\* Every queued event is answered, redelivered as often as it takes, until none
\* of its session is left, unless the agent is sent away first.
EveryEventIsAnswered ==
  \A s \in Sessions : []<>(OfSession(s) = {} \/ agent = "ended")

=============================================================================

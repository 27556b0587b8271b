---------------------------- MODULE RunDashboard ----------------------------
(***************************************************************************)
(* The live run dashboard: TelemetryService and the WebSocket handler of   *)
(* the API, the hook useRunTelemetry and the safety timer of the Studio    *)
(* page.  One page, the runs of one scenario one after the other.          *)
(*                                                                         *)
(* The page hears of a run over a WebSocket, whose queue is bounded, over  *)
(* REST polls, whose answers may come late, and over a check against the   *)
(* list of active runs.  Any connection may break at any time and the API  *)
(* may restart, which loses the telemetry of its runs.  Of a state of a run *)
(* only whether it is over and its milestones are kept.                    *)
(***************************************************************************)
EXTENDS Naturals, Sequences, FiniteSets, SequencesExt

CONSTANTS
  MaxRuns,        \* bound on the runs of the scenario
  MaxSequence,    \* for each run, bound on its milestones
  MilestoneCap,   \* MILESTONE_CAP: the milestones the API keeps of a run
  QueueSize,      \* asyncio.Queue(maxsize=100)
  MaxReconnects,  \* MAX_RECONNECT_ATTEMPTS
  MaxPolls,       \* bound on the polls in flight
  MaxRestarts     \* bound on the restarts of the API

ASSUME DashboardAssumption ==
  /\ MaxRuns \in Nat \ {0} /\ MaxSequence \in [1..MaxRuns -> Nat \ {0, 1}]
  /\ MilestoneCap \in Nat \ {0}
  /\ QueueSize \in Nat \ {0} /\ MaxReconnects \in Nat
  /\ MaxPolls \in Nat \ {0} /\ MaxRestarts \in Nat

Runs == 1..MaxRuns

VARIABLES
  \* the API
  latest,      \* the latest run of the scenario, 0 at first
  ended,       \* the runs the API no longer executes
  settled,     \* those whose end scenario.json records
  held,        \* the run in TelemetryService._runs, or 0
  sequence,    \* the number of its last milestone
  closing,     \* how often set_terminal will be called for it again
  queue,       \* the queue of the page's subscription
  lossy,       \* since it began a message was dropped, or the page went back
  restarts,
  \* the page
  watched,     \* activeRunId, or 0
  display,     \* the snapshot shown
  link,        \* the connection state
  terminal,    \* terminalRef
  socket,
  retries,
  timers,
  polls,       \* the polls in flight, with what they will answer
  quiet,       \* the display has not changed for a minute
  checks       \* the checks of the safety timer in flight

api    == <<latest, ended, settled, held, sequence, closing, restarts>>
wire   == <<queue, lossy>>
link3  == <<link, terminal, socket, retries, timers>>
safety == <<quiet, checks>>
vars   == <<api, wire, watched, display, link3, polls, safety>>

NoDisplay == [run |-> 0]
Shows(run, over, feed) == [run |-> run, over |-> over, feed |-> feed]

Init ==
  /\ latest = 0 /\ ended = {} /\ settled = {} /\ held = 0 /\ sequence = 0
  /\ closing = 0
  /\ queue = <<>> /\ lossy = FALSE /\ restarts = 0
  /\ watched = 0 /\ display = NoDisplay
  /\ link = "idle" /\ terminal = FALSE /\ socket = "none" /\ retries = 0
  /\ timers = {} /\ polls = {}
  /\ quiet = FALSE /\ checks = {}

\* The milestones shown of the run watched.
Shown ==
  IF display # NoDisplay /\ display.run = watched THEN display.feed ELSE {}

----------------------------------------------------------------------------
(* The API *)

Running == held # 0 /\ held \notin ended

\* state.milestones: the newest ones.
Kept == {s \in 1..sequence : s + MilestoneCap > sequence}

\* to_snapshot.
Snapshot == Shows(held, held \in ended, Kept)

SnapshotMessage     == [type |-> "snapshot", data |-> Snapshot]
UpdateMessage(over) == [type |-> "update", over |-> over]
MilestoneMessage(s) == [type |-> "milestone", sequence |-> s]

Subscribed == socket = "open" /\ held = watched

\* Faulty: a queue without a bound.
SendUnbounded(messages) ==
  IF Subscribed
  THEN queue' = queue \o messages /\ UNCHANGED lossy
  ELSE UNCHANGED wire

\* _send_to_listeners: what does not fit is dropped.
Send(messages) ==
  IF Subscribed
  THEN /\ queue' = SubSeq(queue \o messages, 1,
                          IF Len(queue) + Len(messages) < QueueSize
                          THEN Len(queue) + Len(messages) ELSE QueueSize)
       /\ lossy' = (lossy \/ Len(queue) + Len(messages) > QueueSize)
  ELSE UNCHANGED wire

\* apply_update, when the throttle lets it through.
Update ==
  /\ Running
  /\ Send(<<UpdateMessage(FALSE)>>)
  /\ UNCHANGED <<api, watched, display, link3, polls, safety>>

\* apply_structured_record and add_log_milestone; the end of a year also
\* sends an update.
Milestone ==
  /\ Running
  /\ sequence < MaxSequence[held] - 1
  /\ sequence' = sequence + 1
  /\ \/ Send(<<MilestoneMessage(sequence + 1)>>)
     \/ Send(<<MilestoneMessage(sequence + 1), UpdateMessage(FALSE)>>)
  /\ UNCHANGED <<latest, ended, settled, held, closing, restarts, watched,
                 display, link3, polls, safety>>

\* set_terminal.  For a run that is cancelled the cancel and the failure handler
\* of the run both call it.
SetTerminal ==
  /\ Running
  /\ ended' = ended \cup {held}
  /\ settled' = settled \cup {held}
  /\ closing' \in {0, 1}
  /\ sequence' = sequence + 1
  /\ Send(<<MilestoneMessage(sequence + 1), UpdateMessage(TRUE)>>)
  /\ UNCHANGED <<latest, held, restarts, watched, display, link3, polls,
                 safety>>

\* The second call; there is none for a run whose telemetry is gone.
SetTerminalAgain ==
  /\ held # 0 /\ closing > 0
  /\ sequence < MaxSequence[held]
  /\ closing' = closing - 1
  /\ sequence' = sequence + 1
  /\ Send(<<MilestoneMessage(sequence + 1), UpdateMessage(TRUE)>>)
  /\ UNCHANGED <<latest, ended, settled, held, restarts, watched, display,
                 link3, polls, safety>>

\* The API restarts: its telemetry and its registry of runs are gone, and the
\* scenario keeps the status it had.
Restart ==
  /\ restarts < MaxRestarts
  /\ restarts' = restarts + 1
  /\ ended' = 1..latest
  /\ held' = 0
  /\ sequence' = 0 /\ closing' = 0
  /\ UNCHANGED <<latest, settled, wire, watched, display, link3, polls, safety>>

----------------------------------------------------------------------------
(* The page: polling *)

\* get_run_telemetry.  Without telemetry the answer is the persisted status.
Answer ==
  IF held # 0 THEN [telemetry |-> Snapshot, over |-> held \in ended]
              ELSE [telemetry |-> NoDisplay, over |-> latest \in settled]

Poll(chained) == [chained |-> chained, answer |-> Answer]

\* pollOnce.  Beyond the bound it fails at once.
PollOnce ==
  polls' = IF Cardinality(polls) < MaxPolls THEN polls \cup {Poll(FALSE)}
                                            ELSE polls

\* Faulty: the socket is closed but the timers keep running.
EnterTerminalTicking(over) ==
  IF over /\ ~terminal
  THEN /\ terminal' = TRUE
       /\ link' = "terminal"
       /\ socket' = "none"
       /\ UNCHANGED <<retries, timers>>
  ELSE UNCHANGED link3

\* enterTerminal, when over: the timers whose handle is known are cleared.
EnterTerminal(over) ==
  IF over /\ ~terminal
  THEN /\ terminal' = TRUE
       /\ link' = "terminal"
       /\ socket' = "none"
       /\ timers' = timers \ {"reconnect", "poll", "upgrade"}
       /\ UNCHANGED retries
  ELSE UNCHANGED link3

\* schedulePoll.  A second chain takes the place of the handle of the first.
Rearmed ==
  IF "poll" \in timers THEN timers \cup {"orphan"} ELSE timers \cup {"poll"}

\* The answer of a poll arrives, however late: only its sending looked at
\* terminalRef.
PollArrives ==
  \E p \in polls :
    /\ polls' = polls \ {p}
    /\ \/ /\ p.answer.telemetry # NoDisplay
          /\ display' = p.answer.telemetry
          /\ lossy' = (lossy \/ display'.run # watched
                            \/ \E s \in Shown : \A t \in display'.feed : t < s)
          /\ quiet' = FALSE
       \/ /\ p.answer.telemetry = NoDisplay
          /\ p.answer.over
          /\ display' = IF display = NoDisplay THEN NoDisplay
                        ELSE [display EXCEPT !.over = TRUE]
          /\ quiet' = (quiet /\ display = NoDisplay)
          /\ UNCHANGED lossy
       \/ /\ p.answer.telemetry = NoDisplay
          /\ ~p.answer.over
          /\ UNCHANGED <<display, lossy, quiet>>
    /\ IF p.answer.over
       THEN EnterTerminal(TRUE)
       ELSE /\ timers' = IF p.chained /\ ~terminal /\ link = "polling"
                         THEN Rearmed ELSE timers
            /\ UNCHANGED <<link, terminal, socket, retries>>
    /\ queue' = IF terminal' /\ ~terminal THEN <<>> ELSE queue
    /\ UNCHANGED <<api, watched, checks>>

PollFails ==
  \E p \in polls :
    /\ polls' = polls \ {p}
    /\ timers' = IF p.chained /\ ~terminal /\ link = "polling"
                 THEN Rearmed ELSE timers
    /\ UNCHANGED <<api, wire, watched, display, link, terminal, socket, retries,
                   safety>>

PollFires ==
  \E timer \in {"poll", "orphan"} \cap timers :
    /\ \/ terminal /\ UNCHANGED polls
       \/ /\ ~terminal /\ Cardinality(polls) < MaxPolls
          /\ polls' = polls \cup {Poll(TRUE)}
    /\ timers' = timers \ {timer}
    /\ UNCHANGED <<api, wire, watched, display, link, terminal, socket, retries,
                   safety>>

----------------------------------------------------------------------------
(* The page: the WebSocket *)

\* connect.
Connect ==
  /\ socket' = "connecting"
  /\ link' = IF link = "polling" THEN "polling"
             ELSE IF retries > 0 THEN "reconnecting" ELSE "connecting"

\* Faulty: a subscription without the replay of a snapshot.
OpenUnreplayed ==
  /\ socket = "connecting"
  /\ socket' = "open"
  /\ queue' = <<>>
  /\ lossy' = FALSE
  /\ retries' = 0
  /\ timers' = timers \ {"poll", "upgrade"}
  /\ link' = "live"
  /\ UNCHANGED <<api, watched, display, terminal, polls, safety>>

\* The handshake succeeds: subscribe replays a snapshot of a run it knows.
Open ==
  /\ socket = "connecting"
  /\ socket' = "open"
  /\ queue' = IF held = watched THEN <<SnapshotMessage>> ELSE <<>>
  /\ lossy' = FALSE
  /\ retries' = 0
  /\ timers' = timers \ {"poll", "upgrade"}
  /\ link' = "live"
  /\ UNCHANGED <<api, watched, display, terminal, polls, safety>>

\* Faulty: no polling once the attempts are used up.
BreakGivesUp ==
  /\ socket # "none"
  /\ socket' = "none"
  /\ queue' = <<>>
  /\ \/ /\ link = "polling" \/ retries >= MaxReconnects
        /\ UNCHANGED <<link, retries, timers>>
     \/ /\ link # "polling"
        /\ retries < MaxReconnects
        /\ retries' = retries + 1
        /\ link' = "reconnecting"
        /\ timers' = timers \cup {"reconnect"}
  /\ UNCHANGED <<api, lossy, watched, display, terminal, polls, safety>>

\* onclose: scheduleReconnect, and enterPolling once the attempts are used up.
Break ==
  /\ socket # "none"
  /\ socket' = "none"
  /\ queue' = <<>>
  /\ \/ /\ link = "polling"
        /\ UNCHANGED <<link, retries, timers, polls>>
     \/ /\ link # "polling"
        /\ retries < MaxReconnects
        /\ retries' = retries + 1
        /\ link' = "reconnecting"
        /\ timers' = timers \cup {"reconnect"}
        /\ UNCHANGED polls
     \/ /\ link # "polling"
        /\ retries >= MaxReconnects
        /\ link' = "polling"
        /\ timers' = Rearmed \cup {"upgrade"}
        /\ PollOnce
        /\ UNCHANGED retries
  /\ UNCHANGED <<api, lossy, watched, display, terminal, safety>>

ReconnectFires ==
  /\ "reconnect" \in timers
  /\ timers' = timers \ {"reconnect"}
  /\ Connect
  /\ UNCHANGED <<api, wire, watched, display, terminal, retries, polls, safety>>

\* Every 30 seconds while polling, the socket is tried again.
UpgradeFires ==
  /\ "upgrade" \in timers
  /\ link = "polling"
  /\ socket' = "connecting"
  /\ retries' = 0
  /\ UNCHANGED <<api, wire, watched, display, link, terminal, timers, polls,
                 safety>>

\* handleMessage.
Handle(m) ==
  \/ /\ m.type = "snapshot"
     /\ display' = m.data
     /\ quiet' = FALSE
     /\ EnterTerminal(m.data.over)
  \/ /\ m.type = "update"
     /\ display' = IF display = NoDisplay THEN Shows(watched, m.over, {})
                   ELSE [display EXCEPT !.run = watched, !.over = m.over]
     /\ quiet' = FALSE
     /\ EnterTerminal(m.over)
  \/ /\ m.type = "milestone"
     /\ display' = IF display # NoDisplay
                      /\ \A s \in display.feed : s < m.sequence
                   THEN [display EXCEPT !.feed = @ \cup {m.sequence}]
                   ELSE display
     /\ quiet' = (quiet /\ display = NoDisplay)
     /\ UNCHANGED link3

\* The handler takes the next message and sends it.
Deliver ==
  /\ socket = "open"
  /\ queue # <<>>
  /\ Handle(Head(queue))
  /\ queue' = IF terminal' /\ ~terminal THEN <<>> ELSE Tail(queue)
  /\ UNCHANGED <<api, lossy, watched, polls, checks>>

----------------------------------------------------------------------------
(* The page: which run it watches *)

\* The effect of a new activeRunId.
Follow(run) ==
  /\ watched' = run
  /\ display' = NoDisplay
  /\ terminal' = FALSE
  /\ retries' = 0
  /\ timers' = timers \cap {"orphan"}
  /\ socket' = "connecting"
  /\ link' = "connecting"
  /\ queue' = <<>>
  /\ quiet' = FALSE

\* clearSimulationRunning, and the effect of its null.
LetGo ==
  /\ watched' = 0
  /\ display' = NoDisplay
  /\ timers' = timers \cap {"orphan"}
  /\ socket' = "none"
  /\ link' = "idle"
  /\ queue' = <<>>
  /\ quiet' = FALSE
  /\ UNCHANGED <<terminal, retries>>

\* The user starts a run, from this page or from elsewhere; start_run discards
\* the telemetry of the runs before it.
StartRun ==
  /\ latest < MaxRuns
  /\ latest \in ended \cup {0}
  /\ latest' = latest + 1
  /\ held' = latest + 1
  /\ sequence' = 1 /\ closing' = 0
  /\ \/ /\ watched = 0
        /\ Follow(latest + 1)
        /\ polls' = IF Cardinality(polls) < MaxPolls
                    THEN polls \cup
                         {[chained |-> FALSE,
                           answer |-> [telemetry |-> Shows(latest + 1, FALSE, {1}),
                                       over |-> FALSE]]}
                    ELSE polls
     \/ UNCHANGED <<queue, watched, display, link3, polls, quiet>>
  /\ UNCHANGED <<ended, settled, restarts, lossy, checks>>

\* The page is loaded again and asks for the active runs.
Reload ==
  /\ \/ /\ Running
        /\ watched' = latest /\ socket' = "connecting" /\ link' = "connecting"
        /\ polls' = {Poll(FALSE)}
     \/ /\ ~Running
        /\ watched' = 0 /\ socket' = "none" /\ link' = "idle"
        /\ polls' = {}
  /\ display' = NoDisplay /\ terminal' = FALSE /\ retries' = 0 /\ timers' = {}
  /\ queue' = <<>>
  /\ quiet' = FALSE /\ checks' = {}
  /\ UNCHANGED <<api, lossy>>

\* Two seconds after a run is shown as over, the page lets go of it.
Release ==
  /\ watched # 0
  /\ display # NoDisplay /\ display.over
  /\ LetGo
  /\ UNCHANGED <<api, lossy, polls, checks>>

\* Faulty: the heartbeats of an open socket count as snapshots.
ElapseDisconnected ==
  /\ watched # 0
  /\ ~quiet
  /\ socket # "open"
  /\ ~ (link = "polling" /\ held # 0)
  /\ quiet' = TRUE
  /\ UNCHANGED <<api, wire, watched, display, link3, polls, checks>>

\* A minute without a new snapshot, while no message waits and no poll finds
\* the telemetry of a run.
Elapse ==
  /\ watched # 0
  /\ ~quiet
  /\ queue = <<>>
  /\ ~ (link = "polling" /\ held # 0)
  /\ quiet' = TRUE
  /\ UNCHANGED <<api, wire, watched, display, link3, polls, checks>>

\* The safety timer asks whether the run it was set for is still active.
Check ==
  /\ watched # 0
  /\ quiet
  /\ \A c \in checks : c.run # watched
  /\ checks' = checks \cup {[run |-> watched, active |-> watched \notin ended]}
  /\ UNCHANGED <<api, wire, watched, display, link3, polls, quiet>>

CheckArrives ==
  \E c \in checks :
    /\ checks' = checks \ {c}
    /\ \/ c.active /\ UNCHANGED <<queue, watched, display, link3, quiet>>
       \/ ~c.active /\ LetGo
    /\ UNCHANGED <<api, lossy, polls>>

CheckFails ==
  \E c \in checks :
    /\ checks' = checks \ {c}
    /\ UNCHANGED <<api, wire, watched, display, link3, polls, quiet>>

----------------------------------------------------------------------------
Next ==
  \/ Update \/ Milestone \/ SetTerminal \/ SetTerminalAgain \/ Restart
  \/ PollArrives \/ PollFails \/ PollFires
  \/ Open \/ Break \/ ReconnectFires \/ UpgradeFires \/ Deliver
  \/ StartRun \/ Reload \/ Release \/ Elapse \/ Check \/ CheckArrives
  \/ CheckFails

Spec == Init /\ [][Next]_vars

\* Timers fire, requests are answered unless they fail for ever, messages on an
\* open socket are sent.  Nobody has to start or end a run.
Fairness ==
  /\ WF_vars(Deliver) /\ WF_vars(PollFires) /\ SF_vars(PollArrives)
  /\ WF_vars(ReconnectFires) /\ WF_vars(Release)
  /\ SF_vars(Elapse) /\ WF_vars(Check) /\ SF_vars(CheckArrives)

FairSpec == Spec /\ Fairness

----------------------------------------------------------------------------
(* Properties *)

Displays ==
  {NoDisplay} \cup [run : Runs, over : BOOLEAN, feed : SUBSET (Nat \ {0})]

\* Every variable has its type.
TypeOK ==
  /\ latest \in 0..MaxRuns /\ held \in {0, latest}
  /\ ended \subseteq 1..latest /\ settled \subseteq ended
  /\ sequence \in Nat /\ closing \in {0, 1}
  /\ Len(queue) <= QueueSize
  /\ lossy \in BOOLEAN /\ quiet \in BOOLEAN /\ terminal \in BOOLEAN
  /\ restarts \in 0..MaxRestarts
  /\ watched \in 0..latest
  /\ display \in Displays
  /\ link \in {"idle", "connecting", "live", "reconnecting", "polling",
               "terminal"}
  /\ socket \in {"none", "connecting", "open"}
  /\ retries \in 0..MaxReconnects
  /\ timers \subseteq {"reconnect", "poll", "upgrade", "orphan"}
  /\ Cardinality(polls) <= MaxPolls
  /\ \A p \in polls : p.answer.telemetry \in Displays

Pending == {m \in ToSet(queue) : m.type = "milestone"}
Replay  == \E m \in ToSet(queue) : m.type = "snapshot"

\* After a reconnect nothing that the API still keeps is missing: unless a message
\* was dropped or a late answer took the page back, each of the newest milestones
\* of the run watched, up to the cap, is shown or on its way (specs/094, FR-013).
\* Older ones are gone from a page that connects late.
NothingIsMissed ==
  socket = "open" /\ held = watched /\ ~lossy =>
    \/ Replay /\ \E i \in 1..Len(queue) :
         /\ queue[i].type = "snapshot"
         /\ Kept \subseteq queue[i].data.feed \cup {m.sequence : m \in Pending}
    \/ Kept \subseteq Shown \cup {m.sequence : m \in Pending}

\* Once the page has seen the end it stays quiet: it has no connection, and no
\* timer that it could still clear.
TerminalIsQuiet ==
  terminal /\ watched # 0 => socket = "none" /\ timers \subseteq {"orphan"}

\* There is always something that will bring news of the run watched: a message,
\* a connection, a timer, or the end that has been seen.
NeverForgotten ==
  watched # 0 /\ ~terminal =>
    socket # "none" \/ timers \cap {"reconnect", "poll", "upgrade"} # {}

\* The page does not go on showing a run as its active one when all runs are
\* over, whatever was dropped, late or lost with the API (specs/094, FR-015).
\* While a later run executes, polls show that run in its place.
EndedRunIsReleased ==
  watched # 0 /\ latest \in ended ~> watched = 0 \/ latest \notin ended
=============================================================================

------------------------------- MODULE RunEnd -------------------------------
(***************************************************************************)
(* How a run ends: the deadline task, the sweeper's terminating breach and *)
(* the launcher's signal, the fault relay, axum's graceful shutdown, the   *)
(* passengers that have to be told first, and the status the process       *)
(* leaves (serve.rs, run.rs, the life of one socket in ws.rs).             *)
(*                                                                         *)
(* A socket is one upgrade request and what becomes of it.  A peer reads,  *)
(* or has stalled with its window full, or has left; a slow peer is one    *)
(* that stalls and resumes.  Timers may expire at any time after they are  *)
(* started, except that CLOSE_GRACE does not expire on a writer whose peer *)
(* reads.                                                                  *)
(*                                                                         *)
(* The names every module has are prefixed here, since Feed_proofs extends *)
(* this module beside Feed.                                                *)
(***************************************************************************)
EXTENDS FiniteSets

CONSTANTS
    Sockets,     \* upgrade requests
    Posts,       \* FaultTape requests on the control route
    SoleAccount  \* whether the venue holds one account, under a policy that
                 \* can terminate it

ASSUME SoleAccountAssumption == SoleAccount \in BOOLEAN

VARIABLES
    \* the planned end
    published,   \* Run::complete_tx holds a completion
    deadline,    \* where the deadline task stands
    planned,     \* serve's planned_completion
    stop,        \* the deadline task's stop watch has changed
    \* the other ends
    signal,      \* SIGTERM or ctrl-C has arrived
    faults,      \* a fault is in the run's fault channel
    relay,       \* the thread that forwards the first fault
    forwarded,   \* the oneshot to the shutdown trigger is filled
    post,        \* FaultTape requests and how they were answered
    \* the serving process
    trigger,     \* what ended the trigger's select, or "none"
    serve,       \* the serve future and the wait for passengers behind it
    exit,        \* the process' status
    \* the passengers
    phase,       \* per socket, how far it is
    peer,        \* per socket, what its consumer does
    full,        \* per socket, its bounded outbound channel has no room
    displaced,   \* per socket, a close by another's admission is in its lanes
    sink,        \* per socket, what the writer that owns it is about
    decided,     \* per socket, the ending its read loop chose
    heard        \* per socket, the ending its consumer has read

runVars == <<published, deadline, planned, stop>>
faultVars == <<signal, faults, relay, forwarded, post>>
serveVars == <<trigger, serve, exit>>
laneVars == <<displaced, sink>>
sockVars == <<phase, peer, full, laneVars, decided, heard>>
endVars == <<runVars, faultVars, serveVars, sockVars>>

Endings == {"none", "run", "duration"}

\* Sockets that hold a passenger token: taken before the 101, dropped after
\* the writer is done.
Aboard == {"seated", "orphan", "admitted", "riding", "telling", "closing"}

\* Sockets past the 101, whose lanes and writer exist.
Connected == {"admitted", "riding", "telling", "closing"}

\* Connections hyper still serves: a socket's ends at its 101.
OnHttp == {"asking", "seated"}

EndTypeOK ==
    /\ published \in BOOLEAN
    /\ deadline \in {"asleep", "completed", "flagged", "stopped"}
    /\ planned \in BOOLEAN /\ stop \in BOOLEAN
    /\ signal \in BOOLEAN /\ faults \in BOOLEAN /\ forwarded \in BOOLEAN
    /\ relay \in {"listening", "ended"}
    /\ post \in [Posts -> {"none", "asked", "exiting", "already"}]
    /\ trigger \in {"none", "signal", "stop", "fault"}
    /\ serve \in {"serving", "passengers", "done"}
    /\ exit \in {"no", "zero", "nonzero"}
    /\ phase \in [Sockets -> Aboard \cup {"out", "asking", "gone"}]
    /\ peer \in [Sockets -> {"reading", "stalled", "left"}]
    /\ full \in [Sockets -> BOOLEAN]
    /\ displaced \in [Sockets -> BOOLEAN]
    /\ sink \in [Sockets -> {"frames", "ending", "close", "done"}]
    /\ decided \in [Sockets -> Endings]
    /\ heard \in [Sockets -> Endings \cup {"displaced"}]

EndInit ==
    /\ published = FALSE /\ deadline = "asleep"
    /\ planned = FALSE /\ stop = FALSE
    /\ signal = FALSE /\ faults = FALSE
    /\ relay = "listening" /\ forwarded = FALSE
    /\ post = [p \in Posts |-> "none"]
    /\ trigger = "none" /\ serve = "serving" /\ exit = "no"
    /\ phase = [s \in Sockets |-> "out"]
    /\ peer = [s \in Sockets |-> "reading"]
    /\ full = [s \in Sockets |-> FALSE]
    /\ displaced = [s \in Sockets |-> FALSE]
    /\ sink = [s \in Sockets |-> "frames"]
    /\ decided = [s \in Sockets |-> "none"]
    /\ heard = [s \in Sockets |-> "none"]

Running == exit = "no"

-----------------------------------------------------------------------------
(* What calls for the end. *)

\* The deadline task: publish, then say the end is planned, then stop.
DeadlineCompletes ==
    /\ Running /\ deadline = "asleep"
    /\ deadline' = "completed" /\ published' = TRUE
    /\ UNCHANGED <<planned, stop, faultVars, serveVars, sockVars>>

DeadlineFlags ==
    /\ Running /\ deadline = "completed"
    /\ deadline' = "flagged" /\ planned' = TRUE
    /\ UNCHANGED <<published, stop, faultVars, serveVars, sockVars>>

\* Slip: the stop goes out before the plan is on record.
DeadlineStopsFirst ==
    /\ Running /\ deadline \in {"completed", "flagged"} /\ ~stop
    /\ stop' = TRUE
    /\ UNCHANGED <<published, deadline, planned, faultVars, serveVars, sockVars>>

DeadlineStops ==
    /\ Running /\ deadline = "flagged"
    /\ deadline' = "stopped" /\ stop' = TRUE
    /\ UNCHANGED <<published, planned, faultVars, serveVars, sockVars>>

\* The sweeper terminates the only account: it completes the run and ends.
Breach ==
    /\ Running /\ SoleAccount /\ ~published
    /\ \E s \in Sockets : phase[s] \in Aboard
    /\ published' = TRUE
    /\ UNCHANGED <<deadline, planned, stop, faultVars, serveVars, sockVars>>

Signal ==
    /\ Running /\ ~signal
    /\ signal' = TRUE
    /\ UNCHANGED <<runVars, faults, relay, forwarded, post, serveVars, sockVars>>

\* A tape worker or a placement faults; a closed channel is ignored.
SourceFaults ==
    /\ Running /\ ~faults /\ relay = "listening"
    /\ faults' = TRUE
    /\ UNCHANGED <<runVars, signal, relay, forwarded, post, serveVars, sockVars>>

AskFault(p) ==
    /\ Running /\ trigger = "none" /\ post[p] = "none"
    /\ post' = [post EXCEPT ![p] = "asked"]
    /\ UNCHANGED <<runVars, signal, faults, relay, forwarded, serveVars, sockVars>>

\* fault_venue: the send fails only when the relay's receiver is gone.
AnswerFault(p) ==
    /\ Running /\ post[p] = "asked"
    /\ post' = [post EXCEPT ![p] =
                   IF relay = "listening" THEN "exiting" ELSE "already"]
    /\ faults' = (faults \/ relay = "listening")
    /\ UNCHANGED <<runVars, signal, relay, forwarded, serveVars, sockVars>>

\* The relay takes one fault, forwards it and ends with its receiver; the
\* trigger's half of the oneshot may be gone, which is ignored.
Relay ==
    /\ Running /\ faults /\ relay = "listening"
    /\ relay' = "ended" /\ forwarded' = TRUE
    /\ UNCHANGED <<runVars, signal, faults, post, serveVars, sockVars>>

-----------------------------------------------------------------------------
(* The serving process. *)

\* The select takes whichever ready branch it polls first.
Trigger ==
    /\ Running /\ trigger = "none"
    /\ \/ signal /\ trigger' = "signal"
       \/ stop /\ trigger' = "stop"
       \/ forwarded /\ trigger' = "fault"
    /\ UNCHANGED <<runVars, faultVars, serve, exit, sockVars>>

NoHttp == /\ \A s \in Sockets : phase[s] \notin OnHttp
          /\ \A p \in Posts : post[p] # "asked"

\* The serve future resolves; only a planned end waits for passengers.
ServeEnds ==
    /\ Running /\ serve = "serving" /\ trigger # "none" /\ NoHttp
    /\ serve' = IF planned THEN "passengers" ELSE "done"
    /\ UNCHANGED <<runVars, faultVars, trigger, exit, sockVars>>

PassengersDrained ==
    /\ Running /\ serve = "passengers"
    /\ \A s \in Sockets : phase[s] \notin Aboard
    /\ serve' = "done"
    /\ UNCHANGED <<runVars, faultVars, trigger, exit, sockVars>>

\* A recorded fault is reported whatever the drain came to.
Exit ==
    /\ Running /\ serve = "done"
    /\ exit' = IF trigger = "fault" THEN "nonzero" ELSE "zero"
    /\ UNCHANGED <<runVars, faultVars, trigger, serve, sockVars>>

\* Slip: only the accept loop is bounded.
GraceEndsServing ==
    /\ Running /\ trigger # "none" /\ serve = "serving"
    /\ exit' = "nonzero"
    /\ UNCHANGED <<runVars, faultVars, trigger, serve, sockVars>>

\* SHUTDOWN_GRACE, counted from the trigger, bounds both waits.
GraceEnds ==
    /\ Running /\ trigger # "none"
    /\ exit' = "nonzero"
    /\ UNCHANGED <<runVars, faultVars, trigger, serve, sockVars>>

-----------------------------------------------------------------------------
(* The passengers. *)

Goes(s, to) ==
    /\ phase' = [phase EXCEPT ![s] = to]
    /\ UNCHANGED <<runVars, faultVars, serveVars>>

\* The read loop leaves with an ending to announce.
Decides(s, ending) ==
    /\ Goes(s, "telling")
    /\ decided' = [decided EXCEPT ![s] = ending]
    /\ UNCHANGED <<peer, full, laneVars, heard>>

\* The accept loop stops at the trigger.
Ask(s) ==
    /\ Running /\ phase[s] = "out" /\ trigger = "none"
    /\ Goes(s, "asking") /\ UNCHANGED <<peer, full, laneVars, decided, heard>>

\* Any refusal of the upgrade, the tail's own included, or a client gone
\* before the tail is spawned.
TurnedAway(s) ==
    /\ Running /\ phase[s] \in OnHttp
    /\ Goes(s, "gone") /\ UNCHANGED <<peer, full, laneVars, decided, heard>>

\* The token is taken here, in front of the tail and of the 101.
Seat(s) ==
    /\ Running /\ phase[s] = "asking"
    /\ Goes(s, "seated") /\ UNCHANGED <<peer, full, laneVars, decided, heard>>

\* The tail returns its passenger and the 101 goes out.
Admit(s) ==
    /\ Running /\ phase[s] = "seated"
    /\ Goes(s, "admitted") /\ UNCHANGED <<peer, full, laneVars, decided, heard>>

\* The client leaves while the tail runs: the tail still finishes, and the
\* runtime drops the passenger nobody takes.
HangUp(s) ==
    /\ Running /\ phase[s] = "seated"
    /\ Goes(s, "orphan") /\ peer' = [peer EXCEPT ![s] = "left"]
    /\ UNCHANGED <<full, laneVars, decided, heard>>

OrphanDropped(s) ==
    /\ Running /\ phase[s] = "orphan"
    /\ Goes(s, "gone") /\ UNCHANGED <<peer, full, laneVars, decided, heard>>

\* The socket subscribes to the completion and reads its current value.
Board(s) ==
    /\ Running /\ phase[s] = "admitted"
    /\ IF published
       THEN Decides(s, "run")
       ELSE Goes(s, "riding") /\ UNCHANGED <<peer, full, laneVars, decided, heard>>

HearsEnd(s) ==
    /\ Running /\ phase[s] = "riding" /\ published
    /\ Decides(s, "run")

\* The passenger's own duration elapses; the run wins a tie.
TimesOut(s) ==
    /\ Running /\ phase[s] = "riding"
    /\ Decides(s, IF published THEN "run" ELSE "duration")

\* Another admission displaces this connection: a close into the priority
\* lane, sent once the registry was asked, so also after the loop has decided.
Displace(s) ==
    /\ Running /\ phase[s] \in Connected /\ ~displaced[s]
    /\ displaced' = [displaced EXCEPT ![s] = TRUE]
    /\ UNCHANGED <<phase, peer, full, sink, decided, heard,
                   runVars, faultVars, serveVars>>

\* The loop is told of it only in its select.
NoticesClose(s) ==
    /\ Running /\ phase[s] = "riding" /\ displaced[s]
    /\ Goes(s, "closing") /\ UNCHANGED <<peer, full, laneVars, decided, heard>>

\* The stream ends under the read loop.
SeesPeerLeft(s) ==
    /\ Running /\ phase[s] = "riding" /\ peer[s] = "left"
    /\ Goes(s, "closing") /\ UNCHANGED <<peer, full, laneVars, decided, heard>>

\* The ending is sent into the bounded channel, which a writer that is done has
\* closed; then the loop tears its other tasks down.
Tell(s) ==
    /\ Running /\ phase[s] = "telling"
    /\ ~full[s] \/ sink[s] = "done"
    /\ Goes(s, "closing") /\ UNCHANGED <<peer, full, laneVars, decided, heard>>

WriterTurns(s, to) ==
    /\ sink' = [sink EXCEPT ![s] = to]
    /\ UNCHANGED <<phase, peer, full, displaced, decided, runVars, faultVars, serveVars>>

\* A close is the writer's last message; one in the priority lane goes ahead of
\* an ending that is queued, or has yet to be.
WriterTakes(s) ==
    /\ Running /\ phase[s] \in Connected /\ sink[s] = "frames"
    /\ \/ displaced[s] /\ WriterTurns(s, "close")
       \/ /\ ~displaced[s] /\ phase[s] = "closing" /\ decided[s] # "none"
          /\ WriterTurns(s, "ending")
    /\ UNCHANGED heard

WriterWrites(s) ==
    /\ Running /\ phase[s] \in Connected
    /\ sink[s] \in {"ending", "close"} /\ peer[s] # "stalled"
    /\ heard' = [heard EXCEPT ![s] =
                    IF peer[s] = "left" THEN @
                    ELSE IF sink[s] = "close" THEN "displaced" ELSE decided[s]]
    /\ WriterTurns(s, "done")

\* The writer fails for want of a peer, or has flushed lanes nothing closes.
WriterStops(s) ==
    /\ Running /\ phase[s] \in Connected /\ sink[s] = "frames"
    /\ \/ peer[s] = "left"
       \/ /\ phase[s] = "closing" /\ peer[s] = "reading"
          /\ decided[s] = "none" /\ ~displaced[s]
    /\ WriterTurns(s, "done") /\ UNCHANGED heard

\* Slip: the writer is aborted with the loop's other tasks.
DisembarkAtOnce(s) ==
    /\ Running /\ phase[s] = "closing" /\ peer[s] # "stalled"
    /\ Goes(s, "gone") /\ UNCHANGED <<peer, full, laneVars, decided, heard>>

\* The writer has ended, and the token goes with the passenger.
Disembark(s) ==
    /\ Running /\ phase[s] = "closing" /\ sink[s] = "done"
    /\ Goes(s, "gone") /\ UNCHANGED <<peer, full, laneVars, decided, heard>>

\* CLOSE_GRACE aborts a writer parked on a full window.
CloseGraceEnds(s) ==
    /\ Running /\ phase[s] = "closing" /\ sink[s] # "done" /\ peer[s] = "stalled"
    /\ Goes(s, "gone") /\ UNCHANGED <<peer, full, laneVars, decided, heard>>

\* The consumer: it stalls, resumes or leaves while it has a connection.
PeerTurns(s, to) ==
    /\ Running /\ phase[s] \in Connected
    /\ peer[s] # "left" /\ peer[s] # to
    /\ peer' = [peer EXCEPT ![s] = to]
    /\ full' = [full EXCEPT ![s] = @ /\ to # "reading"]
    /\ UNCHANGED <<phase, laneVars, decided, heard, runVars, faultVars, serveVars>>

\* Frames of the tape take the room a stalled peer leaves.
Fills(s) ==
    /\ Running /\ phase[s] \in {"admitted", "riding", "telling"}
    /\ peer[s] = "stalled" /\ ~full[s] /\ sink[s] # "done"
    /\ full' = [full EXCEPT ![s] = TRUE]
    /\ UNCHANGED <<phase, peer, laneVars, decided, heard, runVars, faultVars, serveVars>>

-----------------------------------------------------------------------------

Upgrading(s) == Ask(s) \/ TurnedAway(s) \/ Seat(s) \/ Admit(s)
                \/ HangUp(s) \/ OrphanDropped(s)

Riding(s) == Board(s) \/ HearsEnd(s) \/ TimesOut(s) \/ NoticesClose(s)
             \/ SeesPeerLeft(s) \/ Tell(s) \/ Disembark(s) \/ CloseGraceEnds(s)

Writing(s) == WriterTakes(s) \/ WriterWrites(s) \/ WriterStops(s)

Consumer(s) == \/ \E to \in {"reading", "stalled", "left"} : PeerTurns(s, to)
               \/ Fills(s)

Calls == DeadlineCompletes \/ DeadlineFlags \/ DeadlineStops \/ Breach
         \/ Signal \/ SourceFaults \/ Relay
         \/ \E p \in Posts : AskFault(p) \/ AnswerFault(p)

Serving == Trigger \/ ServeEnds \/ PassengersDrained \/ Exit \/ GraceEnds

EndNext == Calls \/ Serving
           \/ \E s \in Sockets : Upgrading(s) \/ Riding(s) \/ Writing(s)
                               \/ Displace(s) \/ Consumer(s)

\* The runtime's own tasks go on; launchers, consumers, other admissions, faults,
\* breaches and a declared deadline owe nothing.
Fairness ==
    /\ WF_endVars(DeadlineFlags) /\ WF_endVars(DeadlineStops) /\ WF_endVars(Relay)
    /\ WF_endVars(Trigger) /\ WF_endVars(ServeEnds) /\ WF_endVars(PassengersDrained)
    /\ WF_endVars(Exit) /\ WF_endVars(GraceEnds)
    /\ \A s \in Sockets :
          /\ WF_endVars(Board(s)) /\ WF_endVars(HearsEnd(s)) /\ WF_endVars(NoticesClose(s))
          /\ WF_endVars(SeesPeerLeft(s)) /\ WF_endVars(Tell(s)) /\ WF_endVars(Writing(s))
          /\ WF_endVars(Disembark(s) \/ CloseGraceEnds(s))

EndSpec == EndInit /\ [][EndNext]_endVars /\ Fairness

-----------------------------------------------------------------------------
(* Properties. *)

\* A run that stopped at its deadline and exits zero leaves nobody aboard, not
\* even a socket whose 101 was on its way when the accept loop stopped, and
\* nobody its loop had an ending for and that still reads goes without a word:
\* it has read that ending, or, where another admission displaced it before the
\* writer came to the ending, the close of that (serve.rs serve_until_drained,
\* run.rs passenger_guard, ws.rs run_writer).
ToldBeforeCleanExit ==
    (exit = "zero" /\ trigger = "stop") =>
        \A s \in Sockets :
            /\ phase[s] \notin Aboard
            /\ (decided[s] # "none" /\ peer[s] = "reading") =>
                  \/ heard[s] = decided[s]
                  \/ heard[s] = "displaced" /\ displaced[s]

\* Whatever calls for the end gets it: a signal, a deadline that passed or a
\* fault that was sent is followed by the process' exit, whoever stopped
\* reading (serve.rs SHUTDOWN_GRACE).
CalledToEnd == (signal \/ deadline # "asleep" \/ faults) ~> exit # "no"

\* A passenger that is aboard when the run is over, or boards after, reads
\* that it is, or reads the close of the admission that displaced it before its
\* writer came to the announcement, unless it stalls or leaves or the process
\* ends; also when nothing ends the process (ws.rs current_completion).
EveryoneIsTold ==
    \A s \in Sockets :
        (published /\ phase[s] \in {"admitted", "riding"}) ~>
            (\/ heard[s] \in {"run", "displaced"}
             \/ peer[s] # "reading" \/ exit # "no")

=============================================================================

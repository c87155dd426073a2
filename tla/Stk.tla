-------------------------------- MODULE Stk --------------------------------
(* RadioSim's SIM Toolkit cache (part_002, RadioSim.h).  The reader thread *)
(* hands every +CUSATP proactive command to handleUnsolicited(CUSATP),     *)
(* which decides under mMtx what to do with it and tells the client after  *)
(* unlocking.  Until the client calls reportStkServiceIsRunning, a command *)
(* is kept in the optional mStkUnsolResponse instead; that call, on a      *)
(* binder thread, sets mStkServiceRunning and moves the kept command out   *)
(* under mMtx, then sends it to the client after unlocking.  A REFRESH     *)
(* with the SIM_RESET qualifier clears mStkServiceRunning again.           *)
(* A command is its number in the modem's stream; the moved-from command   *)
(* left in the optional is number 0, the empty string.  Commands too short *)
(* to carry a type change nothing and are left out.                        *)
EXTENDS Integers, Sequences, FiniteSets

CONSTANTS MaxCusatp,   \* bound on the +CUSATP lines the modem sends
          MaxReports   \* bound on the reportStkServiceIsRunning calls

Reports == 1..MaxReports

NoCmd == -1            \* the optional is disengaged

\* The kinds of +CUSATP by the command type at typeOffset: the types that
\* only need notifying (RUN_AT, SEND_*, PLAY_TONE, CLOSE_CHANNEL, and a
\* REFRESH other than SIM_RESET), a REFRESH with qualifier 04, and every
\* other type, a proactive command.
Kinds == {"notify", "simReset", "proactive"}

VARIABLES stkServiceRunning, \* mStkServiceRunning
          stkUnsolResponse,  \* mStkUnsolResponse: NoCmd or a command number
          nCusatp,           \* +CUSATP lines read so far
          reader,            \* the reader between its unlock and the indication
          report,            \* each reportStkServiceIsRunning call's progress
          indications        \* what the client got, in order

vars == <<stkServiceRunning, stkUnsolResponse, nCusatp, reader, report,
          indications>>

ReaderIdle == [pc |-> "idle", action |-> "NOTHING", cmd |-> 0]

Init == /\ stkServiceRunning = FALSE
        /\ stkUnsolResponse = NoCmd
        /\ nCusatp = 0
        /\ reader = ReaderIdle
        /\ report = [i \in Reports |-> [pc |-> "none", cmd |-> NoCmd]]
        /\ indications = <<>>

\* The action the switch on the command type picks.
Action(kind) == IF kind = "notify" THEN "NOTIFY"
                ELSE IF kind = "simReset" THEN "NOTHING" ELSE "PROACTIVE_CMD"

\* handleUnsolicited(CUSATP), the locked part: a SIM_RESET clears
\* mStkServiceRunning; while the service is not running the command is
\* kept (replacing any kept before) and nothing is sent.
HandleCusatp(kind) ==
  /\ reader.pc = "idle" /\ nCusatp < MaxCusatp
  /\ LET n == nCusatp + 1
         running == stkServiceRunning /\ kind # "simReset"
         action == IF running THEN Action(kind) ELSE "NOTHING"
     IN /\ stkServiceRunning' = running
        /\ stkUnsolResponse' = IF running THEN stkUnsolResponse ELSE n
        /\ nCusatp' = n
        /\ reader' = IF action = "NOTHING" THEN ReaderIdle
                     ELSE [pc |-> "indicate", action |-> action, cmd |-> n]
  /\ UNCHANGED <<report, indications>>

\* handleUnsolicited(CUSATP) after the unlock (the client has set its
\* indication functions): stkEventNotify or
\* stkProactiveCommand with the command.
Indicate ==
  /\ reader.pc = "indicate"
  /\ indications' = Append(indications, [ind |-> reader.action, cmd |-> reader.cmd])
  /\ reader' = ReaderIdle
  /\ UNCHANGED <<stkServiceRunning, stkUnsolResponse, nCusatp, report>>

\* MovedFrom as a copy: the optional keeps the command.
CopiedFrom(opt) == opt

\* The moved-from optional: std::move leaves it engaged with an empty
\* command.
MovedFrom(opt) == IF opt = NoCmd THEN NoCmd ELSE 0

\* reportStkServiceIsRunning, the locked part: mark the service running and
\* move the kept command out.
ReportLocked(i) ==
  /\ report[i].pc = "none"
  /\ \A j \in 1..(i-1) : report[j].pc # "none"
  /\ stkServiceRunning' = TRUE
  /\ stkUnsolResponse' = MovedFrom(stkUnsolResponse)
  /\ report' = [report EXCEPT ![i] =
                  [pc |-> IF stkUnsolResponse = NoCmd THEN "done" ELSE "send",
                   cmd |-> stkUnsolResponse]]
  /\ UNCHANGED <<nCusatp, reader, indications>>

\* reportStkServiceIsRunning after the unlock: an engaged copy is sent as
\* a proactive command (then the AT+CUSATD? requester is queued, which
\* SimRequests.tla models).
ReportSend(i) ==
  /\ report[i].pc = "send"
  /\ indications' = Append(indications, [ind |-> "PROACTIVE_CMD", cmd |-> report[i].cmd])
  /\ report' = [report EXCEPT ![i].pc = "done"]
  /\ UNCHANGED <<stkServiceRunning, stkUnsolResponse, nCusatp, reader>>

Next == \/ \E kind \in Kinds : HandleCusatp(kind)
        \/ Indicate
        \/ \E i \in Reports : ReportLocked(i) \/ ReportSend(i)

Spec == Init /\ [][Next]_vars

-----------------------------------------------------------------------------
(* Every +CUSATP the modem sends reaches the client at most once, however *)
(* the reader's handling, SIM resets and reportStkServiceIsRunning calls  *)
(* from several binder threads interleave: a kept command is moved out    *)
(* under mMtx by exactly one report, and a command the reader sends on    *)
(* itself is never kept.                                                  *)
CommandIndicatedOnce ==
  \A k \in 1..MaxCusatp :
    Cardinality({p \in DOMAIN indications : indications[p].cmd = k}) <= 1
=============================================================================

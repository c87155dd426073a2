------------------------------ MODULE AtChannel ------------------------------
(***************************************************************************)
(* The AT channel of the goldfish radio HAL (src/hals/radio/AtChannel.cpp) *)
(* together with the per-service Conversations that consume it.            *)
(*                                                                         *)
(* Three kinds of thread act on it:                                        *)
(*  - binder threads queue requester closures (queueRequester) and main()  *)
(*    adds the services' response sinks (addResponseSink);                 *)
(*  - the request thread (requestLoop) runs one requester at a time,       *)
(*    opening the host channel and running the init sequence first when    *)
(*    mHostChannel is not valid, and resetting mHostChannel when a         *)
(*    requester returns false;                                             *)
(*  - one reader thread per opened channel (readingLoop) reads parsed      *)
(*    responses and broadcasts each to the channel's own Conversation and  *)
(*    then to every sink; each service's sink offers it to the service's  *)
(*    Conversation and handles it as unsolicited when not claimed.         *)
(* The modem answers every command it received, in order, and may emit     *)
(* unsolicited responses at any time.  Responses are already parsed here;  *)
(* the framing of bytes into responses is the subject of AtParser.         *)
(***************************************************************************)
EXTENDS Integers, Sequences, FiniteSets

CONSTANTS
  Handlers,    \* the services, in the order main() adds their sinks
  InitConv,    \* AtChannel::mConversation, used only by the init sequence
  None,        \* an empty slot: disarmed filter, unset promise, no requester
  Requesters,  \* the requester closures the services may queue
  Program,     \* Program[r] = [conv |-> its service, steps |-> <<step, ...>>]
  InitSteps,   \* the init sequence of main(), as steps on InitConv
  Kinds,       \* the kinds of parsed responses
  ReplyOf,     \* ReplyOf[cmd]: the response sequences the modem may answer
  UnsolKinds,  \* the kinds the modem may send unsolicited
  MaxOpens,    \* bound: number of times the host channel is opened
  MaxUnsol     \* bound: number of unsolicited responses

Convs == {InitConv} \cup {Handlers[i] : i \in 1..Len(Handlers)}

(* A step of a requester: a command sent through a Conversation with the  *)
(* filter it arms, or (fire = TRUE) written with requestPipe alone.        *)
Step == [cmd : DOMAIN ReplyOf, fire : BOOLEAN, filter : SUBSET Kinds]

ASSUME /\ \A r \in Requesters : Program[r].conv \in Convs \ {InitConv}
       /\ \A r \in Requesters : Program[r].steps \in Seq(Step) \ {<<>>}
       /\ InitSteps \in Seq(Step) /\ \A i \in DOMAIN InitSteps : ~InitSteps[i].fire
       /\ MaxOpens \in Nat \ {0} /\ MaxUnsol \in Nat

VARIABLES
  queue,      \* mRequesterQueue
  queued,     \* requesters the binder threads have queued (each at most once)
  done,       \* requesters the request thread has finished
  sinks,      \* mResponseSinks: the first `sinks` services of Handlers
  rt,         \* the request thread: where it is and which step it runs
  hostFd,     \* mHostChannel: the generation of the open channel, 0 if reset
  opens,      \* how many channels were opened
  readers,    \* readers[g]: the reader thread started for channel g
  conv,       \* conv[c]: mFilter (a set of kinds), the command sent, mSink
  toModem,    \* commands written and not yet answered by the modem
  wire,       \* responses the modem wrote and no reader has read yet
  nCmd,       \* commands written so far (command ids)
  nResp,      \* responses emitted so far (response ids)
  nUnsol,     \* unsolicited responses emitted so far
  unsolSeen,  \* <<service, response id>>: handled as unsolicited by a sink
  claimed,    \* ids of responses a Conversation claimed
  abortCause  \* None, or why the process aborted (LOG_ALWAYS_FATAL)

vars == <<queue, queued, done, sinks, rt, hostFd, opens, readers, conv,
          toModem, wire, nCmd, nResp, nUnsol, unsolSeen, claimed, abortCause>>

Response == [id : Nat, kind : Kinds, for : Nat]   \* for = 0: unsolicited
Idle == [pc |-> "idle", req |-> None, init |-> FALSE, step |-> 0, failed |-> FALSE]

Running == abortCause = None
ReaderAlive(g) == readers[g].st # "none"

CurSteps == IF rt.init THEN InitSteps ELSE Program[rt.req].steps
CurStep == CurSteps[rt.step]
CurConv == IF rt.init THEN InitConv ELSE Program[rt.req].conv

-----------------------------------------------------------------------------
(* Conversation::send: claim the response if the armed filter accepts it.  *)
Claims(c, r) == conv[c].filter # None /\ r.kind \in conv[c].filter
Send(c, r) ==
  IF Claims(c, r)
  THEN [conv EXCEPT ![c] = [@ EXCEPT !.filter = None, !.promise = r]]
  ELSE conv

(* The end of a step with or without a response.  In the init sequence a *)
(* missing response makes getHostChannelPipe abort; in a requester it     *)
(* ends the requester with `false` (status INTERNAL_ERR).                  *)
EndStep(ok) ==
  IF rt.init
  THEN IF ~ok
       THEN abortCause' = "init" /\ UNCHANGED rt
       ELSE /\ rt' = IF rt.step < Len(InitSteps)
                     THEN [rt EXCEPT !.pc = "send", !.step = @ + 1]
                     ELSE [rt EXCEPT !.pc = "send", !.init = FALSE, !.step = 1]
            /\ UNCHANGED abortCause
  ELSE /\ rt' = IF ok /\ rt.step < Len(CurSteps)
                THEN [rt EXCEPT !.pc = "send", !.step = @ + 1]
                ELSE [rt EXCEPT !.pc = "finish", !.failed = ~ok]
       /\ UNCHANGED abortCause

-----------------------------------------------------------------------------
(* Binder threads and main().                                              *)

QueueRequester(r) ==
  /\ Running /\ r \notin queued
  /\ queue' = Append(queue, r)
  /\ queued' = queued \cup {r}
  /\ UNCHANGED <<done, sinks, rt, hostFd, opens, readers, conv, toModem, wire,
                 nCmd, nResp, nUnsol, unsolSeen, claimed, abortCause>>

(* mResponseSinksMtx is held by the reader for a whole broadcast.          *)
AddResponseSink ==
  /\ Running /\ sinks < Len(Handlers)
  /\ \A g \in 1..MaxOpens : readers[g].st # "fanout"
  /\ sinks' = sinks + 1
  /\ UNCHANGED <<queue, queued, done, rt, hostFd, opens, readers, conv, toModem,
                 wire, nCmd, nResp, nUnsol, unsolSeen, claimed, abortCause>>

-----------------------------------------------------------------------------
(* The request thread.                                                     *)

(* getRequester() pops the next closure; requestLoop then evaluates        *)
(* getHostChannelPipe(), which opens the channel when mHostChannel is not  *)
(* valid.                                                                  *)
GetRequester ==
  /\ Running /\ rt.pc = "idle" /\ queue # <<>>
  /\ queue' = Tail(queue)
  /\ rt' = [Idle EXCEPT !.pc = IF hostFd = 0 THEN "open" ELSE "send",
                        !.req = Head(queue), !.step = 1]
  /\ UNCHANGED <<queued, done, sinks, hostFd, opens, readers, conv, toModem,
                 wire, nCmd, nResp, nUnsol, unsolSeen, claimed, abortCause>>

(* getHostChannelPipe: join the previous reader, open the channel (abort   *)
(* if the factory fails), start its reader, then run the init sequence.    *)
OpenChannel ==
  /\ Running /\ rt.pc = "open" /\ opens < MaxOpens
  /\ \A g \in 1..MaxOpens : ~ReaderAlive(g)
  /\ \/ /\ abortCause' = "open"
        /\ UNCHANGED <<rt, hostFd, opens, readers>>
     \/ /\ hostFd' = opens + 1
        /\ opens' = opens + 1
        /\ readers' = [readers EXCEPT ![opens + 1].st = "blocked"]
        /\ rt' = [rt EXCEPT !.pc = "send", !.init = TRUE, !.step = 1]
        /\ UNCHANGED abortCause
  /\ UNCHANGED <<queue, queued, done, sinks, conv, toModem, wire, nCmd, nResp,
                 nUnsol, unsolSeen, claimed>>

(* Mutation of ConvSend: the write-error path returns without disarming.  *)
ConvSendKeepFilter ==
  /\ Running /\ rt.pc = "send" /\ ~CurStep.fire
  /\ LET armed == [filter |-> CurStep.filter, cmd |-> nCmd + 1, promise |-> None]
     IN /\ conv' = [conv EXCEPT ![CurConv] = armed]
        /\ \/ /\ toModem' = Append(toModem, [id |-> nCmd + 1, cmd |-> CurStep.cmd])
              /\ rt' = [rt EXCEPT !.pc = "wait"]
              /\ UNCHANGED abortCause
           \/ /\ UNCHANGED toModem
              /\ EndStep(FALSE)
  /\ nCmd' = nCmd + 1
  /\ UNCHANGED <<queue, queued, done, sinks, hostFd, opens, readers, wire,
                 nResp, nUnsol, unsolSeen, claimed>>

(* Conversation::operator(): arm the filter and a fresh promise, write the *)
(* command; on a write error disarm and return nullptr.                    *)
ConvSend ==
  /\ Running /\ rt.pc = "send" /\ ~CurStep.fire
  /\ LET armed == [filter |-> CurStep.filter, cmd |-> nCmd + 1, promise |-> None]
     IN \/ /\ conv' = [conv EXCEPT ![CurConv] = armed]
           /\ toModem' = Append(toModem, [id |-> nCmd + 1, cmd |-> CurStep.cmd])
           /\ rt' = [rt EXCEPT !.pc = "wait"]
           /\ UNCHANGED abortCause
        \/ /\ conv' = [conv EXCEPT ![CurConv] = [armed EXCEPT !.filter = None]]
           /\ UNCHANGED toModem
           /\ EndStep(FALSE)
  /\ nCmd' = nCmd + 1
  /\ UNCHANGED <<queue, queued, done, sinks, hostFd, opens, readers, wire,
                 nResp, nUnsol, unsolSeen, claimed>>

(* requestPipe(cmd) without a Conversation (acceptCall, hangup, ...): the  *)
(* result of the write is ignored and the reply is left to the sinks.      *)
Fire ==
  /\ Running /\ rt.pc = "send" /\ CurStep.fire
  /\ \/ /\ toModem' = Append(toModem, [id |-> nCmd + 1, cmd |-> CurStep.cmd])
        /\ nCmd' = nCmd + 1
     \/ UNCHANGED <<toModem, nCmd>>
  /\ EndStep(TRUE)
  /\ UNCHANGED <<queue, queued, done, sinks, hostFd, opens, readers, conv, wire,
                 nResp, nUnsol, unsolSeen, claimed>>

(* wait_for returns ready: the claimed response is returned.               *)
Receive ==
  /\ Running /\ rt.pc = "wait" /\ conv[CurConv].promise # None
  /\ EndStep(TRUE)
  /\ UNCHANGED <<queue, queued, done, sinks, hostFd, opens, readers, conv,
                 toModem, wire, nCmd, nResp, nUnsol, unsolSeen, claimed>>

(* Mutation of Timeout: an unbounded wait() in place of wait_for().       *)
TimeoutNever == FALSE

(* wait_for times out (3s by default).  The filter is still armed until   *)
(* the thread takes mMtx again in Disarm.                                  *)
Timeout ==
  /\ Running /\ rt.pc = "wait" /\ conv[CurConv].promise = None
  /\ rt' = [rt EXCEPT !.pc = "timedout"]
  /\ UNCHANGED <<queue, queued, done, sinks, hostFd, opens, readers, conv,
                 toModem, wire, nCmd, nResp, nUnsol, unsolSeen, claimed, abortCause>>

Disarm ==
  /\ Running /\ rt.pc = "timedout"
  /\ conv' = [conv EXCEPT ![CurConv].filter = None]
  /\ EndStep(FALSE)
  /\ UNCHANGED <<queue, queued, done, sinks, hostFd, opens, readers, toModem,
                 wire, nCmd, nResp, nUnsol, unsolSeen, claimed>>

(* Mutation of Finish: the reset stores unique_fd's raw -1.               *)
FinishRawReset ==
  /\ Running /\ rt.pc = "finish"
  /\ hostFd' = IF rt.failed THEN -1 ELSE hostFd
  /\ done' = done \cup {rt.req}
  /\ rt' = Idle
  /\ UNCHANGED <<queue, queued, sinks, opens, readers, conv, toModem, wire,
                 nCmd, nResp, nUnsol, unsolSeen, claimed, abortCause>>

(* requestLoop: a requester that returned false resets mHostChannel.       *)
Finish ==
  /\ Running /\ rt.pc = "finish"
  /\ hostFd' = IF rt.failed THEN 0 ELSE hostFd
  /\ done' = done \cup {rt.req}
  /\ rt' = Idle
  /\ UNCHANGED <<queue, queued, sinks, opens, readers, conv, toModem, wire,
                 nCmd, nResp, nUnsol, unsolSeen, claimed, abortCause>>

-----------------------------------------------------------------------------
(* The reader thread of channel g.                                         *)

(* A blocked read returns the next response, even if the request thread   *)
(* closed the fd meanwhile: the read already holds the file.               *)
ReaderRead(g) ==
  /\ Running /\ readers[g].st = "blocked" /\ wire # <<>>
  /\ readers' = [readers EXCEPT ![g] = [st |-> "fanout", resp |-> Head(wire), next |-> 0]]
  /\ wire' = Tail(wire)
  /\ UNCHANGED <<queue, queued, done, sinks, rt, hostFd, opens, conv, toModem,
                 nCmd, nResp, nUnsol, unsolSeen, claimed, abortCause>>

(* A service's atResponseSink: offer the response to the service's own     *)
(* Conversation, and visit handleUnsolicited when it is not claimed.       *)
ServiceSink(c, r) ==
  /\ conv' = Send(c, r)
  /\ claimed' = IF Claims(c, r) THEN claimed \cup {r.id} ELSE claimed
  /\ unsolSeen' = IF Claims(c, r) THEN unsolSeen ELSE unsolSeen \cup {<<c, r.id>>}

(* broadcastResponse: first mConversation.send, then, under                *)
(* mResponseSinksMtx, each sink in order, whether or not the response was  *)
(* claimed.                                                                 *)
ReaderDeliver(g) ==
  /\ Running /\ readers[g].st = "fanout" /\ readers[g].next <= sinks
  /\ LET r == readers[g].resp
     IN IF readers[g].next = 0
        THEN /\ conv' = Send(InitConv, r)
             /\ claimed' = IF Claims(InitConv, r) THEN claimed \cup {r.id} ELSE claimed
             /\ UNCHANGED unsolSeen
        ELSE ServiceSink(Handlers[readers[g].next], r)
  /\ readers' = [readers EXCEPT ![g].next = @ + 1]
  /\ UNCHANGED <<queue, queued, done, sinks, rt, hostFd, opens, toModem, wire,
                 nCmd, nResp, nUnsol, abortCause>>

(* The next read: on a closed fd it fails, receiveResponses returns false  *)
(* and readingLoop aborts.                                                 *)
ReaderNextRead(g) ==
  /\ Running /\ readers[g].st = "fanout" /\ readers[g].next > sinks
  /\ IF hostFd = g
     THEN /\ readers' = [readers EXCEPT ![g] = [st |-> "blocked", resp |-> None, next |-> 0]]
          /\ UNCHANGED abortCause
     ELSE /\ abortCause' = "read"
          /\ UNCHANGED readers
  /\ UNCHANGED <<queue, queued, done, sinks, rt, hostFd, opens, conv, toModem,
                 wire, nCmd, nResp, nUnsol, unsolSeen, claimed>>

-----------------------------------------------------------------------------
(* The modem.                                                              *)

Responses(rs, for) == [i \in 1..Len(rs) |-> [id |-> nResp + i, kind |-> rs[i], for |-> for]]

ModemReply ==
  /\ Running /\ toModem # <<>>
  /\ \E rs \in ReplyOf[Head(toModem).cmd] :
       /\ wire' = wire \o Responses(rs, Head(toModem).id)
       /\ nResp' = nResp + Len(rs)
  /\ toModem' = Tail(toModem)
  /\ UNCHANGED <<queue, queued, done, sinks, rt, hostFd, opens, readers, conv,
                 nCmd, nUnsol, unsolSeen, claimed, abortCause>>

ModemUnsol ==
  /\ Running /\ nUnsol < MaxUnsol
  /\ \E k \in UnsolKinds :
       wire' = Append(wire, [id |-> nResp + 1, kind |-> k, for |-> 0])
  /\ nResp' = nResp + 1
  /\ nUnsol' = nUnsol + 1
  /\ UNCHANGED <<queue, queued, done, sinks, rt, hostFd, opens, readers, conv,
                 toModem, nCmd, unsolSeen, claimed, abortCause>>

-----------------------------------------------------------------------------
Init ==
  /\ queue = <<>> /\ queued = {} /\ done = {} /\ sinks = 0
  /\ rt = Idle
  /\ hostFd = 0 /\ opens = 0
  /\ readers = [g \in 1..MaxOpens |-> [st |-> "none", resp |-> None, next |-> 0]]
  /\ conv = [c \in Convs |-> [filter |-> None, cmd |-> 0, promise |-> None]]
  /\ toModem = <<>> /\ wire = <<>>
  /\ nCmd = 0 /\ nResp = 0 /\ nUnsol = 0
  /\ unsolSeen = {} /\ claimed = {}
  /\ abortCause = None

RequestThread ==
  \/ GetRequester \/ OpenChannel \/ ConvSend \/ Fire
  \/ Receive \/ Timeout \/ Disarm \/ Finish

Reader(g) == ReaderRead(g) \/ ReaderDeliver(g) \/ ReaderNextRead(g)

Modem == ModemReply \/ ModemUnsol

Next ==
  \/ \E r \in Requesters : QueueRequester(r)
  \/ AddResponseSink
  \/ RequestThread
  \/ \E g \in 1..MaxOpens : Reader(g)
  \/ Modem

(* The two worker threads are scheduled; the modem and the binder callers *)
(* owe the HAL nothing, so they get no fairness.                           *)
Fairness == WF_vars(RequestThread) /\ \A g \in 1..MaxOpens : WF_vars(Reader(g))

Spec == Init /\ [][Next]_vars /\ Fairness

-----------------------------------------------------------------------------
(* Properties.                                                             *)

TypeOK ==
  /\ queue \in Seq(Requesters) /\ queued \in SUBSET Requesters
  /\ done \subseteq queued /\ sinks \in 0..Len(Handlers)
  /\ rt.pc \in {"idle", "open", "send", "wait", "timedout", "finish"}
  /\ hostFd \in 0..MaxOpens /\ opens \in 0..MaxOpens
  /\ \A g \in 1..MaxOpens : readers[g].st \in {"none", "blocked", "fanout"}
  /\ \A c \in Convs : /\ conv[c].filter \in (SUBSET Kinds) \cup {None}
                      /\ conv[c].promise \in Response \cup {None}
  /\ toModem \in Seq([id : Nat, cmd : DOMAIN ReplyOf]) /\ wire \in Seq(Response)
  /\ abortCause \in {None, "open", "init", "read"}

(* A Conversation's filter is armed only while the request thread is      *)
(* inside that Conversation's operator(), waiting or about to disarm.      *)
(* mFilter points at the FilterFunc on the request thread's stack, so a    *)
(* filter left armed after operator() returns (write error, timeout) would *)
(* be called by the reader thread on a dead frame, and could claim a       *)
(* response for a Conversation nobody waits on.                            *)
NoDanglingFilter ==
  \A c \in Convs :
    conv[c].filter # None => rt.pc \in {"wait", "timedout"} /\ CurConv = c

(* Every armed Conversation is eventually disarmed (or the process         *)
(* aborted): the wait in Conversation::operator() is bounded by a timeout, *)
(* so the request thread makes progress even if the modem never answers.   *)
ConversationReturns ==
  \A c \in Convs :
    (conv[c].filter # None) ~> (conv[c].filter = None \/ abortCause # None)

(* Spec section 8, at-most-one correlation: the response a Conversation    *)
(* hands back is the reply to the command it sent, never a late reply to   *)
(* an earlier command.                                                      *)
CorrelatedReply ==
  \A c \in Convs : conv[c].promise # None => conv[c].promise.for = conv[c].cmd

(* Spec section 8, delivery exclusivity: a response claimed by a           *)
(* Conversation is never also delivered to a sink as unsolicited.          *)
ClaimedNotBroadcast == \A p \in unsolSeen : p[2] \notin claimed

(* Spec section 7: a link failure (a requester returning false) leads to   *)
(* a transparent reconnection and never aborts the process.                *)
LinkFailureNotFatal == abortCause # "read"

(* Spec section 7: after a link failure the channel is reopened, so every  *)
(* queued requester eventually runs, unless the process aborted.           *)
RequestsServed ==
  \A r \in Requesters : (r \in queued) ~> (r \in done \/ abortCause # None)

=============================================================================

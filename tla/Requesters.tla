----------------------------- MODULE Requesters -----------------------------
(* The path of a service request to the modem, shared by every service.    *)
(* A binder call queues a requester on the AtChannel; the request thread   *)
(* runs the requesters one at a time.  A requester talks to the modem      *)
(* through its service's Conversation (arm a filter, write the command,    *)
(* wait up to 3 s for a response the filter accepts) or writes a command   *)
(* with the bare RequestPipe and waits for nothing.  It answers the client *)
(* and returns status != INTERNAL_ERR; false makes requestLoop reset the   *)
(* channel (AtChannel.tla models what follows; here the behaviour stops).  *)
(* The reader hands every response to the service sinks, which offer it   *)
(* to their Conversation; only the running requester's is armed.  The     *)
(* filters accept a ParseError only when it carries their own command's  *)
(* tag; the modem here answers with well-formed replies, so the           *)
(* isParseError() branches are left out.                                  *)
(* The modem is the environment: it may answer each command with any of   *)
(* its replies, late, or not at all.  AT+CMGS and AT+CMGW switch it to PDU *)
(* mode with the "> " prompt.                                             *)
EXTENDS Integers, Sequences

CONSTANTS MaxRequests   \* bound on the binder calls of a behaviour

Requests == 1..MaxRequests

None == "none"

VARIABLES reqOp,     \* the operation of each binder call, or None
          queue,     \* requesters queued (their request numbers)
          rt,        \* the request thread: which requester, where, and
                     \* what its Conversation returned
          filter,    \* the armed Conversation's mFilter: the kinds it accepts
          toModem,   \* commands and PDUs written, not yet read by the modem
          wire,      \* response lines written by the modem, not yet read
          modemMode, \* "cmd", or "pdu" after the modem sent "> "
          badInput,  \* the modem got a command in PDU mode or a PDU outside it
          answer,    \* the responses sent to the client for each call
          reset,     \* a requester returned false: the channel is reset
          nWritten   \* how many inputs were written to the modem; the lines
                     \* of a reply carry the number of their input

vars == <<reqOp, queue, rt, filter, toModem, wire, modemMode, badInput,
          answer, reset, nWritten>>

\* rt.seq is the number of the input the running Conversation wrote, and
\* rt.missed records that a line answering that input was read while the
\* Conversation waited and its filter turned it away.
RtIdle == [pc |-> "idle", req |-> 0, result |-> None, seq |-> 0,
           missed |-> FALSE]

Init == /\ reqOp = [i \in Requests |-> None]
        /\ queue = <<>>
        /\ rt = RtIdle
        /\ filter = {}
        /\ toModem = <<>> /\ wire = <<>>
        /\ modemMode = "cmd" /\ badInput = FALSE
        /\ answer = [i \in Requests |-> <<>>]
        /\ reset = FALSE
        /\ nWritten = 0

-----------------------------------------------------------------------------
(* Commands, with the replies the modem may give: a query answers its +C   *)
(* line then OK, a set command OK; either may be refused.                 *)
Reply1(lines) == [lines |-> lines, mode |-> "cmd"]

Query(name, line) ==
  [name |-> name, seq |-> 0, replies |-> {Reply1(<<line, "OK">>), Reply1(<<"CmeError">>)}]

Set(name) ==
  [name |-> name, seq |-> 0, replies |-> {Reply1(<<"OK">>), Reply1(<<"CmeError">>)}]

\* The two commands that open PDU entry, and the PDUs that close it.
PromptCmd(name) ==
  [name |-> name, seq |-> 0, replies |-> {[lines |-> <<"Prompt">>, mode |-> "pdu"],
                               Reply1(<<"CmsError">>)}]

Pdu(name, line) ==
  [name |-> name, seq |-> 0, replies |-> {Reply1(<<line, "OK">>), Reply1(<<"CmsError">>)}]

PduInputs == {"PDU+CMGS", "PDU+CMGW"}

Op == reqOp[rt.req]

\* A binder call that queues a requester.
Call(op) ==
  /\ \E i \in Requests :
       /\ reqOp[i] = None
       /\ \A j \in 1..(i-1) : reqOp[j] # None
       /\ reqOp' = [reqOp EXCEPT ![i] = op]
       /\ queue' = Append(queue, i)
  /\ UNCHANGED <<rt, filter, toModem, wire, modemMode, badInput, answer, reset,
                 nWritten>>

\* A binder call answered on the binder thread without queueing a requester
\* (its arguments were refused).
BinderAnswer(op, status) ==
  /\ \E i \in Requests :
       /\ reqOp[i] = None
       /\ \A j \in 1..(i-1) : reqOp[j] # None
       /\ reqOp' = [reqOp EXCEPT ![i] = op]
       /\ answer' = [answer EXCEPT ![i] = <<[method |-> op, status |-> status]>>]
  /\ UNCHANGED <<queue, rt, filter, toModem, wire, modemMode, badInput, reset,
                 nWritten>>

\* Conversation::operator(): arm the filter, then write the request; when
\* the write fails (a broken link) it disarms the filter and returns nullptr
\* at once.
Converse(cmd, accepts, written) ==
  IF written
  THEN /\ filter' = accepts
       /\ toModem' = Append(toModem, [cmd EXCEPT !.seq = nWritten + 1])
       /\ nWritten' = nWritten + 1
  ELSE UNCHANGED <<filter, toModem, nWritten>>

\* What Conversation::operator() holds while it waits, or returned at once.
Waiting(written) == IF written THEN "pending" ELSE "null"

\* requestLoop takes the next requester, the one queued by a call of op.
Ready(op) ==
  /\ ~reset /\ rt = RtIdle /\ queue # <<>> /\ reqOp[Head(queue)] = op

\* The requester of op starts its first Conversation.
Begin(op, cmd, accepts) ==
  /\ Ready(op)
  /\ \E written \in BOOLEAN :
       /\ rt' = [pc |-> "wait1", req |-> Head(queue), result |-> Waiting(written),
                 seq |-> nWritten + 1, missed |-> FALSE]
       /\ Converse(cmd, accepts, written)
  /\ queue' = Tail(queue)
  /\ UNCHANGED <<reqOp, wire, modemMode, badInput, answer, reset>>

\* The reader reads a line and broadcasts it; the sink of the service whose
\* filter is armed hands it to its Conversation (Conversation::send) when
\* the filter accepts it; otherwise every sink's handleUnsolicited gets it.
ReadResponse ==
  /\ ~reset /\ wire # <<>>
  /\ LET r == Head(wire) IN
       IF r.kind \in filter
       THEN /\ filter' = {}
            /\ rt' = [rt EXCEPT !.result = r.kind]
       ELSE /\ rt' = [rt EXCEPT !.missed = @ \/ (r.seq = rt.seq /\ rt.result = "pending")]
            /\ UNCHANGED filter
  /\ wire' = Tail(wire)
  /\ UNCHANGED <<reqOp, queue, toModem, modemMode, badInput, answer, reset,
                 nWritten>>

\* A Conversation that waits with no bound (wait() for wait_for(3s)).
WaitWithoutTimeout == FALSE

\* wait_for(3s) expires: disarm the filter; operator() returns nullptr.
Timeout ==
  /\ ~reset /\ rt.result = "pending"
  /\ filter' = {}
  /\ rt' = [rt EXCEPT !.result = "null"]
  /\ UNCHANGED <<reqOp, queue, toModem, wire, modemMode, badInput, answer,
                 reset, nWritten>>

\* The requester answers the client through method and returns
\* status != INTERNAL_ERR; false makes requestLoop reset the channel.
Reply(method, status) ==
  /\ answer' = [answer EXCEPT ![rt.req] =
                  Append(@, [method |-> method, status |-> status])]
  /\ rt' = RtIdle
  /\ reset' = (status = "INTERNAL_ERR")

\* response->unexpected(): a response the requester cannot use (a payload
\* it does not handle) ends the process with LOG_ALWAYS_FATAL.
Unexpected == "unexpected"

Abort ==
  /\ rt' = [rt EXCEPT !.pc = "aborted"]
  /\ UNCHANGED <<answer, reset>>

\* The statuses a requester may answer: INTERNAL_ERR when the Conversation
\* returned nothing, otherwise one of statusOf the response it returned
\* (several when the outcome depends on the payload).
StatusOf(statusOf) ==
  IF rt.result = "null" THEN {"INTERNAL_ERR"} ELSE statusOf[rt.result]

\* The status of an OK / +CME ERROR Conversation: NONE, or the error the
\* +CME ERROR carries (getErrorAndLog), abstracted to "CME".
OkOrCme == [OK |-> {"NONE"}, CmeError |-> {"CME"}]

\* The requester answers through method one of the statuses statusOf
\* allows, or aborts.
Answer(method, statusOf) ==
  \E s \in StatusOf(statusOf) :
    IF s = Unexpected THEN Abort ELSE Reply(method, s)

\* The Conversation at pc of a requester of one of ops has returned.
Returned(pc, ops) ==
  /\ ~reset /\ rt.pc = pc /\ Op \in ops /\ rt.result \notin {"pending", None}


\* The requester waits in its next Conversation.
Continue(pc, cmd, accepts) ==
  /\ \E written \in BOOLEAN :
       /\ Converse(cmd, accepts, written)
       /\ rt' = [rt EXCEPT !.pc = pc, !.result = Waiting(written),
                           !.seq = nWritten + 1, !.missed = FALSE]
  /\ UNCHANGED <<reqOp, queue, wire, modemMode, badInput, answer, reset>>

\* The requester answers and returns.
Finish(method, statusOf) ==
  /\ Answer(method, statusOf)
  /\ UNCHANGED <<reqOp, queue, filter, toModem, wire, modemMode, badInput,
                 nWritten>>

\* The requester of a single Conversation: begin, then answer through
\* method the status its result maps to.
OneShot(op, cmd, accepts, method, statusOf) ==
  \/ Begin(op, cmd, accepts)
  \/ Returned("wait1", {op}) /\ Finish(method, statusOf)

\* A requester that answers at once without waiting: it writes cmds (at
\* most one) with the bare RequestPipe, ignores whether the write failed,
\* answers status and returns true.
Immediate(op, cmds, status) ==
  /\ Ready(op)
  /\ \E written \in BOOLEAN :
       LET sent == IF written THEN cmds ELSE <<>> IN
       /\ toModem' = toModem \o [k \in DOMAIN sent |-> [sent[k] EXCEPT !.seq = nWritten + k]]
       /\ nWritten' = nWritten + Len(sent)
  /\ answer' = [answer EXCEPT ![Head(queue)] =
                  Append(@, [method |-> op, status |-> status])]
  /\ queue' = Tail(queue)
  /\ UNCHANGED <<reqOp, rt, filter, wire, modemMode, badInput, reset>>

\* A requester that writes cmd with the bare RequestPipe and answers NONE.
FireAndForget(op, cmd) == Immediate(op, <<cmd>>, "NONE")

-----------------------------------------------------------------------------
(* The modem reads one input at a time.                                    *)
ModemStep ==
  /\ ~reset /\ toModem # <<>>
  /\ LET c == Head(toModem) IN
       IF (c.name \in PduInputs) = (modemMode = "pdu")
       THEN \E r \in c.replies :
              /\ wire' = wire \o [k \in DOMAIN r.lines |->
                                    [kind |-> r.lines[k], seq |-> c.seq]]
              /\ modemMode' = r.mode
              /\ UNCHANGED badInput
       ELSE /\ badInput' = TRUE
            /\ UNCHANGED <<wire, modemMode>>
  /\ toModem' = Tail(toModem)
  /\ UNCHANGED <<reqOp, queue, rt, filter, answer, reset, nWritten>>
=============================================================================

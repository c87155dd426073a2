----------------------------- MODULE RadioData -----------------------------
(* RadioData (RadioData.cpp): data calls and keepalive sessions, both      *)
(* named by ids of one IdAllocator, all under mMtx.                        *)
(*  - setupDataCall queues a requester; the request thread runs it:        *)
(*    allocateId, AT+CGDCONT, AT+CGCONTRDP, setIpAddr, then inserts the    *)
(*    call, or on any failure releaseId.                                   *)
(*  - deactivateDataCall, startKeepalive and stopKeepalive run on binder   *)
(*    threads.  startKeepalive and stopKeepalive take the mutex twice, so  *)
(*    another thread can run between their two halves.                    *)
(* The replies of the modem are abstracted to the kinds the filters let    *)
(* through; AtChannel.tla models how they are delivered.                   *)
EXTENDS Integers, FiniteSets

CONSTANTS BinderThreads,  \* binder threads (the pool of 2 plus main)
          MaxId,          \* bound on the allocator's generator
          MaxSetups       \* bound on the setupDataCall calls of a behaviour

VARIABLES returnedIds, idGenerator,  \* the IdAllocator mIdAllocator
          dataCalls,          \* the keys of mDataCalls
          keepAliveSessions,  \* mKeepAliveSessions
          queued,             \* setupDataCall requesters queued, not yet run
          nSetup,             \* setupDataCall calls so far (bounded)
          setup,              \* the running setupDataCall requester
          binder              \* each binder thread inside start/stopKeepalive

vars == <<returnedIds, idGenerator, dataCalls, keepAliveSessions,
          queued, nSetup, setup, binder>>

Alloc == INSTANCE IdAllocator

Ids == Alloc!Ids

SetupIdle == [pc |-> "idle", cid |-> 0]
BinderIdle == [pc |-> "idle", id |-> 0]

Init == /\ Alloc!AllocInit
        /\ dataCalls = {} /\ keepAliveSessions = {}
        /\ queued = 0 /\ nSetup = 0
        /\ setup = SetupIdle
        /\ binder = [t \in BinderThreads |-> BinderIdle]

\* setupDataCall on a binder thread: setInterfaceState succeeded, so the
\* requester is queued (the failure path answers and changes nothing).
SetupDataCall ==
  /\ nSetup < MaxSetups
  /\ nSetup' = nSetup + 1
  /\ queued' = queued + 1
  /\ UNCHANGED <<returnedIds, idGenerator, dataCalls, keepAliveSessions,
                 setup, binder>>

\* The requester starts: allocateId, then formatCGDCONT, which fails
\* (INVALID_ARGUMENTS) for an unknown protocol or an empty APN.
SetupStart ==
  /\ queued > 0 /\ setup = SetupIdle
  /\ queued' = queued - 1
  /\ \E cid \in Ids, formatted \in BOOLEAN :
       /\ Alloc!Get(cid)
       /\ setup' = [pc |-> IF formatted THEN "cgdcont" ELSE "failed",
                    cid |-> cid]
  /\ UNCHANGED <<dataCalls, keepAliveSessions, nSetup, binder>>

\* AT+CGDCONT: OK goes on; +CME ERROR or no response goes to failed.
SetupCgdcont ==
  /\ setup.pc = "cgdcont"
  /\ \E reply \in {"OK", "CmeError", "none"} :
       setup' = [setup EXCEPT !.pc = IF reply = "OK" THEN "cgcontrdp"
                                                    ELSE "failed"]
  /\ UNCHANGED <<returnedIds, idGenerator, dataCalls, keepAliveSessions,
                 queued, nSetup, binder>>

\* AT+CGCONTRDP: a +CGCONTRDP whose address setIpAddr accepts inserts the
\* call under the mutex; no response, a parse error, +CME ERROR or a
\* failing setIpAddr go to failed.
SetupCgcontrdp ==
  /\ setup.pc = "cgcontrdp"
  /\ \E reply \in {"CGCONTRDP", "CmeError", "ParseError", "none"},
        ipSet \in BOOLEAN :
       IF reply = "CGCONTRDP" /\ ipSet
       THEN /\ dataCalls' = dataCalls \cup {setup.cid}
            /\ setup' = SetupIdle
       ELSE /\ setup' = [setup EXCEPT !.pc = "failed"]
            /\ UNCHANGED dataCalls
  /\ UNCHANGED <<returnedIds, idGenerator, keepAliveSessions, queued,
                 nSetup, binder>>

\* The failed: label that forgets releaseId.
SetupFailedNoRelease ==
  /\ setup.pc = "failed"
  /\ setup' = SetupIdle
  /\ UNCHANGED <<returnedIds, idGenerator, dataCalls, keepAliveSessions,
                 queued, nSetup, binder>>

\* The failed: label: releaseId(cid), then the error response.
SetupFailed ==
  /\ setup.pc = "failed"
  /\ Alloc!Put(setup.cid)
  /\ setup' = SetupIdle
  /\ UNCHANGED <<dataCalls, keepAliveSessions, queued, nSetup, binder>>

\* deactivateDataCall(cid): under the mutex, erase the call and put its
\* id back; a cid that is not a call is answered INVALID_ARGUMENTS.
DeactivateDataCall(cid) ==
  /\ cid \in dataCalls
  /\ dataCalls' = dataCalls \ {cid}
  /\ Alloc!Put(cid)
  /\ UNCHANGED <<keepAliveSessions, queued, nSetup, setup, binder>>

\* startKeepalive, first half: allocateId under the mutex.
StartKeepaliveAlloc(t) ==
  /\ binder[t] = BinderIdle
  /\ \E h \in Ids :
       /\ Alloc!Get(h)
       /\ binder' = [binder EXCEPT ![t] = [pc |-> "starting", id |-> h]]
  /\ UNCHANGED <<dataCalls, keepAliveSessions, queued, nSetup, setup>>

\* startKeepalive, second half: insert the handle under the mutex.
StartKeepaliveInsert(t) ==
  /\ binder[t].pc = "starting"
  /\ keepAliveSessions' = keepAliveSessions \cup {binder[t].id}
  /\ binder' = [binder EXCEPT ![t] = BinderIdle]
  /\ UNCHANGED <<returnedIds, idGenerator, dataCalls, queued, nSetup, setup>>

\* stopKeepalive(h), first half: erase under the mutex; a handle that was
\* not a session is answered INVALID_ARGUMENTS and not released.
StopKeepalive(t, h) ==
  /\ binder[t] = BinderIdle
  /\ h \in keepAliveSessions
  /\ keepAliveSessions' = keepAliveSessions \ {h}
  /\ binder' = [binder EXCEPT ![t] = [pc |-> "stopping", id |-> h]]
  /\ UNCHANGED <<returnedIds, idGenerator, dataCalls, queued, nSetup, setup>>

\* stopKeepalive, second half: releaseId under the mutex.
StopKeepaliveRelease(t) ==
  /\ binder[t].pc = "stopping"
  /\ Alloc!Put(binder[t].id)
  /\ binder' = [binder EXCEPT ![t] = BinderIdle]
  /\ UNCHANGED <<dataCalls, keepAliveSessions, queued, nSetup, setup>>

RequestThread == SetupStart \/ SetupCgdcont \/ SetupCgcontrdp \/ SetupFailed

Binder(t) == \/ StartKeepaliveAlloc(t) \/ StartKeepaliveInsert(t)
             \/ StopKeepaliveRelease(t)
             \/ \E h \in Ids : StopKeepalive(t, h)

Next == \/ SetupDataCall
        \/ RequestThread
        \/ \E cid \in Ids : DeactivateDataCall(cid)
        \/ \E t \in BinderThreads : Binder(t)

Spec == Init /\ [][Next]_vars

-----------------------------------------------------------------------------
\* Who holds an id: the call table, the session set, the running setup
\* requester, or a binder thread between its two halves.
Holders == {"dataCalls", "keepAliveSessions", "setup"} \cup BinderThreads

HeldBy(h) ==
  CASE h = "dataCalls"         -> dataCalls
    [] h = "keepAliveSessions" -> keepAliveSessions
    [] h = "setup"             -> IF setup.pc = "idle" THEN {} ELSE {setup.cid}
    [] OTHER                   -> IF binder[h].pc = "idle" THEN {}
                                  ELSE {binder[h].id}

(* Ids are neither leaked nor shared: an id the allocator counts as in use *)
(* is held by exactly one holder, and an id it counts as free by none.     *)
(* Data-call cids and keepalive handles come from one allocator and go    *)
(* back through three paths (the failed: label of setupDataCall,          *)
(* deactivateDataCall, and stopKeepalive's second lock) run by the request *)
(* thread and several binder threads; a missed or doubled put on any of   *)
(* them hands one id to a call and a session at once, or loses it.         *)
IdsExclusive ==
  \A id \in Ids :
    Cardinality({h \in Holders : id \in HeldBy(h)}) =
      IF id \in Alloc!InUse THEN 1 ELSE 0

(* put() compacts the generator past returned ids, and get() hands out the *)
(* smallest free id: the allocator's own properties (IdAllocator.tla), now *)
(* with setupDataCall, deactivateDataCall and the keepalive handlers as    *)
(* its callers.                                                            *)
ReturnedBelowGenerator == Alloc!ReturnedBelowGenerator

(* Seen through the ids in use, the allocator shared by the request thread *)
(* and the binder threads behaves as AbstractAllocator: smallest free id   *)
(* out, and only ids in use come back.                                     *)
AllocatorRefinement == Alloc!AllocatorRefinement
=============================================================================

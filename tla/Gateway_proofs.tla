--------------------------- MODULE Gateway_proofs ---------------------------
(***************************************************************************)
(* Proofs about Gateway, for any number of requests and attempts and any   *)
(* timing.  Every action is about one request, so the invariants are       *)
(* predicates of one request's state.                                      *)
(***************************************************************************)
EXTENDS Gateway, TLAPS

JobStatus == {"none", "full", "empty", "settling", "2xx", "error"}

FlushState == [pc : {"none", "timer", "posting", "lost"}, n : Attempts]

(* The types the first proofs need; the buffer's clock and the reports     *)
(* follow below.                                                           *)
Types ==
    /\ req \in [Requests -> Request]
    /\ pay \in [Requests -> {"new", "verified", "settled"}]
    /\ settles \in [Requests -> [request : Nat, response : Nat]]
    /\ buf \in [Requests -> {"absent", "full", "empty"}]
    /\ flush \in [Requests -> FlushState]
    /\ job \in [Requests -> [Attempts -> JobStatus]]

(* The first attempt is an attempt.                                        *)
LEMMA FirstAttempt == 1 \in Attempts
    BY GatewayConstants DEF Attempts

(* The gateway starts well typed.                                          *)
LEMMA TypesStart == Init => Types
<1> SUFFICES ASSUME Init PROVE Types
    OBVIOUS
<1>1. NewRequest \in Request
    BY DEF NewRequest, Request, AllRules
<1>2. [pc |-> "none", n |-> 1] \in FlushState
    BY FirstAttempt DEF FlushState
<1> QED BY <1>1, <1>2 DEF Init, Types, JobStatus

RequestPc == {"idle", "access", "allow", "deny", "upstream", "log", "done",
              "rejected"}

(* A request that goes to another phase stays the same request.            *)
LEMMA GotoType ==
    ASSUME Types, NEW r \in Requests, NEW pc \in RequestPc, Goto(r, pc)
    PROVE  /\ req' \in [Requests -> Request]
           /\ req'[r] = [req[r] EXCEPT !.pc = pc]
           /\ req'[r].pc = pc
           /\ req'[r].rule = req[r].rule /\ req'[r].cred = req[r].cred
           /\ req'[r].owed = req[r].owed /\ req'[r].paid = req[r].paid
<1>1. req[r] \in Request
    BY DEF Types
<1>2. [req[r] EXCEPT !.pc = pc] \in Request
    BY <1>1 DEF Request, RequestPc
<1>3. req' = [req EXCEPT ![r] = [req[r] EXCEPT !.pc = pc]]
    BY DEF Goto, Types
<1>4. req'[r] = [req[r] EXCEPT !.pc = pc]
    BY <1>3 DEF Types
<1> QED BY <1>1, <1>2, <1>3, <1>4 DEF Types, Request

(* A timer that moves on stays well typed.                                 *)
LEMMA FlushPcType ==
    ASSUME Types, NEW r \in Requests,
           NEW pc \in {"none", "timer", "posting", "lost"},
           flush' = [flush EXCEPT ![r].pc = pc]
    PROVE  flush' \in [Requests -> FlushState] /\ flush'[r].pc = pc
<1>1. [flush[r] EXCEPT !.pc = pc] \in FlushState
    BY DEF Types, FlushState
<1>2. flush[r] \in FlushState
    BY DEF Types
<1>3. [flush[r] EXCEPT !.pc = pc].pc = pc
    BY <1>2 DEF FlushState
<1> QED BY <1>1, <1>3 DEF Types

(* A capture that is written, or fails to be, leaves buffer and timer well *)
(* typed.                                                                  *)
LEMMA WriteType ==
    ASSUME Types, NEW r \in Requests, NEW body \in {"full", "empty"},
           WriteCapture(r, body) \/ WriteFails(r)
    PROVE  /\ flush' \in [Requests -> FlushState]
           /\ buf' \in [Requests -> {"absent", "full", "empty"}]
<1>1. [pc |-> "timer", n |-> 1] \in FlushState
    BY FirstAttempt DEF FlushState
<1>2. flush' \in [Requests -> FlushState]
  <2>1. CASE flush' = [flush EXCEPT ![r] = [pc |-> "timer", n |-> 1]]
      BY <1>1, <2>1 DEF Types
  <2>2. CASE flush' = [flush EXCEPT ![r].pc = "lost"]
      BY <2>2, FlushPcType
  <2> QED BY <2>1, <2>2 DEF WriteCapture, WriteFails
<1>3. buf' \in [Requests -> {"absent", "full", "empty"}]
  <2>1. buf' = [buf EXCEPT ![r] = body] \/ buf' = buf
      BY DEF WriteCapture, WriteFails
  <2> QED BY <2>1 DEF Types
<1> QED BY <1>2, <1>3

(* The answer to one POST leaves the other attempts alone.                 *)
LEMMA AnswerType ==
    ASSUME Types, NEW r \in Requests, NEW n \in Attempts,
           NEW status \in JobStatus, Answer(r, n, status)
    PROVE  /\ job' \in [Requests -> [Attempts -> JobStatus]]
           /\ job'[r][n] = status
           /\ \A m \in Attempts : m # n => job'[r][m] = job[r][m]
    BY DEF Types, Answer

(* A retry stays within the attempts.                                      *)
LEMMA RetryType ==
    ASSUME Types, NEW r \in Requests, Retry(r)
    PROVE  flush' \in [Requests -> FlushState]
<1>1. flush \in [Requests -> FlushState] /\ flush[r].n \in Attempts
    BY DEF Types, FlushState
<1>2. CASE /\ flush[r].n < MaxAttempts
           /\ flush' = [flush EXCEPT ![r] = [pc |-> "timer",
                                             n |-> flush[r].n + 1]]
  <2>1. flush[r].n + 1 \in Attempts
      BY <1>1, <1>2, GatewayConstants DEF Attempts
  <2> QED BY <1>1, <1>2, <2>1 DEF FlushState
<1>3. CASE flush' = [flush EXCEPT ![r].pc = "lost"]
    BY <1>3, FlushPcType
<1> QED BY <1>2, <1>3 DEF Retry

-----------------------------------------------------------------------------
(* The inductive invariant, of a request q whose payment is p, with settle *)
(* counts s, flush timer f and /response jobs j.                           *)

(* /request settles payments of one-phase rules and those that cannot be   *)
(* verified apart, once the request has left access.lua.                   *)
RequestPhase(q, s) ==
    s.request > 0 =>
       /\ q.pc \notin {"idle", "access"}
       /\ q.rule = "onePhase" \/ (q.rule = "twoPhase" /\ q.cred = "mpp")

(* /response settles the others, after the upstream has answered.          *)
ResponsePhase(q, s, j) ==
    (s.response > 0 \/ \E n \in Attempts : j[n] = "settling") =>
       /\ q.pc = "done" /\ q.paid
       /\ q.rule \in {"twoPhase", "zeroAuth"}
       /\ q.cred \in {"x402", "mppVerify"}

(* What passes access.lua is verified or settled, and settled when it      *)
(* cannot be verified apart.                                               *)
Passed(q) == q.pc = "allow" \/ q.paid

Authorized(q, p, s) ==
    Passed(q) => /\ q.rule \in {"onePhase", "twoPhase"} => p # "new"
                 /\ q.rule = "twoPhase" /\ q.cred = "mpp" => s.request > 0

(* Captures are flushed, and POSTs handled, after the request is over.     *)
Flow(q, f, j) ==
    /\ q.pc \in {"upstream", "log"} => q.paid
    /\ q.paid => q.pc \in {"upstream", "log", "done"}
    /\ f.pc \in {"timer", "posting"} => q.pc = "done" /\ q.paid
    /\ \A n \in Attempts : j[n] # "none" => q.pc = "done" /\ q.paid

(* /response answers 2xx when nothing is owed or the payment is settled.   *)
Billed(q, p, s, j) ==
    \A n \in Attempts :
       j[n] = "2xx" /\ q.rule = "twoPhase" /\ q.owed /\ s.request = 0
          => p = "settled"

Matched(q) == q.rule \in Rules \cup {"free"}

RequestInv(q, p, s, f, j) ==
    /\ RequestPhase(q, s) /\ ResponsePhase(q, s, j)
    /\ Authorized(q, p, s) /\ Flow(q, f, j)
    /\ Billed(q, p, s, j) /\ Matched(q)

RInv(r) == RequestInv(req[r], pay[r], settles[r], flush[r], job[r])

GatewayInv == Types /\ \A r \in Requests : RInv(r)

(* The invariant holds when nginx starts.                                  *)
LEMMA InvStart == Init => GatewayInv
<1> SUFFICES ASSUME Init PROVE GatewayInv
    OBVIOUS
<1>1. Types
    BY TypesStart
<1>2. ASSUME NEW r \in Requests PROVE RInv(r)
  <2>1. /\ req[r] = NewRequest /\ settles[r].request = 0
        /\ settles[r].response = 0 /\ flush[r].pc = "none"
        /\ \A n \in Attempts : job[r][n] = "none"
      BY DEF Init
  <2> QED BY <2>1 DEF NewRequest, RInv, RequestInv, RequestPhase,
                ResponsePhase, Authorized, Passed, Flow, Billed, Matched
<1> QED BY <1>1, <1>2 DEF GatewayInv

(* What a step on request r leaves alone.                                  *)
OthersUnchanged(r) ==
    \A o \in Requests \ {r} :
       /\ req'[o] = req[o] /\ pay'[o] = pay[o] /\ settles'[o] = settles[o]
       /\ flush'[o] = flush[o] /\ job'[o] = job[o]

(* A step of one request has to keep that request's invariant only.        *)
LEMMA LocalStep ==
    ASSUME GatewayInv, NEW r \in Requests, OthersUnchanged(r), Types',
           RInv(r)'
    PROVE  GatewayInv'
<1>1. ASSUME NEW o \in Requests \ {r} PROVE RInv(o)'
    BY DEF GatewayInv, OthersUnchanged, RInv
<1> QED BY <1>1 DEF GatewayInv

(* The facts about one request that every case below starts from.          *)
LEMMA Facts ==
    ASSUME GatewayInv, NEW r \in Requests
    PROVE  /\ req[r] \in Request /\ flush[r] \in FlushState
           /\ settles[r] \in [request : Nat, response : Nat]
           /\ job[r] \in [Attempts -> JobStatus]
           /\ RInv(r)
    BY DEF GatewayInv, Types

(* A step that moves the request without changing what it is.              *)
LEMMA MoveStep ==
    ASSUME GatewayInv, NEW r \in Requests, NEW pc \in RequestPc, Goto(r, pc),
           UNCHANGED <<pay, settles, job, flush, buf>>,
           pc # "allow", ~req[r].paid, req[r].pc \notin {"upstream", "log"},
           pc \notin {"idle", "access", "upstream", "log"}
    PROVE  GatewayInv'
<1>1. /\ req' \in [Requests -> Request] /\ req'[r].pc = pc
      /\ req'[r].rule = req[r].rule /\ req'[r].cred = req[r].cred
      /\ req'[r].owed = req[r].owed /\ req'[r].paid = req[r].paid
    BY GotoType DEF GatewayInv
<1>2. Types' /\ OthersUnchanged(r)
    BY <1>1 DEF GatewayInv, Types, OthersUnchanged, Goto
<1>3. RInv(r)
    BY Facts
<1>4. RInv(r)'
    BY <1>1, <1>3
    DEF RInv, RequestInv, RequestPhase, ResponsePhase, Authorized, Passed,
        Flow, Billed, Matched
<1> QED BY <1>2, <1>4, LocalStep

(* The access phase keeps the invariant.                                   *)
LEMMA AccessStep ==
    ASSUME GatewayInv, NEW r \in Requests,
           PassThrough(r) \/ Arrive(r) \/ AccessReply(r) \/ BadGateway(r)
    PROVE  GatewayInv'
<1>0. /\ req[r] \in Request /\ RInv(r)
      /\ flush[r] \in FlushState /\ job[r] \in [Attempts -> JobStatus]
    BY Facts
<1>1. CASE PassThrough(r)
  <2>1. Goto(r, "done") /\ req[r].pc = "idle" /\ ~req[r].paid
      BY <1>0, <1>1 DEF PassThrough, Goto, RInv, RequestInv, Flow
  <2> QED BY <1>1, <2>1, MoveStep
          DEF PassThrough, payVars, bufVars, RequestPc
<1>2. CASE BadGateway(r)
  <2>1. Goto(r, "rejected") /\ ~req[r].paid
      BY <1>0, <1>2 DEF BadGateway, RInv, RequestInv, Flow
  <2> QED BY <1>2, <2>1, MoveStep
          DEF BadGateway, payVars, bufVars, RequestPc
<1>3. CASE Arrive(r)
  <2>1. PICK rule \in Rules, cred \in {"none", "x402", "mpp", "mppVerify"},
             ws \in BOOLEAN, big \in BOOLEAN, owed \in BOOLEAN,
             faulty \in BOOLEAN :
                req' = [req EXCEPT ![r] =
                          [pc |-> "access", rule |-> rule, cred |-> cred,
                           ws |-> ws, big |-> big, owed |-> owed,
                           paid |-> FALSE, faulty |-> faulty]]
      BY <1>3 DEF Arrive
  <2>2. [pc |-> "access", rule |-> rule, cred |-> cred, ws |-> ws,
         big |-> big, owed |-> owed, paid |-> FALSE,
         faulty |-> faulty] \in Request
      BY GatewayConstants DEF Request
  <2>3. Types' /\ OthersUnchanged(r)
      BY <1>3, <2>1, <2>2
      DEF GatewayInv, Types, OthersUnchanged, Arrive, payVars, bufVars
  <2>4. /\ req'[r].pc = "access" /\ req'[r].rule = rule
        /\ req'[r].paid = FALSE
      BY <2>1 DEF GatewayInv, Types
  <2>5. req[r].pc = "idle" /\ UNCHANGED <<pay, settles, flush, job>>
      BY <1>3 DEF Arrive, payVars, bufVars
  <2>6. /\ ~(settles[r].request > 0) /\ ~(settles[r].response > 0)
        /\ flush[r].pc \notin {"timer", "posting"}
        /\ \A n \in Attempts : job[r][n] = "none"
      BY <1>0, <2>5 DEF RInv, RequestInv, RequestPhase, ResponsePhase, Flow
  <2>7. RInv(r)'
      BY <2>4, <2>5, <2>6
      DEF RInv, RequestInv, RequestPhase, ResponsePhase, Authorized, Passed,
          Flow, Billed, Matched
  <2> QED BY <2>3, <2>7, LocalStep
<1>4. CASE AccessReply(r)
  <2>1. CASE req[r].pc = "deny" /\ Goto(r, "rejected")
    <3>1. ~req[r].paid
        BY <1>0, <2>1 DEF RInv, RequestInv, Flow
    <3> QED BY <1>4, <2>1, <3>1, MoveStep
            DEF AccessReply, payVars, bufVars, RequestPc
  <2>2. CASE /\ req[r].pc = "allow"
             /\ req' = [req EXCEPT ![r].pc = "upstream", ![r].paid = TRUE]
    <3>1. req'[r] = [req[r] EXCEPT !.pc = "upstream", !.paid = TRUE]
        BY <2>2 DEF GatewayInv, Types
    <3>2. /\ req'[r] \in Request /\ req'[r].pc = "upstream" /\ req'[r].paid
          /\ req'[r].rule = req[r].rule /\ req'[r].cred = req[r].cred
          /\ req'[r].owed = req[r].owed
        BY <1>0, <3>1 DEF Request
    <3>3. Types' /\ OthersUnchanged(r)
        BY <1>4, <2>2, <3>2
        DEF GatewayInv, Types, OthersUnchanged, AccessReply, payVars, bufVars
    <3>4. UNCHANGED <<pay, settles, flush, job>>
        BY <1>4 DEF AccessReply, payVars, bufVars
    <3>5. RInv(r)'
        BY <1>0, <2>2, <3>2, <3>4
        DEF RInv, RequestInv, RequestPhase, ResponsePhase, Authorized,
            Passed, Flow, Billed, Matched
    <3> QED BY <3>3, <3>5, LocalStep
  <2> QED BY <1>4, <2>1, <2>2 DEF AccessReply
<1> QED BY <1>1, <1>2, <1>3, <1>4

(* handleRequest(): the counts and the payment change with the verdict.    *)
LEMMA HandleRequestStep ==
    ASSUME GatewayInv, NEW r \in Requests, HandleRequest(r)
    PROVE  GatewayInv'
<1>0. /\ req[r] \in Request /\ RInv(r) /\ req[r].pc = "access"
      /\ settles[r] \in [request : Nat, response : Nat]
      /\ flush[r] \in FlushState /\ job[r] \in [Attempts -> JobStatus]
      /\ UNCHANGED <<flush, job, buf>> /\ ~req[r].paid
  <2>1. req[r].pc = "access" /\ UNCHANGED <<flush, job, buf>>
      BY DEF HandleRequest, bufVars
  <2> QED BY <2>1, Facts DEF RInv, RequestInv, Flow
<1>1. /\ flush[r].pc \notin {"timer", "posting"}
      /\ \A n \in Attempts : job[r][n] = "none"
      /\ settles[r].request = 0 /\ settles[r].response = 0
    BY <1>0 DEF RInv, RequestInv, RequestPhase, ResponsePhase, Flow
<1>2. CASE Goto(r, "deny") /\ UNCHANGED <<pay, settles>>
    BY <1>0, <1>2, MoveStep DEF RequestPc
<1>3. CASE /\ req[r].rule \notin {"onePhase", "twoPhase"}
           /\ Goto(r, "allow") /\ UNCHANGED <<pay, settles>>
  <2>1. /\ req' \in [Requests -> Request] /\ req'[r].pc = "allow"
        /\ req'[r].rule = req[r].rule /\ req'[r].paid = req[r].paid
      BY <1>3, GotoType DEF GatewayInv, RequestPc
  <2>2. Types' /\ OthersUnchanged(r)
      BY <1>0, <1>3, <2>1 DEF GatewayInv, Types, OthersUnchanged, Goto
  <2>3. RInv(r)'
      BY <1>0, <1>1, <1>3, <2>1
      DEF RInv, RequestInv, RequestPhase, ResponsePhase, Authorized, Passed,
          Flow, Billed, Matched
  <2> QED BY <2>2, <2>3, LocalStep
<1>4. CASE /\ req[r].rule = "twoPhase" /\ CanVerify(r)
           /\ pay' = [pay EXCEPT ![r] = "verified"] /\ Goto(r, "allow")
           /\ UNCHANGED settles
  <2>1. /\ req' \in [Requests -> Request] /\ req'[r].pc = "allow"
        /\ req'[r].rule = req[r].rule /\ req'[r].paid = req[r].paid
        /\ req'[r].cred = req[r].cred /\ pay'[r] = "verified"
      BY <1>4, GotoType DEF GatewayInv, RequestPc, Types
  <2>2. Types' /\ OthersUnchanged(r)
      BY <1>0, <1>4, <2>1 DEF GatewayInv, Types, OthersUnchanged, Goto
  <2>3. RInv(r)'
      BY <1>0, <1>1, <1>4, <2>1
      DEF CanVerify, RInv, RequestInv, RequestPhase, ResponsePhase,
          Authorized, Passed, Flow, Billed, Matched
  <2> QED BY <2>2, <2>3, LocalStep
<1>5. CASE /\ req[r].rule \in {"onePhase", "twoPhase"}
           /\ req[r].cred # "none"
           /\ ~(req[r].rule = "twoPhase" /\ CanVerify(r))
           /\ SettleAtRequest(r)
           /\ settles' = [settles EXCEPT ![r].request = @ + 1]
  <2>1. PICK pc \in {"allow", "deny"} :
             /\ Goto(r, pc)
             /\ pc = "allow" => pay' = [pay EXCEPT ![r] = "settled"]
             /\ pc = "deny" => UNCHANGED pay
      BY <1>5 DEF SettleAtRequest
  <2>2. /\ req' \in [Requests -> Request] /\ req'[r].pc = pc
        /\ req'[r].rule = req[r].rule /\ req'[r].paid = req[r].paid
        /\ req'[r].cred = req[r].cred
      BY <2>1, GotoType DEF GatewayInv, RequestPc
  <2>3. pay' \in [Requests -> {"new", "verified", "settled"}]
      BY <2>1 DEF GatewayInv, Types
  <2>4. settles'[r] = [settles[r] EXCEPT !.request = settles[r].request + 1]
      BY <1>5 DEF GatewayInv, Types
  <2>5. /\ settles'[r] \in [request : Nat, response : Nat]
        /\ settles'[r].request > 0 /\ settles'[r].response = 0
      BY <1>0, <1>1, <2>4
  <2>6. settles' \in [Requests -> [request : Nat, response : Nat]]
      BY <1>5, <2>5 DEF GatewayInv, Types
  <2>7. Types' /\ OthersUnchanged(r)
      BY <1>0, <1>5, <2>1, <2>2, <2>3, <2>6
      DEF GatewayInv, Types, OthersUnchanged, Goto, payVars
  <2>8. req[r].cred \in {"x402", "mpp", "mppVerify"}
      BY <1>0, <1>5 DEF Request
  <2>9. /\ pc = "allow" => pay'[r] = "settled"
        /\ req[r].rule = "onePhase" \/ req[r].cred = "mpp"
      BY <1>5, <2>1, <2>8 DEF CanVerify, GatewayInv, Types
  <2>10. RInv(r)'
      BY <1>0, <1>1, <1>5, <2>2, <2>5, <2>9
      DEF RInv, RequestInv, RequestPhase, ResponsePhase, Authorized, Passed,
          Flow, Billed, Matched
  <2> QED BY <2>7, <2>10, LocalStep
<1> QED BY <1>2, <1>3, <1>4, <1>5 DEF HandleRequest, Verify, payVars

(* The response is over: a capture and its timer, or neither.              *)
LEMMA CaptureStep ==
    ASSUME GatewayInv, NEW r \in Requests, UpstreamDone(r) \/ LogPhase(r)
    PROVE  GatewayInv'
<1>0. /\ req[r] \in Request /\ RInv(r) /\ req[r].pc \in {"upstream", "log"}
      /\ req[r].paid /\ UNCHANGED <<pay, settles, job>>
  <2>1. /\ req[r].pc \in {"upstream", "log"}
        /\ UNCHANGED <<pay, settles, job>>
      BY DEF UpstreamDone, LogPhase, payVars
  <2> QED BY <2>1, Facts DEF RInv, RequestInv, Flow
<1>1. /\ flush[r].pc \notin {"timer", "posting"}
      /\ \A n \in Attempts : job[r][n] = "none"
    BY <1>0, Facts DEF RInv, RequestInv, Flow
<1>2. PICK pc \in {"log", "done"} :
           /\ Goto(r, pc)
           /\ \/ \E body \in {"full", "empty"} :
                    WriteCapture(r, body) /\ pc = "done"
              \/ WriteFails(r)
              \/ UNCHANGED <<flush, buf>>
    BY DEF UpstreamDone, LogPhase, Captured, bufVars
<1>3. /\ req' \in [Requests -> Request] /\ req'[r].pc = pc
      /\ req'[r].rule = req[r].rule /\ req'[r].cred = req[r].cred
      /\ req'[r].owed = req[r].owed /\ req'[r].paid = req[r].paid
    BY <1>2, GotoType DEF GatewayInv, RequestPc
<1>4. /\ flush' \in [Requests -> FlushState]
      /\ buf' \in [Requests -> {"absent", "full", "empty"}]
    BY <1>2, WriteType DEF GatewayInv, Types
<1>5. Types' /\ OthersUnchanged(r)
    BY <1>0, <1>2, <1>3, <1>4
    DEF GatewayInv, Types, OthersUnchanged, Goto, WriteCapture, WriteFails
<1>6. flush'[r].pc \in {"timer", "posting"} => pc = "done"
  <2>1. CASE WriteFails(r)
      BY <2>1, FlushPcType DEF WriteFails, GatewayInv
  <2> QED BY <1>1, <1>2, <2>1
<1>7. RInv(r)'
    BY <1>0, <1>1, <1>2, <1>3, <1>6
    DEF RInv, RequestInv, RequestPhase, ResponsePhase, Authorized, Passed,
        Flow, Billed, Matched
<1> QED BY <1>5, <1>7, LocalStep

(* A step of the timer that starts no job.                                 *)
LEMMA TimerStep ==
    ASSUME GatewayInv, NEW r \in Requests, UNCHANGED <<req, pay, settles>>,
           flush' \in [Requests -> FlushState],
           buf' \in [Requests -> {"absent", "full", "empty"}],
           \A o \in Requests \ {r} : flush'[o] = flush[o] /\ job'[o] = job[o],
           job' \in [Requests -> [Attempts -> JobStatus]],
           \A n \in Attempts : job'[r][n] \in {job[r][n], "none"},
           flush'[r] = flush[r] \/ flush[r].pc \in {"timer", "posting"}
    PROVE  GatewayInv'
<1>1. Types' /\ OthersUnchanged(r)
    BY DEF GatewayInv, Types, OthersUnchanged
<1>2. RInv(r)'
    BY Facts DEF RInv, RequestInv, RequestPhase, ResponsePhase, Authorized,
        Passed, Flow, Billed, Matched
<1> QED BY <1>1, <1>2, LocalStep

(* A timer and the outcomes of its POST keep the invariant.                *)
LEMMA FlushStep ==
    ASSUME GatewayInv, NEW r \in Requests,
           \/ FlushCapture(r) \/ PrematureTimer(r) \/ PostReply(r)
           \/ PostFails(r) \/ Expire(r)
    PROVE  GatewayInv'
<1>0. /\ Types /\ flush \in [Requests -> FlushState]
      /\ job \in [Requests -> [Attempts -> JobStatus]]
      /\ flush[r].n \in Attempts
      /\ buf' \in [Requests -> {"absent", "full", "empty"}]
    BY Facts DEF GatewayInv, Types, FlushState, FlushCapture, PrematureTimer,
                 PostReply, PostFails, Expire
<1>1. CASE Expire(r)
    BY <1>0, <1>1, TimerStep DEF Expire, payVars
<1>2. CASE PrematureTimer(r)
  <2>1. flush' \in [Requests -> FlushState]
      BY <1>0, <1>2, FlushPcType DEF PrematureTimer
  <2> QED BY <1>0, <1>2, <2>1, TimerStep DEF PrematureTimer, payVars
<1>3. CASE PostReply(r)
  <2>1. flush' \in [Requests -> FlushState]
      BY <1>0, <1>3, FlushPcType, RetryType DEF PostReply
  <2>2. \A o \in Requests \ {r} : flush'[o] = flush[o]
      BY <1>0, <1>3 DEF PostReply, Retry
  <2> QED BY <1>0, <1>3, <2>1, <2>2, TimerStep DEF PostReply, payVars
<1>4. CASE PostFails(r)
  <2>1. flush' \in [Requests -> FlushState]
      BY <1>0, <1>4, RetryType DEF PostFails
  <2>2. \A o \in Requests \ {r} : flush'[o] = flush[o] /\ job'[o] = job[o]
      BY <1>0, <1>4 DEF PostFails, Retry
  <2>3. /\ job' \in [Requests -> [Attempts -> JobStatus]]
        /\ \A n \in Attempts : job'[r][n] \in {job[r][n], "none"}
      BY <1>0, <1>4 DEF PostFails, JobStatus
  <2> QED BY <1>0, <1>4, <2>1, <2>2, <2>3, TimerStep DEF PostFails, payVars
<1>5. CASE FlushCapture(r)
  <2>1. flush' \in [Requests -> FlushState]
      BY <1>0, <1>5, FlushPcType DEF FlushCapture
  <2>2. CASE UNCHANGED job
      BY <1>0, <1>5, <2>1, <2>2, TimerStep DEF FlushCapture, payVars
  <2>3. CASE /\ buf[r] # "absent"
             /\ job' = [job EXCEPT ![r][flush[r].n] = buf[r]]
    <3>1. CASE buf[r] \in {"full", "empty"}
      <4>1. /\ job' \in [Requests -> [Attempts -> JobStatus]]
            /\ \A n \in Attempts : job'[r][n] \in {job[r][n], "full", "empty"}
            /\ \A o \in Requests \ {r} : job'[o] = job[o]
          BY <1>0, <2>3, <3>1 DEF JobStatus
      <4>2. Types' /\ OthersUnchanged(r)
          BY <1>0, <1>5, <2>1, <4>1
          DEF Types, OthersUnchanged, FlushCapture, payVars
      <4>3. flush[r].pc = "timer" /\ UNCHANGED <<req, pay, settles>>
          BY <1>5 DEF FlushCapture, payVars
      <4>4. RInv(r)'
          BY <4>1, <4>3, Facts
          DEF RInv, RequestInv, RequestPhase, ResponsePhase, Authorized,
              Passed, Flow, Billed, Matched
      <4> QED BY <4>2, <4>4, LocalStep
    <3> QED BY <1>0, <2>3, <3>1 DEF Types
  <2> QED BY <1>5, <2>2, <2>3 DEF FlushCapture
<1> QED BY <1>1, <1>2, <1>3, <1>4, <1>5

(* handleResponse() up to settle().                                        *)
LEMMA EvalResponseStep ==
    ASSUME GatewayInv, NEW r \in Requests, NEW n \in Attempts,
           EvalResponse(r, n)
    PROVE  GatewayInv'
<1>0. /\ Types /\ RInv(r) /\ req[r] \in Request
      /\ UNCHANGED <<req, pay, settles, flush, buf>>
      /\ job[r][n] \in {"full", "empty"}
    BY Facts DEF GatewayInv, EvalResponse, payVars, bufVars, Evaluating
<1>1. /\ req[r].pc = "done" /\ req[r].paid
    BY <1>0 DEF RInv, RequestInv, Flow
<1>2. PICK status \in {"2xx", "error", "settling"} :
           /\ Answer(r, n, status)
           /\ status = "settling" =>
                 /\ req[r].rule \notin {"free", "onePhase"}
                 /\ req[r].cred \notin {"none", "mpp"}
           /\ status = "2xx" =>
                 \/ req[r].rule \in {"free", "onePhase"}
                 \/ ~req[r].owed
                 \/ req[r].cred = "mpp"
    BY DEF EvalResponse
<1>3. /\ job' \in [Requests -> [Attempts -> JobStatus]]
      /\ job'[r][n] = status
      /\ \A m \in Attempts : m # n => job'[r][m] = job[r][m]
    BY <1>0, <1>2, AnswerType DEF JobStatus
<1>4. Types' /\ OthersUnchanged(r)
    BY <1>0, <1>2, <1>3 DEF Types, OthersUnchanged, Answer
<1>5. status = "settling" => /\ req[r].rule \in {"twoPhase", "zeroAuth"}
                             /\ req[r].cred \in {"x402", "mppVerify"}
    BY <1>0, <1>2 DEF Request, AllRules
<1>6. status = "2xx" /\ req[r].rule = "twoPhase" /\ req[r].owed
        => settles[r].request > 0
    BY <1>0, <1>1, <1>2 DEF RInv, RequestInv, Authorized, Passed
<1>7. /\ RequestPhase(req'[r], settles'[r])
      /\ Authorized(req'[r], pay'[r], settles'[r])
      /\ Matched(req'[r])
    BY <1>0 DEF RInv, RequestInv
<1>8. ResponsePhase(req'[r], settles'[r], job'[r])
    BY <1>0, <1>1, <1>3, <1>5 DEF RInv, RequestInv, ResponsePhase
<1>9. Flow(req'[r], flush'[r], job'[r])
    BY <1>0, <1>1, <1>3 DEF RInv, RequestInv, Flow
<1>10. Billed(req'[r], pay'[r], settles'[r], job'[r])
  <2>1. settles[r].request \in Nat
      BY <1>0 DEF Types
  <2> QED BY <1>0, <1>3, <1>6, <2>1 DEF RInv, RequestInv, Billed
<1> QED BY <1>4, <1>7, <1>8, <1>9, <1>10, LocalStep DEF RInv, RequestInv

(* settle() at /response.                                                  *)
LEMMA SettleResponseStep ==
    ASSUME GatewayInv, NEW r \in Requests, NEW n \in Attempts,
           SettleResponse(r, n)
    PROVE  GatewayInv'
<1>0. /\ Types /\ RInv(r) /\ UNCHANGED <<req, flush, buf>>
      /\ job[r][n] = "settling"
      /\ settles[r] \in [request : Nat, response : Nat]
    BY Facts DEF GatewayInv, SettleResponse, bufVars
<1>1. /\ req[r].pc = "done" /\ req[r].paid
      /\ req[r].rule \in {"twoPhase", "zeroAuth"}
      /\ req[r].cred \in {"x402", "mppVerify"}
    BY <1>0 DEF RInv, RequestInv, ResponsePhase
<1>2. PICK status \in {"2xx", "error"} :
           /\ Answer(r, n, status)
           /\ \/ pay' = [pay EXCEPT ![r] = "settled"]
              \/ status = "error" /\ UNCHANGED pay
    BY DEF SettleResponse
<1>3. /\ job' \in [Requests -> [Attempts -> JobStatus]]
      /\ job'[r][n] = status
      /\ \A m \in Attempts : m # n => job'[r][m] = job[r][m]
    BY <1>0, <1>2, AnswerType DEF JobStatus
<1>4. /\ settles' = [settles EXCEPT ![r].response = settles[r].response + 1]
      /\ settles'[r] = [settles[r] EXCEPT !.response = settles[r].response + 1]
    BY <1>0 DEF SettleResponse, Types
<1>5. /\ settles'[r] \in [request : Nat, response : Nat]
      /\ settles'[r].request = settles[r].request
    BY <1>0, <1>4
<1>6. /\ pay' \in [Requests -> {"new", "verified", "settled"}]
      /\ pay'[r] = "settled" \/ (status = "error" /\ pay'[r] = pay[r])
    BY <1>0, <1>2 DEF Types
<1>7. Types' /\ OthersUnchanged(r)
    BY <1>0, <1>2, <1>3, <1>4, <1>5, <1>6 DEF Types, OthersUnchanged, Answer
<1>8. /\ RequestPhase(req'[r], settles'[r]) /\ Matched(req'[r])
    BY <1>0, <1>5 DEF RInv, RequestInv, RequestPhase
<1>9. Authorized(req'[r], pay'[r], settles'[r])
    BY <1>0, <1>5, <1>6 DEF RInv, RequestInv, Authorized
<1>10. ResponsePhase(req'[r], settles'[r], job'[r])
    BY <1>0, <1>1 DEF ResponsePhase
<1>11. Flow(req'[r], flush'[r], job'[r])
    BY <1>0, <1>1, <1>3 DEF RInv, RequestInv, Flow
<1>12. Billed(req'[r], pay'[r], settles'[r], job'[r])
    BY <1>0, <1>3, <1>5, <1>6 DEF RInv, RequestInv, Billed
<1> QED BY <1>7, <1>8, <1>9, <1>10, <1>11, <1>12, LocalStep
        DEF RInv, RequestInv

(* Every step keeps the invariant: one lemma for each phase.               *)
LEMMA InvStep == GatewayInv /\ [Next]_vars => GatewayInv'
<1> SUFFICES ASSUME GatewayInv, [Next]_vars PROVE GatewayInv'
    OBVIOUS
<1>1. CASE UNCHANGED vars
    BY <1>1 DEF vars, GatewayInv, Types, RInv
<1>2. ASSUME NEW r \in Requests,
             PassThrough(r) \/ Arrive(r) \/ Nginx(r) \/ Sidecar(r) \/ Faults(r)
      PROVE  GatewayInv'
  <2>1. CASE PassThrough(r) \/ Arrive(r) \/ AccessReply(r) \/ BadGateway(r)
      BY <2>1, AccessStep
  <2>2. CASE HandleRequest(r)
      BY <2>2, HandleRequestStep
  <2>3. CASE UpstreamDone(r) \/ LogPhase(r)
      BY <2>3, CaptureStep
  <2>4. CASE \/ FlushCapture(r) \/ PrematureTimer(r) \/ PostReply(r)
             \/ PostFails(r) \/ Expire(r)
      BY <2>4, FlushStep
  <2>5. CASE \E n \in Attempts : EvalResponse(r, n) \/ SettleResponse(r, n)
      BY <2>5, EvalResponseStep, SettleResponseStep
  <2> QED BY <1>2, <2>1, <2>2, <2>3, <2>4, <2>5 DEF Nginx, Sidecar, Faults
<1> QED BY <1>1, <1>2 DEF Next

(* access.lua lets a priced request through to the upstream only when      *)
(* handleRequest() has verified or settled its payment.                    *)
THEOREM ServesAuthorized == Spec => []ServedOnlyIfAuthorized
<1>1. GatewayInv => ServedOnlyIfAuthorized
    BY DEF GatewayInv, RInv, RequestInv, Authorized, Passed,
           ServedOnlyIfAuthorized
<1> QED BY <1>1, InvStart, InvStep, PTL DEF Spec

(* No payment is settled both at /request and at /response, however often  *)
(* the POST to /response is repeated or handled late.                      *)
THEOREM SettlesInOnePhase == Spec => []SettledInOnePhase
<1>1. GatewayInv => SettledInOnePhase
  <2> SUFFICES ASSUME GatewayInv, NEW r \in Requests
               PROVE  settles[r].request = 0 \/ settles[r].response = 0
      BY DEF SettledInOnePhase
  <2>1. settles[r].request \in Nat /\ settles[r].response \in Nat
      BY Facts
  <2> QED BY <2>1 DEF GatewayInv, RInv, RequestInv, RequestPhase,
                      ResponsePhase
<1> QED BY <1>1, InvStart, InvStep, PTL DEF Spec

(* Only a 2xx answer ends the flush of a capture that is being posted.     *)
LEMMA EndsByReply ==
    ASSUME GatewayInv, [Next]_vars, NEW r \in Requests,
           flush[r].pc = "posting", flush'[r].pc = "none"
    PROVE  job[r][flush[r].n] = "2xx"
<1>0. flush \in [Requests -> FlushState]
    BY DEF GatewayInv, Types
<1>1. ASSUME NEW o \in Requests, NEW pc \in {"timer", "posting", "lost"},
             flush' = [flush EXCEPT ![o].pc = pc]
      PROVE  FALSE
  <2>1. CASE o = r
      BY <1>1, <2>1, FlushPcType DEF GatewayInv
  <2>2. CASE o # r
      BY <1>0, <1>1, <2>2
  <2> QED BY <2>1, <2>2
<1>2. ASSUME NEW o \in Requests, NEW n \in Nat,
             flush' = [flush EXCEPT ![o] = [pc |-> "timer", n |-> n]]
      PROVE  FALSE
    BY <1>0, <1>2
<1>3. flush' # flush
    OBVIOUS
<1>4. ASSUME NEW o \in Requests, Retry(o) PROVE FALSE
  <2>1. flush[o].n + 1 \in Nat
      BY <1>0, GatewayConstants DEF FlushState, Attempts
  <2> QED BY <1>1, <1>2, <1>4, <2>1 DEF Retry
<1>5. ASSUME NEW o \in Requests, NEW body,
             WriteCapture(o, body) \/ WriteFails(o)
      PROVE  FALSE
    BY <1>1, <1>2, <1>5 DEF WriteCapture, WriteFails
<1>6. PICK o \in Requests :
           PassThrough(o) \/ Arrive(o) \/ Nginx(o) \/ Sidecar(o) \/ Faults(o)
    BY <1>3 DEF Next, vars
<1>7. ~UpstreamDone(o) /\ ~LogPhase(o)
    BY <1>3, <1>5 DEF UpstreamDone, LogPhase, bufVars
<1>8. ~FlushCapture(o) /\ ~PrematureTimer(o)
    BY <1>1 DEF FlushCapture, PrematureTimer
<1>9. ~PostFails(o)
    BY <1>4 DEF PostFails
<1>10. PostReply(o)
    BY <1>3, <1>6, <1>7, <1>8, <1>9
    DEF PassThrough, Arrive, Nginx, Sidecar, Faults, AccessReply,
        HandleRequest, EvalResponse, SettleResponse, BadGateway, Expire,
        bufVars
<1>11. /\ job[o][flush[o].n] = "2xx"
       /\ flush' = [flush EXCEPT ![o].pc = "none"]
    BY <1>4, <1>10 DEF PostReply
<1>12. o = r
    BY <1>0, <1>11
<1> QED BY <1>11, <1>12

(* When no matched rule authorizes at zero, flush_capture() deletes a      *)
(* capture on a 2xx answer only when what it bills is settled.             *)
THEOREM BillsAreSettled ==
    ASSUME "zeroAuth" \notin Rules
    PROVE  Spec => BillDeletedOnlyWhenSettled
<1>1. GatewayInv /\ [Next]_vars =>
         \A r \in Requests :
            flush[r].pc = "posting" /\ flush'[r].pc = "none" /\ Owes(r)
               => pay[r] = "settled"
  <2> SUFFICES ASSUME GatewayInv, [Next]_vars, NEW r \in Requests,
                      flush[r].pc = "posting", flush'[r].pc = "none", Owes(r)
               PROVE  pay[r] = "settled"
      OBVIOUS
  <2>1. RInv(r) /\ flush[r].n \in Attempts
      BY Facts DEF FlushState
  <2>2. req[r].rule = "twoPhase" /\ req[r].owed /\ settles[r].request = 0
      BY <2>1 DEF Owes, RInv, RequestInv, Matched
  <2>3. job[r][flush[r].n] = "2xx"
      BY EndsByReply
  <2> QED BY <2>1, <2>2, <2>3 DEF RInv, RequestInv, Billed
<1> QED BY <1>1, InvStart, InvStep, PTL
    DEF Spec, BillDeletedOnlyWhenSettled

-----------------------------------------------------------------------------
(* The clock of the buffer and the reports. *)

Clocks == age \in [Requests -> Nat] /\ reports \in [Requests -> Nat]

(* Ages and attempts stay within what their timers allow.                  *)
LEMMA ClockStep == Clocks /\ GatewayInv /\ [Next]_vars => Clocks'
<1> SUFFICES ASSUME Clocks, GatewayInv, [Next]_vars PROVE Clocks'
    OBVIOUS
<1>1. CASE UNCHANGED <<age, reports>>
    BY <1>1 DEF Clocks
<1>2. ASSUME NEW r \in Requests, Report(r), UNCHANGED age PROVE Clocks'
    BY <1>2 DEF Clocks, Report
<1>3. ASSUME NEW r \in Requests, age' = [age EXCEPT ![r] = 0],
             UNCHANGED reports
      PROVE  Clocks'
    BY <1>3 DEF Clocks
<1>4. ASSUME NEW r \in Requests, Retry(r), UNCHANGED reports PROVE Clocks'
  <2>1. flush[r].n \in Attempts
      BY Facts DEF FlushState
  <2>2. Backoff(flush[r].n) \in Nat
      BY <2>1, RetriesFit
  <2> QED BY <1>4, <2>2, GatewayConstants DEF Clocks, Retry
<1>5. ASSUME NEW r \in Requests,
             PassThrough(r) \/ Arrive(r) \/ Nginx(r) \/ Sidecar(r) \/ Faults(r)
      PROVE  Clocks'
  <2>1. CASE \/ PassThrough(r) \/ Arrive(r) \/ AccessReply(r)
             \/ BadGateway(r) \/ FlushCapture(r) \/ PrematureTimer(r)
             \/ Expire(r) \/ \E n \in Attempts : EvalResponse(r, n)
      BY <1>1, <2>1
      DEF PassThrough, Arrive, AccessReply, BadGateway, FlushCapture,
          PrematureTimer, Expire, EvalResponse, payVars, bufVars
  <2>2. CASE HandleRequest(r)
      BY <1>1, <1>2, <2>2
      DEF HandleRequest, SettleAtRequest, payVars, bufVars
  <2>3. CASE UpstreamDone(r) \/ LogPhase(r)
      BY <1>1, <1>3, <2>3
      DEF UpstreamDone, LogPhase, WriteCapture, WriteFails, payVars, bufVars
  <2>4. CASE PostReply(r) \/ PostFails(r)
      BY <1>1, <1>4, <2>4 DEF PostReply, PostFails, payVars
  <2>5. CASE \E n \in Attempts : SettleResponse(r, n)
      BY <1>1, <1>2, <2>5 DEF SettleResponse, bufVars
  <2> QED BY <1>5, <2>1, <2>2, <2>3, <2>4, <2>5 DEF Nginx, Sidecar, Faults
<1> QED BY <1>1, <1>5 DEF Next, vars

(* Every phase of a request in nginx and in the sidecar keeps the state    *)
(* well typed: attempt numbers stay in range and histories only count.     *)
THEOREM GatewayTypes == Spec => []TypeOK
<1>1. Init => Clocks
    BY DEF Init, Clocks
<1>2. GatewayInv /\ Clocks => TypeOK
    BY DEF GatewayInv, Types, Clocks, TypeOK, FlushState, JobStatus
<1> QED BY <1>1, <1>2, InvStart, InvStep, ClockStep, PTL DEF Spec

-----------------------------------------------------------------------------
(* The retries of flush_capture(). *)

(* While attempts are left, the capture is in the buffer and as old as the *)
(* attempt's start tells, start being the times of RetriesFit.             *)
Kept(start, r) ==
    flush[r].pc \in {"timer", "posting"} =>
       buf[r] # "absent" /\ age[r] = start[flush[r].n]

AttemptStarts(start) ==
    /\ start \in [Attempts -> 0..(TTL - 1)]
    /\ start[1] = 0
    /\ \A n \in 1..(MaxAttempts - 1) :
          start[n + 1] = start[n] + AttemptTime + Backoff(n)

(* What a step on request r leaves alone of the buffer.                    *)
BufferElsewhere(r) ==
    \A o \in Requests \ {r} :
       flush'[o] = flush[o] /\ buf'[o] = buf[o] /\ age'[o] = age[o]

(* A retry comes when the schedule of the attempts says.                   *)
LEMMA RetryKeeps ==
    ASSUME NEW start, AttemptStarts(start), GatewayInv, Clocks,
           NEW r \in Requests, Kept(start, r), flush[r].pc = "posting",
           Retry(r), UNCHANGED buf
    PROVE  Kept(start, r)' /\ BufferElsewhere(r)
<1>1. /\ Types /\ flush[r].n \in Attempts
      /\ buf[r] # "absent" /\ age[r] = start[flush[r].n]
    BY Facts DEF FlushState, Kept, GatewayInv
<1>2. BufferElsewhere(r)
    BY <1>1 DEF BufferElsewhere, Retry, Types, Clocks
<1>3. CASE flush' = [flush EXCEPT ![r].pc = "lost"]
    BY <1>1, <1>2, <1>3, FlushPcType DEF Kept
<1>4. CASE /\ flush[r].n < MaxAttempts
           /\ flush' = [flush EXCEPT ![r] = [pc |-> "timer",
                                             n |-> flush[r].n + 1]]
  <2>1. flush[r].n \in 1..(MaxAttempts - 1)
      BY <1>1, <1>4, GatewayConstants DEF Attempts
  <2>2. start[flush[r].n + 1] = age[r] + AttemptTime + Backoff(flush[r].n)
      BY <1>1, <2>1 DEF AttemptStarts
  <2>3. age'[r] = age[r] + AttemptTime + Backoff(flush[r].n)
      BY DEF Retry, Clocks
  <2>4. flush'[r].n = flush[r].n + 1
      BY <1>1, <1>4 DEF Types
  <2> QED BY <1>1, <1>2, <2>2, <2>3, <2>4 DEF Kept
<1> QED BY <1>3, <1>4 DEF Retry

(* The first attempt comes when the capture is new.                        *)
LEMMA WriteKeeps ==
    ASSUME NEW start, AttemptStarts(start), GatewayInv, Clocks,
           NEW r \in Requests,
           \/ \E body \in {"full", "empty"} : WriteCapture(r, body)
           \/ WriteFails(r)
    PROVE  Kept(start, r)' /\ BufferElsewhere(r)
<1>1. Types
    BY DEF GatewayInv
<1>2. BufferElsewhere(r)
    BY <1>1 DEF BufferElsewhere, WriteCapture, WriteFails, Types, Clocks
<1>3. CASE flush' = [flush EXCEPT ![r].pc = "lost"]
    BY <1>1, <1>2, <1>3, FlushPcType DEF Kept
<1>4. CASE /\ \E body \in {"full", "empty"} : buf' = [buf EXCEPT ![r] = body]
           /\ age' = [age EXCEPT ![r] = 0]
           /\ flush' = [flush EXCEPT ![r] = [pc |-> "timer", n |-> 1]]
    BY <1>1, <1>2, <1>4 DEF Kept, AttemptStarts, Types, Clocks
<1> QED BY <1>3, <1>4 DEF WriteCapture, WriteFails

(* No step drops a capture that still has an attempt.                      *)
LEMMA KeptStep ==
    ASSUME NEW start, AttemptStarts(start), GatewayInv, Clocks,
           \A r \in Requests : Kept(start, r), [Next]_vars
    PROVE  \A r \in Requests : Kept(start, r)'
<1>1. Types
    BY DEF GatewayInv
<1>2. CASE UNCHANGED bufVars
    BY <1>2 DEF bufVars, Kept
<1>3. ASSUME NEW r \in Requests, Kept(start, r)', BufferElsewhere(r)
      PROVE  \A o \in Requests : Kept(start, o)'
    BY <1>3 DEF Kept, BufferElsewhere
<1>4. ASSUME NEW r \in Requests,
             PassThrough(r) \/ Arrive(r) \/ Nginx(r) \/ Sidecar(r) \/ Faults(r)
      PROVE  \A o \in Requests : Kept(start, o)'
  <2>1. CASE \/ PassThrough(r) \/ Arrive(r) \/ AccessReply(r)
             \/ BadGateway(r) \/ HandleRequest(r)
             \/ \E n \in Attempts : EvalResponse(r, n) \/ SettleResponse(r, n)
      BY <1>2, <2>1
      DEF PassThrough, Arrive, AccessReply, BadGateway, HandleRequest,
          EvalResponse, SettleResponse
  <2>2. CASE UpstreamDone(r) \/ LogPhase(r)
    <3>1. \/ UNCHANGED bufVars
          \/ \E body \in {"full", "empty"} : WriteCapture(r, body)
          \/ WriteFails(r)
        BY <2>2 DEF UpstreamDone, LogPhase, Captured
    <3> QED BY <1>2, <1>3, <3>1, WriteKeeps
  <2>3. CASE FlushCapture(r) \/ PrematureTimer(r)
    <3>1. PICK pc \in {"posting", "lost"} :
               /\ flush' = [flush EXCEPT ![r].pc = pc]
               /\ flush[r].pc = "timer" /\ UNCHANGED <<buf, age>>
        BY <2>3 DEF FlushCapture, PrematureTimer
    <3>2. flush'[r].pc = pc /\ flush'[r].n = flush[r].n
        BY <1>1, <3>1 DEF Types, FlushState
    <3>3. Kept(start, r)' /\ BufferElsewhere(r)
        BY <1>1, <3>1, <3>2 DEF Kept, BufferElsewhere, Types
    <3> QED BY <1>3, <3>3
  <2>4. CASE PostReply(r) \/ PostFails(r)
    <3>1. flush[r].pc = "posting" /\ Kept(start, r)
        BY <2>4 DEF PostReply, PostFails
    <3>2. CASE Retry(r) /\ UNCHANGED buf
        BY <1>3, <3>1, <3>2, RetryKeeps
    <3>3. CASE /\ flush' = [flush EXCEPT ![r].pc = "none"]
               /\ buf' = [buf EXCEPT ![r] = "absent"] /\ UNCHANGED age
      <4>1. Kept(start, r)'
          BY <1>1, <3>3, FlushPcType DEF Kept
      <4>2. BufferElsewhere(r)
          BY <1>1, <3>3 DEF BufferElsewhere, Types
      <4> QED BY <1>3, <4>1, <4>2
    <3> QED BY <2>4, <3>2, <3>3 DEF PostReply, PostFails
  <2>5. CASE Expire(r)
    <3>1. flush[r].pc \notin {"timer", "posting"}
      <4> SUFFICES ASSUME flush[r].pc \in {"timer", "posting"} PROVE FALSE
          OBVIOUS
      <4>1. age[r] = start[flush[r].n] /\ flush[r].n \in Attempts
          BY Facts DEF Kept, FlushState
      <4>2. age[r] \in 0..(TTL - 1) /\ age[r] >= TTL
          BY <2>5, <4>1 DEF AttemptStarts, Expire
      <4> QED BY <4>2, GatewayConstants
    <3>2. Kept(start, r)' /\ BufferElsewhere(r)
        BY <1>1, <2>5, <3>1 DEF Kept, BufferElsewhere, Expire, Types
    <3> QED BY <1>3, <3>2
  <2> QED BY <1>4, <2>1, <2>2, <2>3, <2>4, <2>5 DEF Nginx, Sidecar, Faults
<1> QED BY <1>2, <1>4 DEF Next, vars, bufVars

(* flush_capture() reads the capture it is to post at every attempt: the   *)
(* TTL cannot have dropped it, as long as the attempts' longest times and  *)
(* backoffs add up to less than the TTL.                                   *)
THEOREM CapturesAreKept == Spec => []KeptForEveryAttempt
<1>1. PICK start : AttemptStarts(start)
    BY RetriesFit DEF AttemptStarts
<1> DEFINE AllKept == \A r \in Requests : Kept(start, r)
<1>2. Init => Clocks /\ AllKept
    BY DEF Init, Clocks, Kept
<1>3. GatewayInv /\ Clocks /\ AllKept /\ [Next]_vars => AllKept'
    BY <1>1, KeptStep
<1>4. AllKept => KeptForEveryAttempt
    BY DEF Kept, KeptForEveryAttempt
<1> HIDE DEF AllKept
<1> QED BY <1>2, <1>3, <1>4, InvStart, InvStep, ClockStep, PTL DEF Spec

-----------------------------------------------------------------------------
(* The reports of onCapture(). *)

(* What /request settled is reported before the request passes access.lua; *)
(* what /response answers with a 2xx is settled at /request, reported or   *)
(* not owed.                                                               *)
Reported(r) ==
    /\ Passed(req[r]) /\ settles[r].request > 0 => reports[r] > 0
    /\ \A n \in Attempts : job[r][n] = "2xx" /\ Owes(r) => reports[r] > 0

(* No step settles a payment, or acknowledges a bill, without a report to  *)
(* onCapture.                                                              *)
LEMMA ReportedStep ==
    ASSUME "zeroAuth" \notin Rules, GatewayInv, Clocks,
           \A r \in Requests : Reported(r), [Next]_vars
    PROVE  \A r \in Requests : Reported(r)'
<1>1. Types
    BY DEF GatewayInv
<1>2. CASE UNCHANGED <<req, settles, reports, job>>
    BY <1>2 DEF Reported, Owes
<1>3. ASSUME NEW r \in Requests, Reported(r)', OthersUnchanged(r),
             \A o \in Requests \ {r} : reports'[o] = reports[o]
      PROVE  \A o \in Requests : Reported(o)'
    BY <1>3 DEF Reported, Owes, OthersUnchanged
<1>4. ASSUME NEW r \in Requests,
             PassThrough(r) \/ Arrive(r) \/ Nginx(r) \/ Sidecar(r) \/ Faults(r)
      PROVE  \A o \in Requests : Reported(o)'
  <2>0. /\ req[r] \in Request /\ RInv(r) /\ Reported(r)
        /\ settles[r] \in [request : Nat, response : Nat]
        /\ reports[r] \in Nat /\ flush[r].n \in Attempts
      BY Facts DEF Clocks, FlushState
  <2>1. CASE PassThrough(r) \/ Arrive(r) \/ BadGateway(r)
    <3>1. /\ ~req'[r].paid /\ req'[r].pc # "allow"
          /\ \A n \in Attempts : job[r][n] = "none"
          /\ UNCHANGED <<settles, reports, job, pay, flush>>
      <4>1. CASE Arrive(r)
          BY <1>1, <2>0, <4>1
          DEF Arrive, Types, RInv, RequestInv, Flow, payVars, bufVars
      <4>2. CASE PassThrough(r) \/ BadGateway(r)
        <5>1. PICK pc \in {"done", "rejected"} : Goto(r, pc)
            BY <4>2 DEF PassThrough, BadGateway, Goto
        <5>2. req[r].pc \in {"idle", "access", "allow", "deny"}
            BY <4>2 DEF PassThrough, BadGateway
        <5>3. /\ UNCHANGED <<settles, reports, job, pay, flush>>
              /\ ~req[r].paid /\ \A n \in Attempts : job[r][n] = "none"
            BY <2>0, <4>2, <5>2
            DEF PassThrough, BadGateway, payVars, bufVars, RInv, RequestInv,
                Flow
        <5> QED BY <1>1, <5>1, <5>3, GotoType DEF RequestPc
      <4> QED BY <2>1, <4>1, <4>2
    <3>2. Reported(r)'
        BY <3>1 DEF Reported, Passed
    <3>3. OthersUnchanged(r)
        BY <1>1, <2>1, <3>1
        DEF OthersUnchanged, Types, PassThrough, Arrive, BadGateway, Goto
    <3> QED BY <1>3, <3>1, <3>2, <3>3
  <2>2. CASE AccessReply(r)
    <3>1. /\ req'[r].rule = req[r].rule /\ req'[r].owed = req[r].owed
          /\ Passed(req[r])' => Passed(req[r])
          /\ \A o \in Requests \ {r} : req'[o] = req[o]
      <4>1. CASE req[r].pc = "allow"
          BY <1>1, <2>0, <2>2, <4>1 DEF AccessReply, Passed, Types, Request
      <4>2. CASE req[r].pc = "deny" /\ Goto(r, "rejected")
          BY <1>1, <2>0, <4>2, GotoType DEF RequestPc, Passed, Goto, Types
      <4> QED BY <2>2, <4>1, <4>2 DEF AccessReply
    <3>2. UNCHANGED <<settles, reports, job, pay, flush>>
        BY <2>2 DEF AccessReply, payVars, bufVars
    <3>3. Reported(r)' /\ OthersUnchanged(r)
        BY <2>0, <3>1, <3>2 DEF Reported, Owes, OthersUnchanged
    <3> QED BY <1>3, <3>2, <3>3
  <2>3. CASE UpstreamDone(r) \/ LogPhase(r)
    <3>1. PICK pc \in {"log", "done"} : Goto(r, pc)
        BY <2>3 DEF UpstreamDone, LogPhase
    <3>2. /\ UNCHANGED <<settles, reports, job, pay>> /\ req[r].paid
          /\ \A o \in Requests \ {r} : flush'[o] = flush[o]
        BY <1>1, <2>0, <2>3
        DEF UpstreamDone, LogPhase, WriteCapture, WriteFails, payVars,
            bufVars, RInv, RequestInv, Flow, Types
    <3>3. /\ req'[r].rule = req[r].rule /\ req'[r].owed = req[r].owed
          /\ Passed(req[r])
          /\ \A o \in Requests \ {r} : req'[o] = req[o]
        BY <1>1, <3>1, <3>2, GotoType DEF RequestPc, Passed, Goto, Types
    <3>4. Reported(r)' /\ OthersUnchanged(r)
        BY <2>0, <3>2, <3>3 DEF Reported, Owes, OthersUnchanged
    <3> QED BY <1>3, <3>2, <3>4
  <2>4. CASE \/ FlushCapture(r) \/ PrematureTimer(r) \/ PostReply(r)
             \/ PostFails(r) \/ Expire(r)
    <3>1. UNCHANGED <<req, settles, reports, pay>>
        BY <2>4 DEF FlushCapture, PrematureTimer, PostReply, PostFails,
                    Expire, payVars
    <3>2. /\ \A n \in Attempts : job'[r][n] = "2xx" => job[r][n] = "2xx"
          /\ \A o \in Requests \ {r} : job'[o] = job[o]
        BY <1>1, <2>0, <2>4
        DEF FlushCapture, PrematureTimer, PostReply, PostFails, Expire, Types
    <3>3. \A o \in Requests : Reported(o)'
        BY <3>1, <3>2 DEF Reported, Owes
    <3> QED BY <3>3
  <2>5. CASE HandleRequest(r)
    <3>1. /\ req[r].pc = "access" /\ UNCHANGED <<job, flush>>
          /\ ~req[r].paid /\ \A n \in Attempts : job[r][n] = "none"
          /\ settles[r].request = 0
        BY <2>0, <2>5
        DEF HandleRequest, bufVars, RInv, RequestInv, RequestPhase, Flow
    <3>2. PICK pc \in {"allow", "deny"} :
               /\ Goto(r, pc)
               /\ \/ pc = "deny" \/ UNCHANGED settles
                  \/ Report(r)
        BY <2>5 DEF HandleRequest, Verify, SettleAtRequest, payVars
    <3>3. /\ req'[r].pc = pc /\ req'[r].paid = req[r].paid
        BY <1>1, <3>2, GotoType DEF RequestPc
    <3>4. Reported(r)'
        BY <2>0, <3>1, <3>2, <3>3 DEF Reported, Passed, Report, Clocks
    <3>5. OthersUnchanged(r) /\ \A o \in Requests \ {r} : reports'[o] = reports[o]
        BY <1>1, <2>5, <3>1, <3>2
        DEF OthersUnchanged, Types, Clocks, Goto, HandleRequest, Verify,
            SettleAtRequest, Report, payVars
    <3> QED BY <1>3, <3>4, <3>5
  <2>6. ASSUME NEW n \in Attempts, EvalResponse(r, n)
        PROVE  \A o \in Requests : Reported(o)'
    <3>1. /\ UNCHANGED <<req, settles, reports, pay, flush>>
          /\ job[r][n] \in {"full", "empty"}
        BY <2>6 DEF EvalResponse, payVars, bufVars, Evaluating
    <3>2. PICK status \in {"2xx", "error", "settling"} :
             /\ Answer(r, n, status)
             /\ status = "2xx" =>
                   \/ req[r].rule \in {"free", "onePhase"}
                   \/ ~req[r].owed
                   \/ req[r].cred = "mpp"
        BY <2>6 DEF EvalResponse
    <3>3. /\ job'[r][n] = status
          /\ \A m \in Attempts : m # n => job'[r][m] = job[r][m]
          /\ \A o \in Requests \ {r} : job'[o] = job[o]
        BY <1>1, <3>2, AnswerType DEF JobStatus, Answer, Types
    <3>4. status = "2xx" => ~Owes(r)
      <4> SUFFICES ASSUME status = "2xx", Owes(r) PROVE FALSE
          OBVIOUS
      <4>1. req[r].rule = "twoPhase" /\ req[r].cred = "mpp"
          BY <2>0, <3>2 DEF Owes, RInv, RequestInv, Matched
      <4>2. Passed(req[r])
          BY <2>0, <3>1 DEF RInv, RequestInv, Flow, Passed
      <4> QED BY <2>0, <4>1, <4>2 DEF RInv, RequestInv, Authorized, Owes
    <3>5. Reported(r)' /\ OthersUnchanged(r)
        BY <2>0, <3>1, <3>3, <3>4 DEF Reported, Owes, OthersUnchanged
    <3> QED BY <1>3, <3>1, <3>5
  <2>7. ASSUME NEW n \in Attempts, SettleResponse(r, n)
        PROVE  \A o \in Requests : Reported(o)'
    <3>1. /\ UNCHANGED <<req, flush>> /\ job[r][n] = "settling"
          /\ settles'[r].request = settles[r].request
        BY <1>1, <2>0, <2>7 DEF SettleResponse, bufVars, Types
    <3>2. PICK status \in {"2xx", "error"} :
             /\ Answer(r, n, status)
             /\ Report(r) \/ (status = "error" /\ UNCHANGED reports)
        BY <2>7 DEF SettleResponse
    <3>3. /\ job'[r][n] = status
          /\ \A m \in Attempts : m # n => job'[r][m] = job[r][m]
          /\ \A o \in Requests \ {r} : job'[o] = job[o]
        BY <1>1, <3>2, AnswerType DEF JobStatus, Answer, Types
    <3>4. /\ reports'[r] > 0 \/ (status = "error" /\ UNCHANGED reports)
          /\ \A o \in Requests \ {r} : reports'[o] = reports[o]
        BY <2>0, <3>2 DEF Report, Clocks
    <3>5. Reported(r)'
        BY <2>0, <3>1, <3>3, <3>4 DEF Reported, Owes
    <3>6. OthersUnchanged(r)
        BY <1>1, <2>7, <3>1, <3>3 DEF OthersUnchanged, SettleResponse, Types
    <3> QED BY <1>3, <3>4, <3>5, <3>6
  <2> QED BY <1>4, <2>1, <2>2, <2>3, <2>4, <2>5, <2>6, <2>7
          DEF Nginx, Sidecar, Faults
<1> QED BY <1>2, <1>4 DEF Next, vars

(* When no matched rule authorizes at zero, onCapture() is called for what *)
(* /request settles before access.lua lets the request through, and for    *)
(* every bill before /response answers the 2xx that deletes it.            *)
THEOREM BillsAreReported ==
    ASSUME "zeroAuth" \notin Rules
    PROVE  Spec => []BilledIsReported
<1> DEFINE AllReported == \A r \in Requests : Reported(r)
<1>1. Init => Clocks /\ AllReported
    BY DEF Init, Clocks, Reported
<1>2. GatewayInv /\ Clocks /\ AllReported /\ [Next]_vars => AllReported'
    BY ReportedStep
<1>3. AllReported => BilledIsReported
    BY DEF Reported, Passed, BilledIsReported
<1> HIDE DEF AllReported
<1> QED BY <1>1, <1>2, <1>3, InvStart, InvStep, ClockStep, PTL DEF Spec
=============================================================================

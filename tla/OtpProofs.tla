------------------------------ MODULE OtpProofs ------------------------------
(***************************************************************************)
(* Proofs about Otp for any number of concurrent sends and verifications,  *)
(* any codes and any values of the time and attempt limits.                *)
(***************************************************************************)
EXTENDS Otp, TLAPS

\* A send that will write the hash carries a legal number of attempts.
AttemptsRead ==
  \A s \in Senders : snd[s].pc \in {"update", "create"} => snd[s].attempts \in 1..MAX_ATTEMPTS

\* What the hash says was issued; a code that was checked was issued and alive then.
HashIsIssued == hash # NoHash => [otp |-> hash.otp, expiryTime |-> hash.expiryTime] \in issued

OInv == TypeOK /\ AttemptsRead /\ HashIsIssued /\ AttemptsBounded /\ LoginByLiveCode

\* As long as no two sends have overlapped, one at most is under way ...
OneSends == \A s, o \in Senders : Sending(s) /\ Sending(o) => s = o

\* ... and the attempts counted in the hash, or read by the send under way, cover every code
\* written since the hash was created.
WrittenCounted ==
  /\ hash = NoHash => written = 0
  /\ hash # NoHash => written <= hash.attempts
  /\ \A s \in Senders :
       /\ snd[s].pc = "create" => written = 0
       /\ snd[s].pc = "update" => written + 1 <= snd[s].attempts

SInv == OInv /\ (~overlap => OneSends /\ WrittenCounted)

-----------------------------------------------------------------------------

\* Before the first request there is no hash and no code.
LEMMA OInvInit == Init => OInv
<1> SUFFICES ASSUME Init PROVE OInv
  OBVIOUS
<1>1. TypeOK
  <2>1. snd \in [Senders -> Send]
    BY DEF Init, Send
  <2>2. ver \in [Verifiers -> Verify]
    BY DEF Init, Verify
  <2> QED BY <2>1, <2>2 DEF Init, TypeOK
<1>2. AttemptsRead /\ HashIsIssued /\ AttemptsBounded /\ LoginByLiveCode
  BY DEF Init, AttemptsRead, HashIsIssued, AttemptsBounded, LoginByLiveCode
<1> QED BY <1>1, <1>2 DEF OInv

\* A step that writes no hash and only moves one send to a new state.
LEMMA OInvSend ==
  ASSUME OInv, NEW s \in Senders, NEW k \in Send, snd' = [snd EXCEPT ![s] = k],
         k.pc \in {"update", "create"} => k.attempts \in 1..MAX_ATTEMPTS,
         UNCHANGED <<now, hash, ver, issued, written>>, ttl' \in Nat \cup {Never},
         overlap' \in BOOLEAN
  PROVE  OInv'
<1> USE DEF OInv
<1>1. TypeOK'
  BY DEF TypeOK
<1>2. AttemptsRead'
  BY DEF AttemptsRead, TypeOK
<1>3. HashIsIssued' /\ AttemptsBounded' /\ LoginByLiveCode'
  BY DEF HashIsIssued, AttemptsBounded, LoginByLiveCode
<1> QED BY <1>1, <1>2, <1>3

\* hmset: the code it writes is issued, its count is the one the send computed.
LEMMA OInvWrite ==
  ASSUME OInv, NEW s \in Senders, snd[s].pc \in {"update", "create"}, WriteHash(s),
         NEW p \in {"sms", "expire"}, snd' = [snd EXCEPT ![s].pc = p],
         UNCHANGED <<now, ver, overlap>>
  PROVE  OInv'
<1> USE DEF OInv
<1>1. PICK c \in Codes :
        /\ hash' = [otp |-> c, lastGeneratedAt |-> snd[s].at, attempts |-> snd[s].attempts,
                    expiryTime |-> snd[s].at + OTP_EXPIRY]
        /\ issued' = issued \cup {[otp |-> c, expiryTime |-> snd[s].at + OTP_EXPIRY]}
        /\ written' = written + 1
        /\ UNCHANGED ttl
  BY DEF WriteHash
<1>2. snd[s] \in Send /\ snd[s].at \in Nat /\ snd[s].attempts \in 1..MAX_ATTEMPTS
      /\ snd[s].at + OTP_EXPIRY \in Nat
  BY OtpAssumption DEF TypeOK, Send, AttemptsRead
<1>3. TypeOK'
  <2>1. hash' \in Hash /\ issued' \subseteq [otp: Codes, expiryTime: Nat] /\ written' \in Nat
    BY <1>1, <1>2, OtpAssumption DEF TypeOK, Hash
  <2>2. snd' \in [Senders -> Send]
    BY <1>2 DEF TypeOK, Send
  <2> QED BY <1>1, <2>1, <2>2 DEF TypeOK
<1>4. AttemptsRead'
  BY <1>2 DEF AttemptsRead, TypeOK, Send
<1>5. HashIsIssued' /\ AttemptsBounded'
  BY <1>1, <1>2 DEF HashIsIssued, AttemptsBounded
<1>6. LoginByLiveCode'
  BY <1>1 DEF LoginByLiveCode
<1> QED BY <1>3, <1>4, <1>5, <1>6

\* Every step of sendOtp and verifyOtp, the passing of time and a crash preserve OInv.
LEMMA OInvNext == OInv /\ [Next]_vars => OInv'
<1> SUFFICES ASSUME OInv, [Next]_vars PROVE OInv'
  OBVIOUS
<1>0. ASSUME NEW s \in Senders
      PROVE  /\ snd[s] \in Send /\ snd \in [Senders -> Send] /\ ttl \in Nat \cup {Never}
             /\ overlap \in BOOLEAN
  BY DEF OInv, TypeOK
<1>1. ASSUME NEW s \in Senders, BeginSend(s) PROVE OInv'
  <2> DEFINE k == [snd[s] EXCEPT !.pc = "read", !.at = now]
  <2>1. k \in Send /\ k.pc = "read" /\ snd' = [snd EXCEPT ![s] = k]
    BY <1>0, <1>1 DEF BeginSend, Send, OInv, TypeOK
  <2> QED BY <1>0, <1>1, <2>1, OInvSend DEF BeginSend
<1>2. ASSUME NEW s \in Senders, ReadHash(s) PROVE OInv'
  <2>1. CASE hash = NoHash
    <3> DEFINE k == [snd[s] EXCEPT !.pc = "create", !.attempts = 1]
    <3>1. k \in Send /\ k.attempts \in 1..MAX_ATTEMPTS
      <4>1. k.attempts = 1 /\ 1 \in 1..MAX_ATTEMPTS
        BY <1>0, OtpAssumption DEF Send
      <4>2. k \in Send
        BY <1>0 DEF Send
      <4> QED BY <4>1, <4>2
    <3>2. snd' = [snd EXCEPT ![s] = k]
      BY <1>0, <1>2, <2>1 DEF ReadHash
    <3> QED BY <1>0, <1>2, <3>1, <3>2, OInvSend DEF ReadHash
  <2>2. CASE hash # NoHash /\ ~(snd[s].at - hash.lastGeneratedAt < COOLDOWN
                                  \/ hash.attempts >= MAX_ATTEMPTS)
    <3> DEFINE k == [snd[s] EXCEPT !.pc = "update", !.attempts = hash.attempts + 1]
    <3>1. hash.attempts \in 1..MAX_ATTEMPTS /\ MAX_ATTEMPTS \in Nat
      BY <2>2, OtpAssumption DEF OInv, AttemptsBounded
    <3>2. hash.attempts + 1 \in 1..MAX_ATTEMPTS
      BY <2>2, <3>1
    <3>3. k \in Send /\ k.attempts \in 1..MAX_ATTEMPTS
      <4>1. k.attempts = hash.attempts + 1
        BY <1>0 DEF Send
      <4>2. k \in Send
        <5>1. hash.attempts + 1 \in Nat
          BY <3>1
        <5> DEFINE n == hash.attempts + 1
        <5> HIDE DEF n
        <5>2. [snd[s] EXCEPT !.pc = "update", !.attempts = n] \in Send
          BY <1>0, <5>1 DEF Send, n
        <5> QED BY <5>2 DEF n
      <4> QED BY <3>2, <4>1, <4>2
    <3>4. snd' = [snd EXCEPT ![s] = k]
      BY <1>0, <1>2, <2>2 DEF ReadHash
    <3> QED BY <1>0, <1>2, <3>3, <3>4, OInvSend DEF ReadHash
  <2>3. CASE hash # NoHash /\ (snd[s].at - hash.lastGeneratedAt < COOLDOWN
                                  \/ hash.attempts >= MAX_ATTEMPTS)
    <3> DEFINE k == [pc |-> "done", at |-> 0, attempts |-> 0, answer |-> "err"]
    <3>1. k \in Send /\ k.pc = "done" /\ snd' = [snd EXCEPT ![s] = k]
      BY <1>2, <2>3 DEF ReadHash, SendAnswer, Send
    <3> QED BY <1>0, <1>2, <3>1, OInvSend DEF ReadHash
  <2> QED BY <2>1, <2>2, <2>3
<1>3. ASSUME NEW s \in Senders, UpdateHash(s) PROVE OInv'
  BY <1>3, OInvWrite DEF UpdateHash
<1>4. ASSUME NEW s \in Senders, CreateHash(s) PROVE OInv'
  BY <1>4, OInvWrite DEF CreateHash
<1>5. ASSUME NEW s \in Senders, Expire(s) PROVE OInv'
  <2> DEFINE k == [snd[s] EXCEPT !.pc = "sms"]
  <2>1. k \in Send /\ k.pc = "sms" /\ snd' = [snd EXCEPT ![s] = k]
    BY <1>0, <1>5 DEF Expire, Send
  <2>2. ttl' \in Nat \cup {Never}
    BY <1>5, OtpAssumption DEF Expire, OInv, TypeOK
  <2> QED BY <1>0, <1>5, <2>1, <2>2, OInvSend DEF Expire
<1>6. ASSUME NEW s \in Senders, SendSMS(s) PROVE OInv'
  <2>1. PICK a \in {"ok", "err"} : SendAnswer(s, a)
    BY <1>6 DEF SendSMS
  <2> DEFINE k == [pc |-> "done", at |-> 0, attempts |-> 0, answer |-> a]
  <2>2. k \in Send /\ k.pc = "done" /\ snd' = [snd EXCEPT ![s] = k]
    BY <2>1 DEF SendAnswer, Send
  <2> QED BY <1>0, <1>6, <2>2, OInvSend DEF SendSMS
<1>7. ASSUME NEW v \in Verifiers, CheckOtp(v) PROVE OInv'
  <2> USE DEF OInv
  <2>0. ver[v] \in Verify /\ ver \in [Verifiers -> Verify] /\ now \in Nat
    BY DEF TypeOK
  <2>1. CASE VerifyAnswer(v, "err") /\ ver[v].pc = "idle"
    <3>1. ver'[v] = [ver[v] EXCEPT !.pc = "done", !.answer = "err"]
          /\ ver' = [ver EXCEPT ![v] = ver'[v]]
      BY <2>0, <2>1 DEF VerifyAnswer
    <3>2. TypeOK'
      <4>1. ver'[v] \in Verify
        BY <2>0, <3>1 DEF Verify
      <4> QED BY <1>7, <2>0, <3>1, <4>1 DEF CheckOtp, TypeOK
    <3>3. LoginByLiveCode'
      BY <1>7, <2>0, <3>1, ZenonT(60) DEF CheckOtp, LoginByLiveCode, Verify
    <3> QED BY <1>7, <3>2, <3>3 DEF CheckOtp, AttemptsRead, HashIsIssued, AttemptsBounded
  <2>2. CASE /\ hash # NoHash /\ now <= hash.expiryTime /\ hash.otp = ver[v].code
             /\ ver' = [ver EXCEPT ![v].pc = "del", ![v].checked = now]
    <3>1. ver'[v] = [ver[v] EXCEPT !.pc = "del", !.checked = now]
          /\ ver' = [ver EXCEPT ![v] = ver'[v]]
      BY <2>0, <2>2
    <3>2. TypeOK'
      <4>1. ver'[v] \in Verify
        BY <2>0, <3>1 DEF Verify
      <4> QED BY <1>7, <2>0, <3>1, <4>1 DEF CheckOtp, TypeOK
    <3>3. LoginByLiveCode'
      <4> DEFINE i == [otp |-> hash.otp, expiryTime |-> hash.expiryTime]
      <4>1. i \in issued' /\ i.otp = ver'[v].code /\ ver'[v].checked <= i.expiryTime
        BY <1>7, <2>0, <2>2, <3>1 DEF CheckOtp, HashIsIssued, Verify
      <4> HIDE DEF i
      <4> QED BY <1>7, <2>0, <3>1, <4>1 DEF CheckOtp, LoginByLiveCode
    <3> QED BY <1>7, <3>2, <3>3 DEF CheckOtp, AttemptsRead, HashIsIssued, AttemptsBounded
  <2>3. hash = NoHash \/ hash \in Hash
    BY DEF TypeOK
  <2> QED BY <1>7, <2>0, <2>1, <2>2, <2>3 DEF CheckOtp, Hash
<1>8. ASSUME NEW v \in Verifiers, DeleteHash(v) PROVE OInv'
  <2> USE DEF OInv
  <2>0. ver[v] \in Verify /\ ver \in [Verifiers -> Verify] /\ ver[v].pc = "del"
    BY <1>8 DEF TypeOK, DeleteHash
  <2>1. ver'[v] = [ver[v] EXCEPT !.pc = "done", !.answer = "ok"]
        /\ ver' = [ver EXCEPT ![v] = ver'[v]]
    BY <1>8, <2>0 DEF DeleteHash, VerifyAnswer
  <2>2. TypeOK'
    <3>1. ver'[v] \in Verify
      BY <2>0, <2>1 DEF Verify
    <3> QED BY <1>8, <2>0, <2>1, <3>1 DEF DeleteHash, Forget, TypeOK, Never
  <2>3. LoginByLiveCode'
    <3>1. issued' = issued /\ \A u \in Verifiers \ {v} : ver'[u] = ver[u]
      BY <1>8, <2>0, <2>1 DEF DeleteHash
    <3>2. ver'[v].code = ver[v].code /\ ver'[v].checked = ver[v].checked
      BY <2>0, <2>1 DEF Verify
    <3> QED BY <2>0, <3>1, <3>2 DEF LoginByLiveCode
  <2> QED BY <1>8, <2>2, <2>3 DEF DeleteHash, Forget, AttemptsRead, HashIsIssued, AttemptsBounded
<1>9. CASE Tick
  <2> USE DEF OInv
  <2>1. TypeOK'
    BY <1>9 DEF Tick, Forget, TypeOK, Never
  <2>2. AttemptsRead' /\ HashIsIssued' /\ AttemptsBounded' /\ LoginByLiveCode'
    BY <1>9 DEF Tick, Forget, AttemptsRead, HashIsIssued, AttemptsBounded, LoginByLiveCode
  <2> QED BY <2>1, <2>2
<1>10. CASE Crash
  <2> USE DEF OInv
  <2>1. TypeOK'
    BY <1>10 DEF Crash, TypeOK, Send, Verify
  <2>2. AttemptsRead'
    BY <1>10 DEF Crash, AttemptsRead, TypeOK, Send, Sending
  <2>3. LoginByLiveCode'
    BY <1>10 DEF Crash, LoginByLiveCode, TypeOK, Verify
  <2> QED BY <1>10, <2>1, <2>2, <2>3 DEF Crash, HashIsIssued, AttemptsBounded
<1>11. CASE UNCHANGED vars
  BY <1>11 DEF vars, OInv, TypeOK, AttemptsRead, HashIsIssued, AttemptsBounded, LoginByLiveCode
<1> QED
  BY <1>1, <1>2, <1>3, <1>4, <1>5, <1>6, <1>7, <1>8, <1>9, <1>10, <1>11 DEF Next

\* OInv holds in every reachable state.
THEOREM OInvAlways == Spec => []OInv
BY OInvInit, OInvNext, PTL DEF Spec

-----------------------------------------------------------------------------

\* The states of the protocol keep their types.
THEOREM OtpTypeOK == Spec => []TypeOK
BY OInvAlways, PTL DEF OInv

\* However many sends read the same count before any of them writes, the attempts stored
\* stay within the maximum.
THEOREM OtpAttemptsBounded == Spec => []AttemptsBounded
BY OInvAlways, PTL DEF OInv

\* Nobody logs in with a code that was not issued, or had expired when it was checked,
\* whichever sends, verifications, expiries and crashes come between check and login.
THEOREM OtpLoginByLiveCode == Spec => []LoginByLiveCode
BY OInvAlways, PTL DEF OInv

-----------------------------------------------------------------------------
(* Sends that wait for each other *)

\* At first nobody has a session and no code is stored.
LEMMA SInvInit == Init => SInv
<1> SUFFICES ASSUME Init PROVE SInv
  OBVIOUS
<1>1. OInv
  BY OInvInit
<1>2. OneSends /\ WrittenCounted
  BY DEF Init, OneSends, WrittenCounted, Sending
<1> QED BY <1>1, <1>2 DEF SInv

\* Every step preserves SInv: without an overlap, the hash can only disappear between
\* reading the count and writing it back.
LEMMA SInvNext == SInv /\ [Next]_vars => SInv'
<1> SUFFICES ASSUME OInv, OneSends, WrittenCounted, [Next]_vars, ~overlap'
             PROVE  OneSends' /\ WrittenCounted'
  <2>1. SInv /\ [Next]_vars /\ ~overlap' => ~overlap
    BY DEF SInv, Next, vars, BeginSend, ReadHash, UpdateHash, CreateHash, Expire, SendSMS,
       CheckOtp, DeleteHash, Tick, Crash
  <2> QED BY <2>1, OInvNext DEF SInv
<1>0. OInv /\ OInv' /\ snd \in [Senders -> Send] /\ written \in Nat
  BY OInvNext DEF OInv, TypeOK
<1>1. ASSUME NEW s \in Senders, BeginSend(s) PROVE OneSends' /\ WrittenCounted'
  <2>1. \A o \in Senders : ~Sending(o)
    BY <1>1 DEF BeginSend
  <2>2. \A o \in Senders \ {s} : snd'[o] = snd[o]
    BY <1>0, <1>1 DEF BeginSend
  <2>3. snd'[s].pc = "read"
    BY <1>0, <1>1 DEF BeginSend, Send
  <2> QED BY <1>1, <2>1, <2>2, <2>3 DEF BeginSend, OneSends, WrittenCounted, Sending
<1>2. ASSUME NEW s \in Senders, snd[s].pc \notin {"idle", "done", "lost"},
             \A o \in Senders \ {s} : snd'[o] = snd[o]
      PROVE  OneSends' /\ \A o \in Senders \ {s} : snd'[o].pc \in {"idle", "done", "lost"}
  BY <1>2 DEF OneSends, Sending
<1>3. ASSUME NEW s \in Senders, ReadHash(s) PROVE OneSends' /\ WrittenCounted'
  <2>1. \A o \in Senders \ {s} : snd'[o] = snd[o]
    BY <1>0, <1>3 DEF ReadHash, SendAnswer
  <2>2. /\ snd'[s].pc = "create" => hash = NoHash
        /\ snd'[s].pc = "update" => hash # NoHash /\ snd'[s].attempts = hash.attempts + 1
    BY <1>0, <1>3 DEF ReadHash, SendAnswer, Send
  <2>3. hash # NoHash => hash.attempts \in Nat
    BY <1>0, OtpAssumption DEF OInv, AttemptsBounded
  <2>4. OneSends' /\ \A o \in Senders \ {s} : snd'[o].pc \in {"idle", "done", "lost"}
    BY <1>2, <1>3, <2>1 DEF ReadHash
  <2>5. UNCHANGED <<hash, written>>
    BY <1>3 DEF ReadHash
  <2> QED BY <1>0, <2>2, <2>3, <2>4, <2>5 DEF WrittenCounted
<1>4. ASSUME NEW s \in Senders, UpdateHash(s) \/ CreateHash(s)
      PROVE  OneSends' /\ WrittenCounted'
  <2>1. /\ snd[s].pc \in {"update", "create"} /\ snd'[s].pc \in {"sms", "expire"}
        /\ \A o \in Senders \ {s} : snd'[o] = snd[o]
    BY <1>0, <1>4 DEF UpdateHash, CreateHash, Send
  <2>2. OneSends' /\ \A o \in Senders \ {s} : snd'[o].pc \in {"idle", "done", "lost"}
    BY <1>2, <2>1
  <2>3. hash'.attempts = snd[s].attempts /\ written' = written + 1 /\ snd[s].attempts \in Nat
    BY <1>0, <1>4 DEF UpdateHash, CreateHash, WriteHash, Send
  <2>4. written + 1 <= snd[s].attempts
    BY <1>0, <2>1, OtpAssumption DEF WrittenCounted, OInv, AttemptsRead
  <2>5. hash' # NoHash
    <3>1. hash' \in Hash
      BY <1>0, <1>4, OtpAssumption DEF UpdateHash, CreateHash, WriteHash, Hash, Send, OInv, TypeOK
    <3> QED BY <3>1, OtpAssumption DEF Hash
  <2> QED BY <1>0, <2>1, <2>2, <2>3, <2>4, <2>5 DEF WrittenCounted
<1>5. ASSUME NEW s \in Senders, Expire(s) \/ SendSMS(s) PROVE OneSends' /\ WrittenCounted'
  <2>1. /\ snd[s].pc \in {"expire", "sms"} /\ snd'[s].pc \in {"sms", "done"}
        /\ \A o \in Senders \ {s} : snd'[o] = snd[o]
        /\ UNCHANGED <<hash, written>>
    BY <1>0, <1>5 DEF Expire, SendSMS, SendAnswer, Send
  <2>2. OneSends' /\ \A o \in Senders \ {s} : snd'[o].pc \in {"idle", "done", "lost"}
    BY <1>2, <2>1
  <2> QED BY <2>1, <2>2 DEF WrittenCounted
<1>6. ASSUME NEW v \in Verifiers, CheckOtp(v) PROVE OneSends' /\ WrittenCounted'
  BY <1>6 DEF CheckOtp, OneSends, Sending, WrittenCounted
<1>7. ASSUME Forget, UNCHANGED snd PROVE OneSends' /\ WrittenCounted'
  <2>1. \A s \in Senders : snd[s].pc = "update" => snd[s].attempts \in 1..MAX_ATTEMPTS
    BY DEF OInv, AttemptsRead
  <2> QED BY <1>7, <2>1, OtpAssumption DEF Forget, OneSends, Sending, WrittenCounted
<1>8. ASSUME NEW v \in Verifiers, DeleteHash(v) PROVE OneSends' /\ WrittenCounted'
  BY <1>7, <1>8 DEF DeleteHash
<1>9. ASSUME Tick PROVE OneSends' /\ WrittenCounted'
  <2>1. CASE Forget
    BY <1>7, <1>9, <2>1 DEF Tick
  <2>2. CASE UNCHANGED <<hash, ttl, written>>
    BY <1>9, <2>2 DEF Tick, OneSends, Sending, WrittenCounted
  <2> QED BY <1>9, <2>1, <2>2 DEF Tick
<1>10. ASSUME Crash PROVE OneSends' /\ WrittenCounted'
  <2>1. \A s \in Senders : snd'[s].pc \in {"idle", "done", "lost"}
    BY <1>0, <1>10 DEF Crash, Sending
  <2> QED BY <1>10, <2>1 DEF Crash, OneSends, Sending, WrittenCounted
<1>11. ASSUME UNCHANGED vars PROVE OneSends' /\ WrittenCounted'
  BY <1>11 DEF vars, OneSends, Sending, WrittenCounted
<1> QED
  BY <1>0, <1>1, <1>3, <1>4, <1>5, <1>6, <1>8, <1>9, <1>10, <1>11 DEF Next

\* Without overlapping sends a number gets MAX_ATTEMPTS codes at most in the life of a hash,
\* for every cooldown, expiry and maximum, whatever crashes and whichever hash expires.
THEOREM OtpCodesLimited == Spec => []CodesLimited
<1>1. SInv => CodesLimited
  <2> SUFFICES ASSUME SInv, ~overlap PROVE written <= MAX_ATTEMPTS
    BY DEF CodesLimited
  <2>1. hash # NoHash => hash.attempts \in 1..MAX_ATTEMPTS
    BY DEF SInv, OInv, AttemptsBounded
  <2> QED BY <2>1, OtpAssumption DEF SInv, OInv, TypeOK, WrittenCounted
<1> QED BY <1>1, SInvInit, SInvNext, PTL DEF Spec
=============================================================================

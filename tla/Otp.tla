--------------------------------- MODULE Otp ---------------------------------
(***************************************************************************)
(* Login by a one-time code sent by SMS: sendOtp and verifyOtp of          *)
(* auth.service.ts on the redis hash of one phone number (the keys of      *)
(* different numbers never meet).  One step per awaited redis call; hash   *)
(* and time to live change between the steps, and the server may crash.    *)
(***************************************************************************)
EXTENDS Integers, FiniteSets

CONSTANTS
  Senders, Verifiers,  \* bound: requests, each runs once
  Codes,               \* the four-digit codes
  COOLDOWN, OTP_EXPIRY, MAX_ATTEMPTS, OTP_HASH_EXPIRY,
  MaxTime,             \* bound: the clock stops here
  NoHash

ASSUME OtpAssumption ==
  /\ COOLDOWN \in Nat /\ OTP_EXPIRY \in Nat /\ OTP_HASH_EXPIRY \in Nat
  /\ MAX_ATTEMPTS \in Nat /\ MAX_ATTEMPTS >= 1
  /\ MaxTime \in Nat
  /\ NoHash \notin [otp: Codes, lastGeneratedAt: Nat, attempts: Nat, expiryTime: Nat]

VARIABLES
  now,     \* the clock, in seconds
  hash,    \* the redis hash, or NoHash
  ttl,     \* when redis drops the hash, or Never
  snd,     \* snd[s]: the local variables of a send
  ver,     \* ver[v]: the local variables of a verification
  issued,  \* auxiliary: the codes written, each with its expiry time
  written, \* auxiliary: how many codes were written since the hash last did not exist
  overlap  \* auxiliary: whether a send began while another was under way

vars == <<now, hash, ttl, snd, ver, issued, written, overlap>>

-----------------------------------------------------------------------------

Never == -1
Hash == [otp: Codes, lastGeneratedAt: Nat, attempts: Nat, expiryTime: Nat]
Send == [pc: {"idle", "read", "update", "create", "expire", "sms", "done", "lost"},
         at: Nat, attempts: Nat, answer: {"none", "ok", "err"}]
Verify == [pc: {"idle", "del", "done", "lost"}, code: Codes, checked: Nat,
           answer: {"none", "ok", "err"}]

TypeOK ==
  /\ now \in Nat
  /\ \/ hash = NoHash
     \/ hash \in Hash
  /\ ttl \in Nat \cup {Never}
  /\ snd \in [Senders -> Send]
  /\ ver \in [Verifiers -> Verify]
  /\ issued \subseteq [otp: Codes, expiryTime: Nat]
  /\ written \in Nat
  /\ overlap \in BOOLEAN

Init ==
  /\ now = 0
  /\ hash = NoHash
  /\ ttl = Never
  /\ snd = [s \in Senders |-> [pc |-> "idle", at |-> 0, attempts |-> 0, answer |-> "none"]]
  /\ ver \in [Verifiers -> [pc: {"idle"}, code: Codes, checked: {0}, answer: {"none"}]]
  /\ issued = {}
  /\ written = 0
  /\ overlap = FALSE

SendAnswer(s, a) ==
  snd' = [snd EXCEPT ![s] = [pc |-> "done", at |-> 0, attempts |-> 0, answer |-> a]]
VerifyAnswer(v, a) == ver' = [ver EXCEPT ![v].pc = "done", ![v].answer = a]
Sending(s) == snd[s].pc \notin {"idle", "done", "lost"}

-----------------------------------------------------------------------------
(* sendOtp *)

\* mutant: the clock starts at one
BeginSendShifted(s) ==
  /\ snd[s].pc = "idle"
  /\ snd' = [snd EXCEPT ![s].pc = "read", ![s].at = now - 1]
  /\ overlap' = (overlap \/ \E o \in Senders : Sending(o))
  /\ UNCHANGED <<now, hash, ttl, ver, issued, written>>

\* the time is taken before the hash is read
BeginSend(s) ==
  /\ snd[s].pc = "idle"
  /\ snd' = [snd EXCEPT ![s].pc = "read", ![s].at = now]
  /\ overlap' = (overlap \/ \E o \in Senders : Sending(o))
  /\ UNCHANGED <<now, hash, ttl, ver, issued, written>>

\* mutants of ReadHash: one attempt too many, the attempt is not counted
ReadHashOffByOne(s) ==
  /\ snd[s].pc = "read"
  /\ IF hash = NoHash
     THEN snd' = [snd EXCEPT ![s].pc = "create", ![s].attempts = 1]
     ELSE IF snd[s].at - hash.lastGeneratedAt < COOLDOWN \/ hash.attempts > MAX_ATTEMPTS
     THEN SendAnswer(s, "err")
     ELSE snd' = [snd EXCEPT ![s].pc = "update", ![s].attempts = hash.attempts + 1]
  /\ UNCHANGED <<now, hash, ttl, ver, issued, written, overlap>>

ReadHashUncounted(s) ==
  /\ snd[s].pc = "read"
  /\ IF hash = NoHash
     THEN snd' = [snd EXCEPT ![s].pc = "create", ![s].attempts = 1]
     ELSE IF snd[s].at - hash.lastGeneratedAt < COOLDOWN \/ hash.attempts >= MAX_ATTEMPTS
     THEN SendAnswer(s, "err")
     ELSE snd' = [snd EXCEPT ![s].pc = "update", ![s].attempts = hash.attempts]
  /\ UNCHANGED <<now, hash, ttl, ver, issued, written, overlap>>

\* hgetall, then the cooldown and the attempts are checked
ReadHash(s) ==
  /\ snd[s].pc = "read"
  /\ IF hash = NoHash
     THEN snd' = [snd EXCEPT ![s].pc = "create", ![s].attempts = 1]
     ELSE IF snd[s].at - hash.lastGeneratedAt < COOLDOWN \/ hash.attempts >= MAX_ATTEMPTS
     THEN SendAnswer(s, "err")
     ELSE snd' = [snd EXCEPT ![s].pc = "update", ![s].attempts = hash.attempts + 1]
  /\ UNCHANGED <<now, hash, ttl, ver, issued, written, overlap>>

\* hmset keeps the time to live of a hash that exists; one that has expired or was deleted
\* since is created anew, with none
WriteHash(s) ==
  \E c \in Codes :
    LET expiry == snd[s].at + OTP_EXPIRY
    IN  /\ hash' = [otp |-> c, lastGeneratedAt |-> snd[s].at, attempts |-> snd[s].attempts,
                    expiryTime |-> expiry]
        /\ issued' = issued \cup {[otp |-> c, expiryTime |-> expiry]}
        /\ written' = written + 1
        /\ UNCHANGED ttl

UpdateHash(s) ==
  /\ snd[s].pc = "update"
  /\ WriteHash(s)
  /\ snd' = [snd EXCEPT ![s].pc = "sms"]
  /\ UNCHANGED <<now, ver, overlap>>

CreateHash(s) ==
  /\ snd[s].pc = "create"
  /\ WriteHash(s)
  /\ snd' = [snd EXCEPT ![s].pc = "expire"]
  /\ UNCHANGED <<now, ver, overlap>>

Expire(s) ==
  /\ snd[s].pc = "expire"
  /\ ttl' = IF hash = NoHash THEN ttl ELSE now + OTP_HASH_EXPIRY
  /\ snd' = [snd EXCEPT ![s].pc = "sms"]
  /\ UNCHANGED <<now, hash, ver, issued, written, overlap>>

\* the SMS goes out or the gateway reports an error; the hash stays as it is
SendSMS(s) ==
  /\ snd[s].pc = "sms"
  /\ \E a \in {"ok", "err"} : SendAnswer(s, a)
  /\ UNCHANGED <<now, hash, ttl, ver, issued, written, overlap>>

-----------------------------------------------------------------------------
(* verifyOtp *)

\* mutant: the expiry time is not checked
CheckOtpOnly(v) ==
  /\ ver[v].pc = "idle"
  /\ IF hash = NoHash
     THEN VerifyAnswer(v, "err")
     ELSE IF hash.otp # ver[v].code
     THEN VerifyAnswer(v, "err")
     ELSE ver' = [ver EXCEPT ![v].pc = "del", ![v].checked = now]
  /\ UNCHANGED <<now, hash, ttl, snd, issued, written, overlap>>

CheckOtp(v) ==
  /\ ver[v].pc = "idle"
  /\ IF hash = NoHash
     THEN VerifyAnswer(v, "err")
     ELSE IF now > hash.expiryTime \/ hash.otp # ver[v].code
     THEN VerifyAnswer(v, "err")
     ELSE ver' = [ver EXCEPT ![v].pc = "del", ![v].checked = now]
  /\ UNCHANGED <<now, hash, ttl, snd, issued, written, overlap>>

Forget ==
  /\ hash' = NoHash
  /\ ttl' = Never
  /\ written' = 0

\* del, then the user is logged in, or created and logged in
DeleteHash(v) ==
  /\ ver[v].pc = "del"
  /\ Forget
  /\ VerifyAnswer(v, "ok")
  /\ UNCHANGED <<now, snd, issued, overlap>>

-----------------------------------------------------------------------------

\* external: time passes, redis drops a hash whose time is over
Tick ==
  /\ now < MaxTime
  /\ now' = now + 1
  /\ IF ttl # Never /\ ttl <= now'
     THEN Forget
     ELSE UNCHANGED <<hash, ttl, written>>
  /\ UNCHANGED <<snd, ver, issued, overlap>>

\* the server dies, redis does not
Crash ==
  /\ snd' = [s \in Senders |-> IF Sending(s)
                             THEN [pc |-> "lost", at |-> 0, attempts |-> 0, answer |-> "none"]
                             ELSE snd[s]]
  /\ ver' = [v \in Verifiers |->
               IF ver[v].pc = "del" THEN [ver[v] EXCEPT !.pc = "lost"] ELSE ver[v]]
  /\ UNCHANGED <<now, hash, ttl, issued, written, overlap>>

Next ==
  \/ \E s \in Senders :
       \/ BeginSend(s) \/ ReadHash(s) \/ UpdateHash(s) \/ CreateHash(s)
       \/ Expire(s) \/ SendSMS(s)
  \/ \E v \in Verifiers : CheckOtp(v) \/ DeleteHash(v)
  \/ Tick \/ Crash

Spec == Init /\ [][Next]_vars

-----------------------------------------------------------------------------
(* Properties *)

\* The attempts stored never exceed the maximum, also when several sends have read the same
\* count (auth.service.ts:70-85).
AttemptsBounded == hash # NoHash => hash.attempts \in 1..MAX_ATTEMPTS

\* A login goes through only with a code that was issued for the number and had not expired
\* when it was checked, whatever overwrote the hash in between (auth.service.ts:137-150).
LoginByLiveCode ==
  \A v \in Verifiers : ver[v].pc = "del" \/ ver[v].answer = "ok" =>
    \E i \in issued : i.otp = ver[v].code /\ ver[v].checked <= i.expiryTime

\* As long as no two sends overlap a number gets at most MAX_ATTEMPTS codes in the life of
\* a hash, through retries, crashes and expiry ("we check attempts to avoid misuse").
CodesLimited == ~overlap => written <= MAX_ATTEMPTS

\* "if the otp is still valid, we do not send a new one" (auth.service.ts:64): a code in the
\* hash is replaced only after it has expired.
ValidCodeNotReplaced ==
  [][\A s \in Senders :
       UpdateHash(s) /\ hash # NoHash => snd[s].at > hash.expiryTime]_vars

\* "we set the expiry time to 1 hour" (auth.service.ts:106): no hash stays for ever, so a
\* number that reached the maximum can be used again.
HashExpires ==
  hash # NoHash /\ (\A s \in Senders : snd[s].pc # "expire") => ttl # Never

=============================================================================

------------------------------ MODULE Accounts ------------------------------
(***************************************************************************)
(* Signing in: registration, passwords, the mandatory one-time codes and   *)
(* the tokens, as concurrent requests of one person interleave on one row  *)
(* of table users and on the keys Redis keeps for it.  AuthService,        *)
(* TOTPService and AuthHandler.                                            *)
(*                                                                         *)
(* No statement here runs in a transaction: each reads or writes the row   *)
(* by itself, and a request writes what it worked out from an earlier      *)
(* reading.  The steps of a request are therefore its accesses to MySQL    *)
(* and Redis.  Only one-time codes are told by the clock.  The attempts    *)
(* counter lives for minutes and may expire at any moment, or never, if    *)
(* the server stops between INCR and EXPIRE.  Some of the tokens handed    *)
(* out have expired, which shows when they are used, to no effect.         *)
(***************************************************************************)
EXTENDS Integers, FiniteSets

CONSTANTS
    Requests,       \* request goroutines
    Period,         \* ticks of the clock a one-time code stands for (30 s)
    Periods,        \* bound: the periods whose codes are ever typed
    MaxAttempts,    \* otpMaxAttempts
    Slots,          \* backup codes of one set, backupCodeCount of them
    MaxTime,        \* bound: the clock stops here
    MaxSecrets,     \* bound: secrets that SetupTOTP generates
    MaxEnrolments   \* bound: times ConfirmTOTP enables the codes

ASSUME AccountsAssumption ==
    /\ IsFiniteSet(Requests)
    /\ Period \in Nat \ {0}
    /\ Periods \subseteq Nat
    /\ MaxAttempts \in Nat \ {0}
    /\ MaxTime \in Nat
    /\ MaxSecrets \in Nat
    /\ MaxEnrolments \in Nat

VARIABLES
    now,        \* the clock
    users,      \* how many rows of table users carry this name and address
    row,        \* the columns of that row the codes are kept in
    secrets,    \* how many secrets have been generated
    enrolments, \* how many sets of backup codes have been generated
    tokens,     \* kinds of the tokens the person was given
    attempts,   \* Redis: user:otp_attempts
    used,       \* Redis: user:totp_used, per code, with its expiry
    req,        \* what each request is at, and what it has read
    proved,     \* history: secrets a code was shown for when codes were enabled
    admitted,   \* history: codes VerifyTOTP has accepted, less those good no longer
    again,      \* history: it has accepted a one-time code once more, while
                \* the code was still good
    wrong,      \* history: codes refused since the counter was last cleared, of
                \* requests that it has counted since
    overwrote   \* history: a row was written from a reading no longer true,
                \* or a write was lost without the request failing

redisVars   == <<attempts, used>>
serialVars  == <<secrets, enrolments>>
codeHistory == <<admitted, again>>
history     == <<proved, codeHistory, wrong, overwrote>>
vars == <<now, users, row, serialVars, tokens, redisVars, req, history>>
-----------------------------------------------------------------------------
(* Secrets are numbered as they are generated; 0 is NULL.                  *)
NoSecret == 0
Secret   == 1..MaxSecrets

(* What a person may type: the one-time code of a secret for a period, a   *)
(* backup code, or a slip of the finger.  Distinct codes are taken to      *)
(* differ in their digits.                                                 *)
TotpCode   == [kind: {"totp"}, of: Secret, nr: Periods]
BackupCode == [kind: {"backup"}, of: 1..MaxEnrolments, nr: Slots]
BadCode    == [kind |-> "bad", of |-> 0, nr |-> 0]
Code       == TotpCode \cup BackupCode \cup {BadCode}

BackupCodes(n) == {c \in BackupCode : c.of = n}

(* A code is good in its own period and, with a skew of one, in the        *)
(* periods before and after it: for AcceptedFor ticks.                     *)
Skew        == 1
UsedForSkew == 2 * Period   (* Mutant: one side of the skew is forgotten *)
UsedTTL     == 3 * Period   \* 90 * time.Second
ValidNow(code, secret) ==
    /\ code.kind = "totp" /\ code.of = secret
    /\ code.nr - (now \div Period) \in -Skew..Skew

Columns == [secret: Secret \cup {NoSecret}, enabled: BOOLEAN, codes: SUBSET BackupCode]
NewRow  == [secret |-> NoSecret, enabled |-> FALSE, codes |-> {}]

Pcs     == {"idle", "register", "setup", "confirm", "verify", "check", "store", "clear"}
Request == [pc: Pcs, code: Code, info: Columns, stale: BOOLEAN, counted: BOOLEAN]
Idle    == [pc |-> "idle", code |-> BadCode, info |-> NewRow, stale |-> FALSE, counted |-> FALSE]

Init ==
    /\ now = 0
    /\ users = 0
    /\ row = NewRow
    /\ secrets = 0 /\ enrolments = 0
    /\ tokens = {}
    /\ attempts = 0
    /\ used = {}
    /\ req = [r \in Requests |-> Idle]
    /\ proved = {} /\ admitted = {} /\ again = FALSE
    /\ wrong = 0
    /\ overwrote = FALSE
-----------------------------------------------------------------------------
(* The statements.  A write makes every reading of the row out of date; a  *)
(* write by a request whose own reading is out of date is noted.           *)
GetUser         == users > 0    \* by address, by name or by id: the row is there
GetUserTotpInfo == row

Outdated(others) ==
    [r \in Requests |-> IF r \in others /\ req[r].pc \in {"setup", "confirm", "check"}
                        THEN [req[r] EXCEPT !.stale = ~overwrote] ELSE req[r]]

(* Request r writes columns and goes on as next.                           *)
WriteRow(r, columns, next) ==
    /\ row' = columns
    /\ req' = [Outdated(Requests \ {r}) EXCEPT ![r] = next]
    /\ overwrote' = (overwrote \/ req[r].stale)

UpdateUserTotpSecret(r, s, next)  == WriteRow(r, [row EXCEPT !.secret = s], next)
EnableUserTotp(r, codes, next)    == WriteRow(r, [row EXCEPT !.enabled = TRUE, !.codes = codes], next)
KeepBackupCodes(r, codes, next)       == WriteRow(r, row, next)   (* Mutant: nothing is struck off *)
UpdateUserBackupCodes(r, codes, next) == WriteRow(r, [row EXCEPT !.codes = codes], next)
DisableToEmpty ==   (* Mutant: an empty string instead of NULL *)
    /\ row' = [NewRow EXCEPT !.secret = -1]
    /\ req' = Outdated(Requests)
DisableUserTotp ==
    /\ row' = NewRow
    /\ req' = Outdated(Requests)
CreateUser ==   \* username and email are UNIQUE
    /\ users = 0
    /\ users' = users + 1

At(r, pc)  == req[r].pc = pc
Goto(r, q) == req' = [req EXCEPT ![r] = q]
Step(r, pc) == [req[r] EXCEPT !.pc = pc]
-----------------------------------------------------------------------------
(* Registration and login hand out a temporary token for the next step.    *)
GenerateTempToken(purpose) == tokens' = tokens \cup {purpose}
ValidateTempToken(purpose) == purpose \in tokens

RegisterCheck(r) ==
    /\ At(r, "idle")
    /\ ~GetUser
    /\ Goto(r, [Idle EXCEPT !.pc = "register"])
    /\ UNCHANGED <<now, users, row, serialVars, tokens, redisVars, history>>

RegisterInsert(r) ==
    /\ At(r, "register")
    /\ \/ CreateUser /\ GenerateTempToken("totp_setup")
       \/ GetUser /\ UNCHANGED <<users, tokens>>   \* duplicate key
    /\ Goto(r, Idle)
    /\ UNCHANGED <<now, row, serialVars, redisVars, history>>

Register(r) == RegisterCheck(r) \/ RegisterInsert(r)

ValidateCredentials == GetUser   \* and the password is right
GetProfile          == GetUser

(* IsTOTPEnabled's error is ignored: if it fails, the codes are taken to   *)
(* be disabled.                                                            *)
IsTOTPEnabled(failed) == GetUserTotpInfo.enabled /\ ~failed

Login ==
    /\ ValidateCredentials
    /\ \E failed \in BOOLEAN :
          GenerateTempToken(IF IsTOTPEnabled(failed) THEN "totp_verify" ELSE "totp_setup")
    /\ UNCHANGED <<now, users, row, serialVars, redisVars, req, history>>

(* A token pair; the refresh token renews it, and only tokens change hands. *)
GenerateTokens == tokens' = tokens \cup {"access"}
-----------------------------------------------------------------------------
(* SetupTOTP: a new secret for a row whose codes are not enabled.          *)
SetupReadAny(r) ==   (* Mutant: no check that the codes are disabled *)
    /\ At(r, "idle")
    /\ ValidateTempToken("totp_setup")
    /\ Goto(r, [Idle EXCEPT !.pc = "setup"])
    /\ UNCHANGED <<now, users, row, serialVars, tokens, redisVars, history>>

SetupRead(r) ==
    /\ At(r, "idle")
    /\ ValidateTempToken("totp_setup")
    /\ ~GetUserTotpInfo.enabled
    /\ Goto(r, [Idle EXCEPT !.pc = "setup"])
    /\ UNCHANGED <<now, users, row, serialVars, tokens, redisVars, history>>

SetupWrite(r) ==
    /\ At(r, "setup")
    /\ secrets < MaxSecrets
    /\ secrets' = secrets + 1
    /\ UpdateUserTotpSecret(r, secrets', Idle)
    /\ UNCHANGED <<now, users, enrolments, tokens, redisVars, proved, codeHistory, wrong>>

SetupTOTP(r) == SetupRead(r) \/ SetupWrite(r)

(* ConfirmTOTP: a code of the secret just read enables the codes, after    *)
(* ten backup codes have been hashed.                                      *)
ConfirmRead(r, code) ==
    /\ At(r, "idle")
    /\ ValidateTempToken("totp_setup")
    /\ ~GetUserTotpInfo.enabled
    /\ GetUserTotpInfo.secret # NoSecret
    /\ ValidNow(code, GetUserTotpInfo.secret)
    /\ Goto(r, [Idle EXCEPT !.pc = "confirm", !.info.secret = row.secret])
    /\ UNCHANGED <<now, users, row, serialVars, tokens, redisVars, history>>

ConfirmWrite(r) ==
    /\ At(r, "confirm")
    /\ enrolments < MaxEnrolments
    /\ enrolments' = enrolments + 1
    /\ proved' = proved \cup {req[r].info.secret}
    /\ EnableUserTotp(r, BackupCodes(enrolments'), [Idle EXCEPT !.pc = "clear"])
    /\ UNCHANGED <<now, users, secrets, tokens, redisVars, codeHistory, wrong>>

ConfirmTOTP(r) == (\E code \in TotpCode : ConfirmRead(r, code)) \/ ConfirmWrite(r)

(* DisableTOTP.  The middleware before it takes any token the server has   *)
(* signed that names a user, a temporary one as well.                      *)
Authenticated == tokens # {}

DisableTOTP ==
    /\ Authenticated
    /\ DisableUserTotp
    /\ UNCHANGED <<now, users, serialVars, tokens, redisVars, history>>
-----------------------------------------------------------------------------
TooManyLate(n) == n > MaxAttempts + 1   (* Mutant: off by one *)
TooMany(n)     == n > MaxAttempts

Incr == IF attempts > MaxAttempts THEN attempts ELSE attempts + 1   \* bounded

(* The counter is gone: requests counted before are no longer.             *)
ResetAttempts(requests) ==
    /\ attempts' = 0
    /\ req' = [r \in Requests |-> [requests[r] EXCEPT !.counted = FALSE]]
    /\ wrong' = 0

(* VerifyTOTP counts the attempt first; an INCR that fails counts nothing  *)
(* and lets the attempt pass.  The first one asks for the counter's expiry. *)
VerifyBegin(r, code) ==
    /\ At(r, "idle")
    /\ ValidateTempToken("totp_verify")
    /\ \E counted \in BOOLEAN :
          /\ attempts' = IF counted THEN Incr ELSE attempts
          /\ IF counted /\ TooMany(attempts')
             THEN UNCHANGED req
             ELSE Goto(r, [Idle EXCEPT !.pc = "verify", !.code = code, !.counted = counted])
    /\ UNCHANGED <<now, users, row, serialVars, tokens, used, history>>

VerifyRead(r) ==
    /\ At(r, "verify")
    /\ IF GetUserTotpInfo.enabled /\ GetUserTotpInfo.secret # NoSecret
       THEN Goto(r, [Step(r, "check") EXCEPT !.info.secret = row.secret, !.info.codes = row.codes])
       ELSE Goto(r, Idle)
    /\ UNCHANGED <<now, users, row, serialVars, tokens, redisVars, history>>

(* A code is accepted, perhaps not for the first time.                     *)
Admit(code) ==
    /\ admitted' = admitted \cup {code}
    /\ again' = (again \/ (code \in admitted /\ ValidNow(code, code.of)))

Refuse(r) ==
    /\ Goto(r, Idle)
    /\ wrong' = IF req[r].counted THEN wrong + 1 ELSE wrong

IsUsed(code) == \E k \in used : k.code = code

(* A one-time code that is good now goes on to Redis; by the time it is    *)
(* there it may be good no longer.                                         *)
VerifyTotpCode(r) ==
    /\ At(r, "check")
    /\ ValidNow(req[r].code, req[r].info.secret)
    /\ Goto(r, [Idle EXCEPT !.pc = "store", !.code = req[r].code, !.counted = req[r].counted])
    /\ UNCHANGED <<now, users, row, serialVars, tokens, redisVars, history>>

(* SET NX with an expiry decides between concurrent uses of one code; if   *)
(* it fails the code is refused.                                           *)
StoreUsed(r) ==
    /\ At(r, "store")
    /\ \/ /\ ~IsUsed(req[r].code)
          /\ used' = used \cup {[code |-> req[r].code, until |-> now + UsedTTL]}
          /\ Admit(req[r].code)
          /\ Goto(r, [Idle EXCEPT !.pc = "clear"])
          /\ UNCHANGED wrong
       \/ Refuse(r) /\ UNCHANGED <<used, codeHistory>>
    /\ UNCHANGED <<now, users, row, serialVars, tokens, attempts, proved, overwrote>>

(* The list read before, less this code, is written back; an error of that *)
(* write is not looked at.                                                 *)
VerifyBackupCode(r) ==
    /\ At(r, "check")
    /\ req[r].code \in req[r].info.codes
    /\ Admit(req[r].code)
    /\ \/ UpdateUserBackupCodes(r, req[r].info.codes \ {req[r].code}, [Idle EXCEPT !.pc = "clear"])
       \/ /\ Goto(r, [Idle EXCEPT !.pc = "clear"])
          /\ overwrote' = TRUE
          /\ UNCHANGED row
    /\ UNCHANGED <<now, users, serialVars, tokens, redisVars, proved, wrong>>

VerifyInvalid(r) ==
    /\ At(r, "check")
    /\ ~ValidNow(req[r].code, req[r].info.secret)
    /\ req[r].code \notin req[r].info.codes
    /\ Refuse(r)
    /\ UNCHANGED <<now, users, row, serialVars, tokens, redisVars, proved, codeHistory, overwrote>>

(* After a success the counter is deleted (unless Redis fails) and the     *)
(* person is given a token pair (unless their row cannot be read again).   *)
ClearAttempts(r) ==
    /\ At(r, "clear")
    /\ \/ ResetAttempts([req EXCEPT ![r] = Idle])
       \/ Goto(r, Idle) /\ UNCHANGED <<attempts, wrong>>
    /\ (GetProfile /\ GenerateTokens) \/ UNCHANGED tokens
    /\ UNCHANGED <<now, users, row, serialVars, used, proved, codeHistory, overwrote>>

(* Codes a person may type: those of the latest secret and the latest set  *)
(* of backup codes they were given, or nothing of the kind, as which codes *)
(* of older ones are taken.                                                *)
Typed ==
    {c \in TotpCode : c.of = secrets}
      \cup {c \in BackupCode : c.of = enrolments} \cup {BadCode}

VerifyTOTP(r) ==
    \/ \E code \in Typed : VerifyBegin(r, code)
    \/ VerifyRead(r) \/ VerifyTotpCode(r) \/ StoreUsed(r)
    \/ VerifyBackupCode(r) \/ VerifyInvalid(r)
    \/ ClearAttempts(r)
-----------------------------------------------------------------------------
(* A request fails, or its server does, before its next access.            *)
Abort(r) ==
    /\ ~At(r, "idle")
    /\ Goto(r, Idle)
    /\ UNCHANGED <<now, users, row, serialVars, tokens, redisVars, history>>

AttemptsExpire ==
    /\ attempts > 0
    /\ ResetAttempts(req)
    /\ UNCHANGED <<now, users, row, serialVars, tokens, used, proved, codeHistory, overwrote>>

Tick ==
    /\ now < MaxTime
    /\ now' = now + 1
    /\ used' = {k \in used : k.until > now'}
    /\ admitted' = {c \in admitted : c.kind = "totp" => c.nr + Skew >= now' \div Period}
    /\ UNCHANGED <<users, row, serialVars, tokens, attempts, req, proved, again, wrong, overwrote>>

Next ==
    \/ \E r \in Requests : Register(r) \/ SetupTOTP(r) \/ ConfirmTOTP(r) \/ VerifyTOTP(r) \/ Abort(r)
    \/ Login \/ DisableTOTP
    \/ AttemptsExpire \/ Tick

Spec == Init /\ [][Next]_vars
-----------------------------------------------------------------------------
TypeOK ==
    /\ now \in 0..MaxTime
    /\ users \in {0, 1}
    /\ row \in Columns
    /\ secrets \in 0..MaxSecrets
    /\ enrolments \in 0..MaxEnrolments
    /\ tokens \subseteq {"totp_setup", "totp_verify", "access"}
    /\ attempts \in 0..MaxAttempts + 1
    /\ used \subseteq [code: TotpCode, until: Nat]
    /\ req \in [Requests -> Request]
    /\ proved \subseteq Secret
    /\ admitted \subseteq Code
    /\ again \in BOOLEAN
    /\ wrong \in Nat
    /\ overwrote \in BOOLEAN

(* No one-time code opens a second session while it is good, for three     *)
(* periods: those accepted are remembered as long.  They are remembered no *)
(* longer, so a request that found its code good at the last instant, and  *)
(* reaches Redis when the code is good no more, may be the second.         *)
TotpCodesOnce == ~again

(* Of the attempts counted since the counter was cleared, at most          *)
(* MaxAttempts get as far as having a code judged, finished or not.        *)
GuessesBounded == wrong + Cardinality({r \in Requests : req[r].counted}) <= MaxAttempts

(* Once codes are asked for, they are those of a secret the person has     *)
(* shown to own, unless a request wrote from an outdated reading.          *)
EnabledIsProved == ~overwrote /\ row.enabled => row.secret \in proved

(* The backup codes kept are the latest ones given, less those used; so no *)
(* code works twice and none is lost, unless a request wrote from an       *)
(* outdated reading or its write was lost.                                 *)
CodesExact == ~overwrote /\ row.enabled => row.codes = BackupCodes(enrolments) \ admitted

=============================================================================

---------------------------- MODULE AccountsProofs ----------------------------
(***************************************************************************)
(* Proofs about module Accounts, for any number of concurrent requests,    *)
(* secrets, backup codes and attempts, and any length of a period: codes   *)
(* are enabled for a secret that was proved, one-time codes work once,     *)
(* guesses are bounded, and backup codes are struck off as they are used.  *)
(***************************************************************************)
EXTENDS Accounts, FiniteSetTheorems, TLAPS

-----------------------------------------------------------------------------
(* The clock, in ticks and in periods of p ticks.                          *)
LEMMA DivFacts ==
    ASSUME NEW n \in Nat, NEW p \in Nat \ {0}
    PROVE  /\ n \div p \in Nat
           /\ (n \div p) * p <= n
           /\ n < (n \div p) * p + p
  OBVIOUS

(* Three periods after a code was good it is good no longer, ...           *)
LEMMA RememberedLongEnough ==
    ASSUME NEW t \in Nat, NEW p \in Nat \ {0}, NEW c \in Nat, c - (t \div p) \in -1..1
    PROVE  (c + 2) * p <= t + 3 * p
<1>1. t \div p \in Nat /\ t < (t \div p) * p + p /\ (t \div p) * p <= t
  BY DivFacts
<1>. DEFINE d == t \div p
<1>2. c + 2 <= d + 3 /\ d \in Nat
  BY <1>1
<1>. HIDE DEF d
<1>3. (c + 2) * p <= (d + 3) * p
  BY <1>2
<1>4. (d + 3) * p = d * p + 3 * p
  BY <1>2
<1>5. d * p <= t
  BY <1>1 DEF d
<1>. QED  BY <1>2, <1>3, <1>4, <1>5

(* ... and while it is good they are not over.                             *)
LEMMA StillGood ==
    ASSUME NEW t \in Nat, NEW p \in Nat \ {0}, NEW c \in Nat, c + 1 >= t \div p
    PROVE  t < (c + 2) * p
<1>1. t \div p \in Nat /\ t < (t \div p) * p + p
  BY DivFacts
<1>. DEFINE d == t \div p
<1>2. d + 1 <= c + 2 /\ d \in Nat
  BY <1>1
<1>. HIDE DEF d
<1>3. (d + 1) * p <= (c + 2) * p
  BY <1>2
<1>4. (d + 1) * p = d * p + p
  BY <1>2
<1>5. t < d * p + p
  BY <1>1 DEF d
<1>. QED  BY <1>2, <1>3, <1>4, <1>5
-----------------------------------------------------------------------------
(* Backup codes of the first n sets.                                       *)
Given(n) == {c \in BackupCode : c.of <= n}

(* What a request has read, when n sets of backup codes have been given.   *)
RequestOK(q, n) ==
    /\ q \in Request
    /\ q.info.codes \subseteq Given(n)
    /\ q.pc = "confirm" => q.info.secret \in Secret
    /\ q.pc = "store" => q.code \in TotpCode
    /\ q.counted => q.pc \in {"verify", "check", "store"}

TypeInv ==
    /\ TypeOK
    /\ \A r \in Requests : RequestOK(req[r], enrolments)
    /\ row.codes \subseteq Given(enrolments)
    /\ \A c \in admitted : c.kind = "backup" => c \in Given(enrolments)
-----------------------------------------------------------------------------
LEMMA ConstantFacts ==
    /\ IsFiniteSet(Requests)
    /\ Period \in Nat \ {0} /\ Periods \subseteq Nat
    /\ MaxAttempts \in Nat \ {0} /\ MaxTime \in Nat /\ MaxSecrets \in Nat /\ MaxEnrolments \in Nat
  BY AccountsAssumption

LEMMA CodeFacts ==
    ASSUME NEW c \in Code
    PROVE  /\ c.kind \in {"totp", "backup", "bad"}
           /\ c.kind = "totp" <=> c \in TotpCode
           /\ c.kind = "backup" <=> c \in BackupCode
           /\ c \in TotpCode => c.nr \in Nat
           /\ c \in BackupCode => c.of \in 1..MaxEnrolments
<1>1. CASE c \in TotpCode
  BY <1>1, ConstantFacts DEF TotpCode, BackupCode
<1>2. CASE c \in BackupCode
  BY <1>2 DEF TotpCode, BackupCode
<1>3. CASE c = BadCode
  BY <1>3 DEF TotpCode, BackupCode, BadCode
<1>. QED  BY <1>1, <1>2, <1>3 DEF Code

LEMMA GivenGrows ==
    ASSUME NEW n \in Nat, NEW m \in Nat, n <= m
    PROVE  Given(n) \subseteq Given(m)
  BY ConstantFacts DEF Given, BackupCode

LEMMA IdleOK == \A n : RequestOK(Idle, n) /\ Idle.pc = "idle" /\ Idle.info = NewRow /\ Idle.counted = FALSE
<1>1. NewRow \in Columns /\ NewRow.codes = {}
  BY DEF NewRow, Columns
<1>2. Idle \in Request
  BY <1>1 DEF Idle, Request, Pcs, Code
<1>. QED  BY <1>1, <1>2 DEF Idle, RequestOK

(* A request whose reading is out of date is otherwise as before.          *)
SameBut(p, q) ==
    /\ q \in Request
    /\ q.pc = p.pc /\ q.code = p.code /\ q.info = p.info /\ q.counted = p.counted

LEMMA SameIsOK ==
    ASSUME NEW p, NEW q, NEW n, RequestOK(p, n), SameBut(p, q)
    PROVE  RequestOK(q, n)
  BY DEF RequestOK, SameBut

LEMMA OutdatedFacts ==
    ASSUME TypeOK, NEW S
    PROVE  /\ Outdated(S) \in [Requests -> Request]
           /\ \A x \in Requests : SameBut(req[x], Outdated(S)[x])
           /\ \A x \in Requests : x \in S /\ req[x].pc \in {"setup", "confirm", "check"} =>
                 Outdated(S)[x].stale = ~overwrote
           /\ \A x \in Requests : x \notin S => Outdated(S)[x] = req[x]
<1>1. ASSUME NEW x \in Requests
      PROVE  /\ [req[x] EXCEPT !.stale = ~overwrote] \in Request
             /\ [req[x] EXCEPT !.stale = ~overwrote].stale = ~overwrote
             /\ SameBut(req[x], [req[x] EXCEPT !.stale = ~overwrote])
             /\ SameBut(req[x], req[x])
  BY DEF TypeOK, Request, SameBut
<1>2. \A x \in Requests : req[x] \in Request
  BY DEF TypeOK
<1>. QED  BY <1>1, <1>2 DEF Outdated

(* A write of the row by request r, which goes on as next.                 *)
LEMMA WriteFacts ==
    ASSUME TypeOK, NEW r \in Requests, NEW columns, NEW next \in Request, WriteRow(r, columns, next)
    PROVE  /\ row' = columns
           /\ overwrote' = (overwrote \/ req[r].stale)
           /\ req' \in [Requests -> Request]
           /\ req'[r] = next
           /\ \A x \in Requests : x # r =>
                 /\ SameBut(req[x], req'[x])
                 /\ req[x].pc \in {"setup", "confirm", "check"} => req'[x].stale = ~overwrote
  BY OutdatedFacts DEF WriteRow

LEMMA GotoFacts ==
    ASSUME TypeOK, NEW r \in Requests, NEW q \in Request, Goto(r, q)
    PROVE  /\ req' \in [Requests -> Request]
           /\ req'[r] = q
           /\ \A x \in Requests : x # r => req'[x] = req[x]
  BY DEF TypeOK, Goto

LEMMA StepFacts ==
    ASSUME TypeOK, NEW r \in Requests, NEW pc \in Pcs
    PROVE  /\ Step(r, pc) \in Request
           /\ Step(r, pc).pc = pc
           /\ Step(r, pc).code = req[r].code /\ Step(r, pc).info = req[r].info
           /\ Step(r, pc).stale = req[r].stale /\ Step(r, pc).counted = req[r].counted
  BY DEF TypeOK, Request, Step

(* What there is to show of the requests in a step.                        *)
LEMMA RequestsKeep ==
    ASSUME TypeInv, enrolments' \in Nat, enrolments' >= enrolments,
           \A x \in Requests : SameBut(req[x], req'[x]) \/ req'[x] = req[x] \/ RequestOK(req'[x], enrolments')
    PROVE  \A x \in Requests : RequestOK(req'[x], enrolments')
<1>1. enrolments \in Nat
  BY ConstantFacts DEF TypeInv, TypeOK
<1>2. Given(enrolments) \subseteq Given(enrolments')
  BY <1>1, GivenGrows
<1>3. \A x \in Requests : RequestOK(req[x], enrolments')
  BY <1>2 DEF TypeInv, RequestOK
<1>. QED  BY <1>3, SameIsOK

LEMMA InitTyped == Init => TypeInv
<1>. SUFFICES ASSUME Init PROVE TypeInv
  OBVIOUS
<1>1. TypeOK
  <2>1. NewRow \in Columns /\ Idle \in Request
    BY IdleOK DEF NewRow, Columns, RequestOK
  <2>2. req \in [Requests -> Request] /\ row \in Columns
    BY <2>1 DEF Init
  <2>3. 0 \in 0..MaxTime /\ 0 \in 0..MaxSecrets /\ 0 \in 0..MaxEnrolments /\ 0 \in 0..MaxAttempts + 1
    BY ConstantFacts
  <2>. QED  BY <2>2, <2>3 DEF Init, TypeOK
<1>2. \A r \in Requests : RequestOK(req[r], enrolments)
  BY IdleOK DEF Init
<1>. QED  BY <1>1, <1>2 DEF TypeInv, Init, NewRow
-----------------------------------------------------------------------------
(* Steps that only take one request further.                               *)
LEMMA MoveTyped ==
    ASSUME TypeInv, NEW r \in Requests, NEW q, RequestOK(q, enrolments), Goto(r, q),
           UNCHANGED <<now, row, secrets, enrolments, used, proved, admitted, again, overwrote>>,
           users' \in {0, 1}, tokens' \subseteq {"totp_setup", "totp_verify", "access"},
           attempts' \in 0..MaxAttempts + 1, wrong' \in Nat
    PROVE  TypeInv'
<1>1. q \in Request /\ TypeOK
  BY DEF RequestOK, TypeInv
<1>2. req' \in [Requests -> Request] /\ req'[r] = q /\ \A x \in Requests : x # r => req'[x] = req[x]
  BY <1>1, GotoFacts
<1>3. TypeOK'
  BY <1>1, <1>2 DEF TypeOK
<1>4. \A x \in Requests : RequestOK(req'[x], enrolments)
  BY <1>2 DEF TypeInv
<1>5. \A x \in Requests : RequestOK(req[x], enrolments)'
  BY <1>4 DEF RequestOK, Given
<1>. QED  BY <1>3, <1>5 DEF TypeInv, Given

(* Steps that write the row.                                               *)
LEMMA WriteTyped ==
    ASSUME TypeInv, NEW r \in Requests, NEW columns \in Columns, NEW next,
           RequestOK(next, enrolments'), WriteRow(r, columns, next),
           columns.codes \subseteq Given(enrolments'),
           enrolments' \in 0..MaxEnrolments, enrolments' >= enrolments,
           secrets' \in 0..MaxSecrets, proved' \subseteq Secret,
           admitted' \subseteq Code, again' \in BOOLEAN,
           \A c \in admitted' : c.kind = "backup" => c \in Given(enrolments'),
           UNCHANGED <<now, users, tokens, attempts, used, wrong>>
    PROVE  TypeInv'
<1>1. next \in Request /\ TypeOK
  BY DEF RequestOK, TypeInv
<1>2. /\ row' = columns /\ overwrote' = (overwrote \/ req[r].stale)
      /\ req' \in [Requests -> Request] /\ req'[r] = next
      /\ \A x \in Requests : x # r => SameBut(req[x], req'[x])
  BY <1>1, WriteFacts
<1>3. overwrote' \in BOOLEAN
  BY <1>1, <1>2 DEF TypeOK, Request
<1>4. TypeOK'
  BY <1>1, <1>2, <1>3 DEF TypeOK
<1>5. \A x \in Requests : RequestOK(req'[x], enrolments')
  BY <1>2, ConstantFacts, RequestsKeep
<1>6. \A x \in Requests : RequestOK(req[x], enrolments)'
  BY <1>5 DEF RequestOK, Given
<1>. QED  BY <1>2, <1>4, <1>6 DEF TypeInv, Given

LEMMA RegisterTyped == ASSUME TypeInv, NEW r \in Requests, Register(r) PROVE TypeInv'
<1>1. CASE RegisterCheck(r)
  <2>. DEFINE q == [Idle EXCEPT !.pc = "register"]
  <2>1. RequestOK(q, enrolments)
    BY IdleOK DEF RequestOK, Request, Pcs
  <2>2. Goto(r, q)
    BY <1>1 DEF RegisterCheck
  <2>. HIDE DEF q
  <2>. QED  BY <1>1, <2>1, <2>2, MoveTyped
            DEF RegisterCheck, TypeInv, TypeOK, serialVars, redisVars, history, codeHistory
<1>2. CASE RegisterInsert(r)
  <2>a. users' \in {0, 1}
    BY <1>2 DEF RegisterInsert, CreateUser, TypeInv, TypeOK
  <2>b. tokens' \subseteq {"totp_setup", "totp_verify", "access"}
    BY <1>2 DEF RegisterInsert, GenerateTempToken, TypeInv, TypeOK
  <2>1. users' \in {0, 1} /\ tokens' \subseteq {"totp_setup", "totp_verify", "access"} /\ Goto(r, Idle)
    BY <1>2, <2>a, <2>b DEF RegisterInsert
  <2>2. RequestOK(Idle, enrolments)
    BY IdleOK
  <2>. QED  BY <1>2, <2>1, <2>2, MoveTyped
            DEF RegisterInsert, TypeInv, TypeOK, serialVars, redisVars, history, codeHistory
<1>. QED  BY <1>1, <1>2 DEF Register

LEMMA SetupTyped == ASSUME TypeInv, NEW r \in Requests, SetupTOTP(r) PROVE TypeInv'
<1>1. CASE SetupRead(r)
  <2>. DEFINE q == [Idle EXCEPT !.pc = "setup"]
  <2>1. RequestOK(q, enrolments)
    BY IdleOK DEF RequestOK, Request, Pcs
  <2>2. Goto(r, q)
    BY <1>1 DEF SetupRead
  <2>. HIDE DEF q
  <2>. QED  BY <1>1, <2>1, <2>2, MoveTyped
            DEF SetupRead, TypeInv, TypeOK, serialVars, redisVars, history, codeHistory
<1>2. CASE SetupWrite(r)
  <2>. DEFINE s == secrets + 1
              columns == [row EXCEPT !.secret = s]
  <2>1. /\ secrets < MaxSecrets /\ secrets' = s /\ WriteRow(r, columns, Idle)
        /\ UNCHANGED <<now, users, enrolments, tokens, attempts, used, proved, admitted, again, wrong>>
    BY <1>2 DEF SetupWrite, UpdateUserTotpSecret, redisVars, codeHistory
  <2>2. s \in Secret /\ s \in 0..MaxSecrets
    BY <2>1, ConstantFacts DEF TypeInv, TypeOK, Secret
  <2>3. columns \in Columns /\ columns.codes = row.codes
    BY <2>2 DEF TypeInv, TypeOK, Columns
  <2>4. RequestOK(Idle, enrolments') /\ enrolments' \in 0..MaxEnrolments /\ enrolments' >= enrolments
    BY <2>1, IdleOK, ConstantFacts DEF TypeInv, TypeOK
  <2>5. Given(enrolments') = Given(enrolments)
    BY <2>1
  <2>. HIDE DEF s, columns
  <2>. QED  BY <2>1, <2>2, <2>3, <2>4, <2>5, WriteTyped DEF TypeInv, TypeOK
<1>. QED  BY <1>1, <1>2 DEF SetupTOTP

LEMMA ConfirmTyped == ASSUME TypeInv, NEW r \in Requests, ConfirmTOTP(r) PROVE TypeInv'
<1>1. ASSUME NEW code \in TotpCode, ConfirmRead(r, code) PROVE TypeInv'
  <2>. DEFINE q == [Idle EXCEPT !.pc = "confirm", !.info.secret = row.secret]
  <2>1. row.secret \in Secret
    BY <1>1 DEF ConfirmRead, GetUserTotpInfo, TypeInv, TypeOK, Columns
  <2>. DEFINE i == [Idle.info EXCEPT !.secret = row.secret]
  <2>2. i \in Columns /\ i.secret = row.secret /\ i.codes = {}
    <3>1. Idle.info \in Columns /\ Idle.info.codes = {}
      <4>1. NewRow \in Columns /\ NewRow.codes = {}
        BY DEF NewRow, Columns
      <4>. QED  BY <4>1, IdleOK
    <3>. QED  BY <2>1, <3>1 DEF Columns
  <2>3. q \in Request /\ q.pc = "confirm" /\ q.info = i /\ q.counted = FALSE
    <3>1. Idle \in Request /\ Idle.counted = FALSE
      BY IdleOK DEF RequestOK
    <3>. QED  BY <2>2, <3>1 DEF Request, Pcs
  <2>4. RequestOK(q, enrolments)
    BY <2>1, <2>2, <2>3 DEF RequestOK
  <2>5. Goto(r, q)
    BY <1>1 DEF ConfirmRead
  <2>. HIDE DEF q
  <2>. QED  BY <1>1, <2>4, <2>5, MoveTyped
            DEF ConfirmRead, TypeInv, TypeOK, serialVars, redisVars, history, codeHistory
<1>2. CASE ConfirmWrite(r)
  <2>. DEFINE n == enrolments + 1
              columns == [row EXCEPT !.enabled = TRUE, !.codes = BackupCodes(n)]
              q == [Idle EXCEPT !.pc = "clear"]
  <2>1. /\ enrolments < MaxEnrolments /\ enrolments' = n /\ WriteRow(r, columns, q)
        /\ proved' = proved \cup {req[r].info.secret} /\ req[r].pc = "confirm"
        /\ UNCHANGED <<now, users, secrets, tokens, attempts, used, admitted, again, wrong>>
    BY <1>2 DEF ConfirmWrite, EnableUserTotp, redisVars, codeHistory, At
  <2>2. enrolments \in Nat /\ n \in Nat /\ enrolments <= n /\ n \in 0..MaxEnrolments
    BY <2>1, ConstantFacts DEF TypeInv, TypeOK
  <2>3. BackupCodes(n) \subseteq Given(n) /\ BackupCodes(n) \subseteq BackupCode
    BY <2>2 DEF BackupCodes, Given
  <2>4. columns \in Columns /\ columns.codes = BackupCodes(n)
    BY <2>3 DEF TypeInv, TypeOK, Columns
  <2>5. proved' \subseteq Secret
    BY <2>1 DEF TypeInv, TypeOK, RequestOK
  <2>6. RequestOK(q, n)
    BY IdleOK DEF RequestOK, Request, Pcs
  <2>7. Given(enrolments) \subseteq Given(n)
    BY <2>2, GivenGrows
  <2>8. /\ admitted' \subseteq Code /\ again' \in BOOLEAN /\ secrets' \in 0..MaxSecrets
        /\ \A c \in admitted' : c.kind = "backup" => c \in Given(n)
    BY <2>1, <2>7 DEF TypeInv, TypeOK
  <2>. HIDE DEF columns, q
  <2>. QED  BY <2>1, <2>2, <2>3, <2>4, <2>5, <2>6, <2>8, WriteTyped
<1>. QED  BY <1>1, <1>2 DEF ConfirmTOTP

LEMMA AdmitTyped ==
    ASSUME TypeInv, NEW c \in Code, Admit(c), c.kind = "backup" => c \in Given(enrolments)
    PROVE  /\ admitted' \subseteq Code /\ again' \in BOOLEAN
           /\ \A x \in admitted' : x.kind = "backup" => x \in Given(enrolments)
<1>1. admitted' = admitted \cup {c} /\ admitted' \subseteq Code
  BY DEF Admit, TypeInv, TypeOK
<1>2. again' \in BOOLEAN
  BY DEF Admit, TypeInv, TypeOK
<1>. QED  BY <1>1, <1>2 DEF TypeInv

LEMMA UncountedOK ==
    ASSUME NEW q, NEW n, RequestOK(q, n)
    PROVE  RequestOK([q EXCEPT !.counted = FALSE], n)
  BY DEF RequestOK, Request

LEMMA VerifyTyped == ASSUME TypeInv, NEW r \in Requests, VerifyTOTP(r) PROVE TypeInv'
<1>0. req[r] \in Request /\ RequestOK(req[r], enrolments) /\ TypeOK
  BY DEF TypeInv, TypeOK
<1>1. ASSUME NEW code \in Typed, VerifyBegin(r, code) PROVE TypeInv'
  <2>1. PICK counted \in BOOLEAN :
          /\ attempts' = IF counted THEN Incr ELSE attempts
          /\ IF counted /\ TooMany(attempts')
             THEN UNCHANGED req
             ELSE Goto(r, [Idle EXCEPT !.pc = "verify", !.code = code, !.counted = counted])
    BY <1>1 DEF VerifyBegin
  <2>2. attempts' \in 0..MaxAttempts + 1
    BY <2>1, ConstantFacts DEF Incr, TypeInv, TypeOK
  <2>3. code \in Code
    BY DEF Typed, Code
  <2>. DEFINE q == [Idle EXCEPT !.pc = "verify", !.code = code, !.counted = counted]
  <2>4. RequestOK(q, enrolments)
    BY <2>3, IdleOK DEF RequestOK, Request, Pcs
  <2>5. Goto(r, q) \/ Goto(r, req[r])
    BY <2>1, <1>0 DEF Goto, TypeOK
  <2>. HIDE DEF q
  <2>. QED  BY <1>0, <1>1, <2>2, <2>4, <2>5, MoveTyped
            DEF VerifyBegin, TypeInv, TypeOK, serialVars, history, codeHistory
<1>2. CASE VerifyRead(r)
  <2>. DEFINE p == Step(r, "check")
              i == [p.info EXCEPT !.secret = row.secret, !.codes = row.codes]
              q == [p EXCEPT !.info = i]
  <2>1. p \in Request /\ p.pc = "check" /\ p.info \in Columns
    BY <1>0, StepFacts DEF Pcs, Request
  <2>2. i \in Columns /\ i.codes = row.codes
    BY <2>1 DEF TypeInv, TypeOK, Columns
  <2>3. q \in Request /\ q.pc = "check" /\ q.info = i
    BY <2>1, <2>2 DEF Request
  <2>4. RequestOK(q, enrolments)
    BY <2>2, <2>3 DEF TypeInv, RequestOK
  <2>5. [p EXCEPT !.info.secret = row.secret, !.info.codes = row.codes] = q
    BY <2>1 DEF Request, Columns
  <2>6. Goto(r, q) \/ Goto(r, Idle)
    BY <1>2, <2>5 DEF VerifyRead
  <2>7. RequestOK(Idle, enrolments)
    BY IdleOK
  <2>. HIDE DEF q
  <2>. QED  BY <1>2, <2>4, <2>6, <2>7, MoveTyped
            DEF VerifyRead, TypeInv, TypeOK, serialVars, redisVars, history, codeHistory
<1>3. CASE VerifyTotpCode(r)
  <2>0. req[r].code \in TotpCode /\ req[r].code \in Code /\ req[r].counted \in BOOLEAN
    BY <1>0, <1>3, CodeFacts DEF VerifyTotpCode, ValidNow, Request
  <2>. DEFINE q == [Idle EXCEPT !.pc = "store", !.code = req[r].code, !.counted = req[r].counted]
  <2>1. RequestOK(q, enrolments)
    BY <2>0, IdleOK DEF RequestOK, Request, Pcs
  <2>2. Goto(r, q)
    BY <1>3 DEF VerifyTotpCode
  <2>. HIDE DEF q
  <2>. QED  BY <1>3, <2>1, <2>2, MoveTyped
            DEF VerifyTotpCode, TypeInv, TypeOK, serialVars, redisVars, history, codeHistory
<1>7. CASE StoreUsed(r)
  <2>0. req[r].code \in TotpCode /\ req[r].code \in Code /\ req[r].code.kind = "totp"
    BY <1>0, <1>7, CodeFacts DEF StoreUsed, At, RequestOK, Request
  <2>1. CASE Refuse(r) /\ UNCHANGED <<used, codeHistory>>
    <3>1. wrong' \in Nat /\ Goto(r, Idle) /\ RequestOK(Idle, enrolments)
      BY <2>1, IdleOK DEF Refuse, TypeInv, TypeOK
    <3>. QED  BY <1>7, <2>1, <3>1, MoveTyped DEF StoreUsed, TypeInv, TypeOK, serialVars, codeHistory
  <2>2. CASE /\ ~IsUsed(req[r].code)
             /\ used' = used \cup {[code |-> req[r].code, until |-> now + UsedTTL]}
             /\ Admit(req[r].code)
             /\ Goto(r, [Idle EXCEPT !.pc = "clear"])
             /\ UNCHANGED wrong
    <3>. DEFINE q == [Idle EXCEPT !.pc = "clear"]
    <3>1. RequestOK(q, enrolments) /\ q \in Request
      BY IdleOK DEF RequestOK, Request, Pcs
    <3>2. Goto(r, q)
      BY <2>2
    <3>. HIDE DEF q
    <3>3. req' \in [Requests -> Request] /\ req'[r] = q /\ \A x \in Requests : x # r => req'[x] = req[x]
      BY <1>0, <3>1, <3>2, GotoFacts
    <3>4. now + UsedTTL \in Nat
      BY ConstantFacts DEF UsedTTL, TypeInv, TypeOK
    <3>5. used' \subseteq [code: TotpCode, until: Nat]
      BY <2>0, <2>2, <3>4 DEF TypeInv, TypeOK
    <3>6. UNCHANGED <<now, users, row, secrets, enrolments, tokens, attempts, proved, overwrote, wrong>>
      BY <1>7, <2>2 DEF StoreUsed, serialVars
    <3>7. /\ admitted' \subseteq Code /\ again' \in BOOLEAN
          /\ \A x \in admitted' : x.kind = "backup" => x \in Given(enrolments)
      BY <2>0, <2>2, AdmitTyped
    <3>8. TypeOK'
      BY <3>3, <3>5, <3>6, <3>7 DEF TypeInv, TypeOK
    <3>9. \A x \in Requests : RequestOK(req'[x], enrolments)
      BY <3>1, <3>3 DEF TypeInv
    <3>10. \A x \in Requests : RequestOK(req[x], enrolments)'
      BY <3>6, <3>9 DEF RequestOK, Given
    <3>. QED  BY <3>6, <3>7, <3>8, <3>10 DEF TypeInv, Given
  <2>. QED  BY <1>7, <2>1, <2>2 DEF StoreUsed
<1>4. CASE VerifyBackupCode(r)
  <2>. DEFINE q == [Idle EXCEPT !.pc = "clear"]
              columns == [row EXCEPT !.codes = req[r].info.codes \ {req[r].code}]
  <2>0. /\ req[r].code \in Given(enrolments) /\ req[r].code \in Code
        /\ req[r].info.codes \subseteq Given(enrolments)
    BY <1>0, <1>4 DEF VerifyBackupCode, RequestOK, Given, Code
  <2>1. RequestOK(q, enrolments) /\ q \in Request
    BY IdleOK DEF RequestOK, Request, Pcs
  <2>2. /\ UNCHANGED <<now, users, secrets, enrolments, tokens, attempts, used, proved, wrong>>
        /\ \/ WriteRow(r, columns, q)
           \/ Goto(r, q) /\ overwrote' = TRUE /\ UNCHANGED row
    BY <1>4 DEF VerifyBackupCode, UpdateUserBackupCodes, serialVars, redisVars
  <2>3. columns \in Columns /\ columns.codes \subseteq Given(enrolments)
    BY <2>0 DEF TypeInv, TypeOK, Columns, Given
  <2>4. /\ admitted' \subseteq Code /\ again' \in BOOLEAN
        /\ \A x \in admitted' : x.kind = "backup" => x \in Given(enrolments)
    BY <1>4, <2>0, AdmitTyped DEF VerifyBackupCode
  <2>5. enrolments \in 0..MaxEnrolments /\ enrolments >= enrolments /\ secrets \in 0..MaxSecrets /\ proved \subseteq Secret
    BY ConstantFacts DEF TypeInv, TypeOK
  <2>. HIDE DEF q, columns
  <2>6. CASE WriteRow(r, columns, q)
    BY <2>1, <2>2, <2>3, <2>4, <2>5, <2>6, WriteTyped
  <2>7. CASE Goto(r, q) /\ overwrote' = TRUE /\ UNCHANGED row
    <3>1. req' \in [Requests -> Request] /\ req'[r] = q /\ \A x \in Requests : x # r => req'[x] = req[x]
      BY <1>0, <2>1, <2>7, GotoFacts
    <3>2. TypeOK'
      BY <2>2, <2>4, <2>7, <3>1 DEF TypeInv, TypeOK
    <3>3. \A x \in Requests : RequestOK(req'[x], enrolments)
      BY <2>1, <3>1 DEF TypeInv
    <3>4. \A x \in Requests : RequestOK(req[x], enrolments)'
      BY <2>2, <3>3 DEF RequestOK, Given
    <3>. QED  BY <2>2, <2>4, <2>7, <3>2, <3>4 DEF TypeInv, Given
  <2>. QED  BY <2>2, <2>6, <2>7
<1>5. CASE VerifyInvalid(r)
  <2>1. wrong' \in Nat /\ Goto(r, Idle) /\ RequestOK(Idle, enrolments)
    BY <1>5, IdleOK DEF VerifyInvalid, Refuse, TypeInv, TypeOK
  <2>. QED  BY <1>5, <2>1, MoveTyped DEF VerifyInvalid, TypeInv, TypeOK, serialVars, redisVars, codeHistory
<1>6. CASE ClearAttempts(r)
  <2>1. tokens' \subseteq {"totp_setup", "totp_verify", "access"}
    BY <1>6 DEF ClearAttempts, GenerateTokens, TypeInv, TypeOK
  <2>2. UNCHANGED <<now, users, row, secrets, enrolments, used, proved, admitted, again, overwrote>>
    BY <1>6 DEF ClearAttempts, serialVars, codeHistory
  <2>3. CASE Goto(r, Idle) /\ UNCHANGED <<attempts, wrong>>
    <3>1. RequestOK(Idle, enrolments)
      BY IdleOK
    <3>. QED  BY <2>1, <2>2, <2>3, <3>1, MoveTyped DEF TypeInv, TypeOK
  <2>4. CASE ResetAttempts([req EXCEPT ![r] = Idle])
    <3>1. \A x \in Requests : RequestOK([req EXCEPT ![r] = Idle][x], enrolments)
      BY <1>0, IdleOK DEF TypeInv, TypeOK
    <3>2. \A x \in Requests : req'[x] = [[req EXCEPT ![r] = Idle][x] EXCEPT !.counted = FALSE]
      BY <2>4 DEF ResetAttempts
    <3>3. ASSUME NEW x \in Requests PROVE RequestOK(req'[x], enrolments)
      <4>. DEFINE p == [req EXCEPT ![r] = Idle][x]
      <4>1. RequestOK(p, enrolments) /\ req'[x] = [p EXCEPT !.counted = FALSE]
        BY <3>1, <3>2
      <4>. HIDE DEF p
      <4>. QED  BY <4>1, UncountedOK
    <3>4. req' \in [Requests -> Request] /\ attempts' = 0 /\ wrong' = 0
      <4>1. \A x \in Requests : req'[x] \in Request
        BY <3>3 DEF RequestOK
      <4>. QED  BY <2>4, <4>1 DEF ResetAttempts
    <3>5. TypeOK'
      <4>1. 0 \in 0..MaxAttempts + 1 /\ 0 \in Nat
        BY ConstantFacts
      <4>. QED  BY <2>1, <2>2, <3>4, <4>1 DEF TypeInv, TypeOK
    <3>6. \A x \in Requests : RequestOK(req[x], enrolments)'
      BY <2>2, <3>3 DEF RequestOK, Given
    <3>. QED  BY <2>2, <3>5, <3>6 DEF TypeInv, Given
  <2>. QED  BY <1>6, <2>3, <2>4 DEF ClearAttempts
<1>. QED  BY <1>1, <1>2, <1>3, <1>4, <1>5, <1>6, <1>7 DEF VerifyTOTP

LEMMA OtherTyped ==
    ASSUME TypeInv, Login \/ DisableTOTP \/ AttemptsExpire \/ Tick
    PROVE  TypeInv'
<1>0. TypeOK
  BY DEF TypeInv
<1>1. CASE Login
  <2>1. tokens' \subseteq {"totp_setup", "totp_verify", "access"}
    BY <1>1 DEF Login, GenerateTempToken, TypeInv, TypeOK
  <2>2. UNCHANGED <<now, users, row, secrets, enrolments, attempts, used, req, proved, admitted, again, wrong, overwrote>>
    BY <1>1 DEF Login, serialVars, redisVars, history, codeHistory
  <2>3. TypeOK'
    BY <2>1, <2>2 DEF TypeInv, TypeOK
  <2>. QED  BY <2>2, <2>3 DEF TypeInv, RequestOK, Given
<1>2. CASE DisableTOTP
  <2>1. /\ row' = NewRow /\ req' = Outdated(Requests)
        /\ UNCHANGED <<now, users, secrets, enrolments, tokens, attempts, used, proved, admitted, again, wrong, overwrote>>
    BY <1>2 DEF DisableTOTP, DisableUserTotp, serialVars, redisVars, history, codeHistory
  <2>2. req' \in [Requests -> Request] /\ \A x \in Requests : SameBut(req[x], req'[x])
    BY <1>0, <2>1, OutdatedFacts
  <2>3. NewRow \in Columns /\ NewRow.codes = {}
    BY DEF NewRow, Columns
  <2>4. TypeOK'
    BY <2>1, <2>2, <2>3 DEF TypeInv, TypeOK
  <2>5. \A x \in Requests : RequestOK(req'[x], enrolments)
    BY <2>2, SameIsOK DEF TypeInv
  <2>6. \A x \in Requests : RequestOK(req[x], enrolments)'
    BY <2>1, <2>5 DEF RequestOK, Given
  <2>. QED  BY <2>1, <2>3, <2>4, <2>6 DEF TypeInv, Given
<1>3. CASE AttemptsExpire
  <2>1. /\ UNCHANGED <<now, users, row, secrets, enrolments, tokens, used, proved, admitted, again, overwrote>>
        /\ attempts' = 0 /\ wrong' = 0
        /\ req' = [x \in Requests |-> [req[x] EXCEPT !.counted = FALSE]]
    BY <1>3 DEF AttemptsExpire, ResetAttempts, serialVars, codeHistory
  <2>2. \A x \in Requests : RequestOK(req'[x], enrolments)
    BY <2>1, UncountedOK DEF TypeInv
  <2>3. req' \in [Requests -> Request]
    BY <2>1, <2>2 DEF RequestOK
  <2>4. 0 \in 0..MaxAttempts + 1 /\ 0 \in Nat
    BY ConstantFacts
  <2>5. TypeOK'
    BY <2>1, <2>3, <2>4 DEF TypeInv, TypeOK
  <2>6. \A x \in Requests : RequestOK(req[x], enrolments)'
    BY <2>1, <2>2 DEF RequestOK, Given
  <2>. QED  BY <2>1, <2>5, <2>6 DEF TypeInv, Given
<1>4. CASE Tick
  <2>1. /\ UNCHANGED <<users, row, secrets, enrolments, tokens, attempts, req, proved, again, wrong, overwrote>>
        /\ now' = now + 1 /\ now < MaxTime
        /\ used' \subseteq used /\ admitted' \subseteq admitted
    BY <1>4 DEF Tick, serialVars
  <2>2. now' \in 0..MaxTime
    BY <2>1, ConstantFacts DEF TypeInv, TypeOK
  <2>3. TypeOK'
    BY <2>1, <2>2 DEF TypeInv, TypeOK
  <2>. QED  BY <2>1, <2>3 DEF TypeInv, RequestOK, Given
<1>. QED  BY <1>1, <1>2, <1>3, <1>4

LEMMA AbortTyped == ASSUME TypeInv, NEW r \in Requests, Abort(r) PROVE TypeInv'
<1>1. Goto(r, Idle) /\ RequestOK(Idle, enrolments)
  BY IdleOK DEF Abort
<1>. QED  BY <1>1, MoveTyped DEF Abort, TypeInv, TypeOK, serialVars, redisVars, history, codeHistory

LEMMA NextTyped == TypeInv /\ [Next]_vars => TypeInv'
<1>. SUFFICES ASSUME TypeInv, [Next]_vars PROVE TypeInv'
  OBVIOUS
<1>1. ASSUME NEW r \in Requests, Register(r) \/ SetupTOTP(r) \/ ConfirmTOTP(r) \/ VerifyTOTP(r) \/ Abort(r)
      PROVE  TypeInv'
  BY <1>1, RegisterTyped, SetupTyped, ConfirmTyped, VerifyTyped, AbortTyped
<1>2. CASE Login \/ DisableTOTP \/ AttemptsExpire \/ Tick
  BY <1>2, OtherTyped
<1>3. CASE UNCHANGED vars
  BY <1>3 DEF vars, serialVars, redisVars, history, codeHistory, TypeInv, TypeOK, RequestOK, Given
<1>. QED  BY <1>1, <1>2, <1>3 DEF Next
-----------------------------------------------------------------------------
(* The row and those who have read it.  As long as nobody has written from *)
(* an outdated reading, whoever is about to write knows the row.           *)
ReadingTrue(q, columns) ==
    q.stale \/ /\ q.pc = "setup" => ~columns.enabled
               /\ q.pc = "confirm" => ~columns.enabled /\ q.info.secret = columns.secret
               /\ q.pc = "check" => q.info.codes = columns.codes

CodesInv ==
    ~overwrote => /\ \A r \in Requests : ReadingTrue(req[r], row)
                  /\ row.enabled => row.secret \in proved
                  /\ row.enabled => row.codes = BackupCodes(enrolments) \ admitted

LEMMA CodesStay ==
    ASSUME CodesInv, UNCHANGED <<row, enrolments, proved, overwrote>>,
           BackupCodes(enrolments) \ admitted' = BackupCodes(enrolments) \ admitted,
           \A x \in Requests : ReadingTrue(req[x], row) => ReadingTrue(req'[x], row)
    PROVE  CodesInv'
<1>1. ~overwrote => \A x \in Requests : ReadingTrue(req'[x], row)
  BY DEF CodesInv
<1>2. BackupCodes(enrolments)' = BackupCodes(enrolments)
  BY DEF BackupCodes
<1>3. (\A x \in Requests : ReadingTrue(req'[x], row)) => (\A x \in Requests : ReadingTrue(req[x], row)')
  BY DEF ReadingTrue
<1>. QED  BY <1>1, <1>2, <1>3 DEF CodesInv

(* A request that goes on as q, by itself.                                 *)
LEMMA CodesMove ==
    ASSUME TypeInv, CodesInv, NEW r \in Requests, NEW q \in Request, Goto(r, q), ReadingTrue(q, row),
           UNCHANGED <<row, enrolments, proved, admitted, overwrote>>
    PROVE  CodesInv'
<1>1. req'[r] = q /\ \A x \in Requests : x # r => req'[x] = req[x]
  BY GotoFacts DEF TypeInv
<1>. QED  BY <1>1, CodesStay

LEMMA CodesWrite ==
    ASSUME TypeInv, CodesInv, NEW r \in Requests, NEW columns \in Columns, NEW next \in Request,
           next.pc \in {"idle", "clear"}, WriteRow(r, columns, next),
           ~overwrote /\ ~req[r].stale /\ columns.enabled =>
              /\ columns.secret \in proved'
              /\ columns.codes = BackupCodes(enrolments') \ admitted'
    PROVE  CodesInv'
<1>. SUFFICES ASSUME ~overwrote' PROVE CodesInv'
  BY DEF CodesInv
<1>1. /\ row' = columns /\ ~overwrote /\ ~req[r].stale /\ req'[r] = next
      /\ \A x \in Requests : x # r => /\ SameBut(req[x], req'[x])
                                      /\ req[x].pc \in {"setup", "confirm", "check"} => req'[x].stale
  BY WriteFacts DEF TypeInv
<1>2. ASSUME NEW x \in Requests PROVE ReadingTrue(req'[x], columns)
  BY <1>1 DEF ReadingTrue, SameBut
<1>3. \A x \in Requests : ReadingTrue(req[x], row)'
  BY <1>1, <1>2 DEF ReadingTrue
<1>4. BackupCodes(enrolments)' = BackupCodes(enrolments')
  BY DEF BackupCodes
<1>. QED  BY <1>1, <1>3, <1>4 DEF CodesInv

LEMMA CodesOfRequest ==
    ASSUME TypeInv, CodesInv, NEW r \in Requests,
           Register(r) \/ SetupTOTP(r) \/ ConfirmTOTP(r) \/ Abort(r)
    PROVE  CodesInv'
<1>0. req[r] \in Request /\ TypeOK /\ Idle \in Request /\ Idle.pc = "idle"
  BY IdleOK DEF TypeInv, TypeOK, RequestOK
<1>. DEFINE To(pc) == [Idle EXCEPT !.pc = pc]
<1>i. \A pc \in Pcs : To(pc) \in Request /\ To(pc).pc = pc
  BY <1>0 DEF Request
<1>1. CASE RegisterCheck(r)
  <2>1. Goto(r, To("register")) /\ UNCHANGED <<row, enrolments, proved, admitted, overwrote>>
    BY <1>1 DEF RegisterCheck, serialVars, history, codeHistory
  <2>2. To("register") \in Request /\ To("register").pc = "register"
    BY <1>i DEF Pcs
  <2>. HIDE DEF To
  <2>3. ReadingTrue(To("register"), row)
    BY <2>2 DEF ReadingTrue
  <2>. QED  BY <2>1, <2>2, <2>3, CodesMove
<1>2. CASE RegisterInsert(r) \/ Abort(r)
  <2>1. Goto(r, Idle) /\ UNCHANGED <<row, enrolments, proved, admitted, overwrote>>
    BY <1>2 DEF RegisterInsert, Abort, serialVars, history, codeHistory
  <2>2. ReadingTrue(Idle, row)
    BY <1>0 DEF ReadingTrue
  <2>. QED  BY <1>0, <2>1, <2>2, CodesMove
<1>3. CASE SetupRead(r)
  <2>1. Goto(r, To("setup")) /\ UNCHANGED <<row, enrolments, proved, admitted, overwrote>> /\ ~row.enabled
    BY <1>3 DEF SetupRead, GetUserTotpInfo, serialVars, history, codeHistory
  <2>2. To("setup") \in Request /\ To("setup").pc = "setup"
    BY <1>i DEF Pcs
  <2>. HIDE DEF To
  <2>3. ReadingTrue(To("setup"), row)
    BY <2>1, <2>2 DEF ReadingTrue
  <2>. QED  BY <2>1, <2>2, <2>3, CodesMove
<1>4. CASE SetupWrite(r)
  <2>. DEFINE columns == [row EXCEPT !.secret = secrets']
  <2>1. /\ req[r].pc = "setup" /\ WriteRow(r, columns, Idle)
        /\ secrets < MaxSecrets /\ secrets' = secrets + 1
    BY <1>4 DEF SetupWrite, UpdateUserTotpSecret, At
  <2>2. secrets' \in Secret
    BY <2>1, ConstantFacts DEF TypeInv, TypeOK, Secret
  <2>3. columns \in Columns /\ columns.enabled = row.enabled
    BY <2>2 DEF TypeInv, TypeOK, Columns
  <2>4. ~overwrote /\ ~req[r].stale => ~row.enabled
    BY <2>1 DEF CodesInv, ReadingTrue
  <2>. HIDE DEF columns
  <2>. QED  BY <1>0, <2>1, <2>3, <2>4, CodesWrite
<1>5. ASSUME NEW code \in TotpCode, ConfirmRead(r, code) PROVE CodesInv'
  <2>. DEFINE i == [Idle.info EXCEPT !.secret = row.secret]
              q == [Idle EXCEPT !.pc = "confirm", !.info = i]
  <2>1. /\ Goto(r, [Idle EXCEPT !.pc = "confirm", !.info.secret = row.secret])
        /\ UNCHANGED <<row, enrolments, proved, admitted, overwrote>> /\ ~row.enabled
    BY <1>5 DEF ConfirmRead, GetUserTotpInfo, serialVars, history, codeHistory
  <2>2. row.secret \in Secret \cup {NoSecret} /\ Idle.info \in Columns
    BY <1>0 DEF TypeInv, TypeOK, Columns, Request
  <2>3. i \in Columns /\ i.secret = row.secret
    BY <2>2 DEF Columns
  <2>4. q \in Request /\ q.pc = "confirm" /\ q.info = i
    BY <1>0, <2>3 DEF Request, Pcs
  <2>5. Goto(r, q)
    BY <2>1, <1>0, <2>2 DEF Request, Columns
  <2>. HIDE DEF q, i
  <2>6. ReadingTrue(q, row)
    BY <2>1, <2>3, <2>4 DEF ReadingTrue
  <2>. QED  BY <2>1, <2>4, <2>5, <2>6, CodesMove
<1>6. CASE ConfirmWrite(r)
  <2>. DEFINE n == enrolments'
              columns == [row EXCEPT !.enabled = TRUE, !.codes = BackupCodes(n)]
  <2>1. /\ req[r].pc = "confirm" /\ WriteRow(r, columns, To("clear"))
        /\ enrolments < MaxEnrolments /\ n = enrolments + 1
        /\ proved' = proved \cup {req[r].info.secret} /\ UNCHANGED admitted
    BY <1>6 DEF ConfirmWrite, EnableUserTotp, At, codeHistory
  <2>2. enrolments \in Nat /\ n \in Nat /\ n > enrolments
    BY <2>1, ConstantFacts DEF TypeInv, TypeOK
  <2>3. columns \in Columns /\ columns.secret = row.secret /\ columns.codes = BackupCodes(n)
    BY DEF TypeInv, TypeOK, Columns, BackupCodes
  <2>4. BackupCodes(n) \ admitted' = BackupCodes(n)
    <3>1. ASSUME NEW c \in BackupCodes(n), c \in admitted PROVE FALSE
      <4>1. c \in Given(enrolments) /\ c.of = n
        BY <3>1 DEF TypeInv, BackupCodes, BackupCode
      <4>. QED  BY <2>2, <4>1 DEF Given
    <3>. QED  BY <2>1, <3>1
  <2>5. ~overwrote /\ ~req[r].stale => row.secret \in proved'
    BY <2>1 DEF CodesInv, ReadingTrue
  <2>6. To("clear") \in Request /\ To("clear").pc = "clear"
    BY <1>i DEF Pcs
  <2>. HIDE DEF columns, To
  <2>. QED  BY <2>1, <2>3, <2>4, <2>5, <2>6, CodesWrite
<1>. QED  BY <1>1, <1>2, <1>3, <1>4, <1>5, <1>6 DEF Register, SetupTOTP, ConfirmTOTP

LEMMA UncountedReads ==
    ASSUME NEW q \in Request, NEW columns, ReadingTrue(q, columns)
    PROVE  ReadingTrue([q EXCEPT !.counted = FALSE], columns)
  BY DEF ReadingTrue, Request

LEMMA CodesOfVerify ==
    ASSUME TypeInv, CodesInv, NEW r \in Requests, VerifyTOTP(r)
    PROVE  CodesInv'
<1>0. /\ req[r] \in Request /\ RequestOK(req[r], enrolments) /\ TypeOK
      /\ Idle \in Request /\ Idle.pc = "idle" /\ ReadingTrue(Idle, row)
  BY IdleOK DEF TypeInv, TypeOK, RequestOK, ReadingTrue
<1>. DEFINE done == [Idle EXCEPT !.pc = "clear"]
<1>d. done \in Request /\ done.pc = "clear" /\ ReadingTrue(done, row)
  BY <1>0 DEF Request, Pcs, ReadingTrue
<1>1. ASSUME NEW code \in Typed, VerifyBegin(r, code) PROVE CodesInv'
  <2>1. PICK counted \in BOOLEAN :
          IF counted /\ TooMany(attempts')
          THEN UNCHANGED req
          ELSE Goto(r, [Idle EXCEPT !.pc = "verify", !.code = code, !.counted = counted])
    BY <1>1 DEF VerifyBegin
  <2>. DEFINE q == [Idle EXCEPT !.pc = "verify", !.code = code, !.counted = counted]
  <2>2. q \in Request /\ q.pc = "verify"
    BY <1>0 DEF Typed, Code, Request, Pcs
  <2>3. Goto(r, q) \/ UNCHANGED req
    BY <2>1
  <2>4. UNCHANGED <<row, enrolments, proved, admitted, overwrote>>
    BY <1>1 DEF VerifyBegin, serialVars, history, codeHistory
  <2>. HIDE DEF q
  <2>5. ReadingTrue(q, row)
    BY <2>2 DEF ReadingTrue
  <2>. QED  BY <2>2, <2>3, <2>4, <2>5, CodesMove, CodesStay
<1>2. CASE VerifyRead(r)
  <2>. DEFINE p == Step(r, "check")
              i == [p.info EXCEPT !.secret = row.secret, !.codes = row.codes]
              q == [p EXCEPT !.info = i]
  <2>1. p \in Request /\ p.pc = "check" /\ p.info \in Columns
    BY <1>0, StepFacts DEF Pcs, Request
  <2>2. i \in Columns /\ i.codes = row.codes
    BY <2>1 DEF TypeInv, TypeOK, Columns
  <2>3. q \in Request /\ q.pc = "check" /\ q.info = i
    BY <2>1, <2>2 DEF Request
  <2>4. [p EXCEPT !.info.secret = row.secret, !.info.codes = row.codes] = q
    BY <2>1 DEF Request, Columns
  <2>5. Goto(r, q) \/ Goto(r, Idle)
    BY <1>2, <2>4 DEF VerifyRead
  <2>6. UNCHANGED <<row, enrolments, proved, admitted, overwrote>>
    BY <1>2 DEF VerifyRead, serialVars, history, codeHistory
  <2>. HIDE DEF q, i
  <2>7. ReadingTrue(q, row)
    BY <2>2, <2>3 DEF ReadingTrue
  <2>. QED  BY <1>0, <2>3, <2>5, <2>6, <2>7, CodesMove
<1>3. CASE VerifyTotpCode(r)
  <2>. DEFINE q == [Idle EXCEPT !.pc = "store", !.code = req[r].code, !.counted = req[r].counted]
  <2>1. Goto(r, q) /\ UNCHANGED <<row, enrolments, proved, admitted, overwrote>>
    BY <1>3 DEF VerifyTotpCode, serialVars, history, codeHistory
  <2>2. q \in Request /\ q.pc = "store"
    BY <1>0 DEF Request, Pcs
  <2>. HIDE DEF q
  <2>3. ReadingTrue(q, row)
    BY <2>2 DEF ReadingTrue
  <2>. QED  BY <2>1, <2>2, <2>3, CodesMove
<1>7. CASE StoreUsed(r)
  <2>1. /\ UNCHANGED <<row, enrolments, proved, overwrote>>
        /\ Goto(r, done) \/ Goto(r, Idle)
        /\ Admit(req[r].code) \/ UNCHANGED admitted
    BY <1>7 DEF StoreUsed, Refuse, serialVars, codeHistory
  <2>2. req[r].code \in TotpCode /\ req[r].code.kind = "totp"
    BY <1>0, <1>7, CodeFacts DEF StoreUsed, At, RequestOK, Request
  <2>3. req[r].code \notin BackupCodes(enrolments)
    BY <2>2 DEF BackupCodes, BackupCode
  <2>4. BackupCodes(enrolments) \ admitted' = BackupCodes(enrolments) \ admitted
    BY <2>1, <2>3 DEF Admit
  <2>. HIDE DEF done
  <2>5. /\ req'[r] \in {done, Idle}
        /\ \A x \in Requests : x # r => req'[x] = req[x]
    BY <1>0, <1>d, <2>1, GotoFacts
  <2>. QED  BY <1>0, <1>d, <2>1, <2>4, <2>5, CodesStay
<1>4. CASE VerifyBackupCode(r)
  <2>. DEFINE columns == [row EXCEPT !.codes = req[r].info.codes \ {req[r].code}]
  <2>1. /\ UNCHANGED <<enrolments, proved>> /\ req[r].pc = "check" /\ Admit(req[r].code)
        /\ WriteRow(r, columns, done) \/ overwrote'
    BY <1>4 DEF VerifyBackupCode, UpdateUserBackupCodes, serialVars, At
  <2>2. req[r].info.codes \subseteq BackupCode
    BY <1>0 DEF RequestOK, Given
  <2>3. /\ columns \in Columns /\ columns.enabled = row.enabled /\ columns.secret = row.secret
        /\ columns.codes = req[r].info.codes \ {req[r].code}
    BY <2>2 DEF TypeInv, TypeOK, Columns
  <2>4. ~overwrote /\ ~req[r].stale => req[r].info.codes = row.codes
    BY <2>1 DEF CodesInv, ReadingTrue
  <2>5. BackupCodes(enrolments') = BackupCodes(enrolments)
    BY <2>1
  <2>6. admitted' = admitted \cup {req[r].code}
    BY <2>1 DEF Admit
  <2>7. ~overwrote /\ ~req[r].stale /\ columns.enabled =>
          /\ columns.secret \in proved'
          /\ columns.codes = BackupCodes(enrolments') \ admitted'
    BY <2>1, <2>3, <2>4, <2>5, <2>6 DEF CodesInv
  <2>. HIDE DEF columns, done
  <2>8. CASE WriteRow(r, columns, done)
    BY <1>d, <2>3, <2>7, <2>8, CodesWrite
  <2>. QED  BY <2>1, <2>8 DEF CodesInv
<1>5. CASE VerifyInvalid(r)
  <2>1. Goto(r, Idle) /\ UNCHANGED <<row, enrolments, proved, admitted, overwrote>>
    BY <1>5 DEF VerifyInvalid, Refuse, serialVars, codeHistory
  <2>. QED  BY <1>0, <2>1, CodesMove
<1>6. CASE ClearAttempts(r)
  <2>1. UNCHANGED <<row, enrolments, proved, admitted, overwrote>>
    BY <1>6 DEF ClearAttempts, serialVars, codeHistory
  <2>2. CASE Goto(r, Idle)
    BY <1>0, <2>1, <2>2, CodesMove
  <2>3. CASE ResetAttempts([req EXCEPT ![r] = Idle])
    <3>1. [req EXCEPT ![r] = Idle] \in [Requests -> Request]
      BY <1>0 DEF TypeOK
    <3>2. \A x \in Requests : [req EXCEPT ![r] = Idle][x] = IF x = r THEN Idle ELSE req[x]
      BY <1>0 DEF TypeOK
    <3>3. \A x \in Requests : req'[x] = [[req EXCEPT ![r] = Idle][x] EXCEPT !.counted = FALSE]
      BY <2>3 DEF ResetAttempts
    <3>4. ASSUME NEW x \in Requests, ReadingTrue(req[x], row) PROVE ReadingTrue(req'[x], row)
      <4>. DEFINE p == [req EXCEPT ![r] = Idle][x]
      <4>1. p \in Request /\ req'[x] = [p EXCEPT !.counted = FALSE] /\ ReadingTrue(p, row)
        BY <1>0, <3>1, <3>2, <3>3, <3>4
      <4>. HIDE DEF p
      <4>. QED  BY <4>1, UncountedReads
    <3>. QED  BY <2>1, <3>4, CodesStay
  <2>. QED  BY <1>6, <2>2, <2>3 DEF ClearAttempts
<1>. QED  BY <1>1, <1>2, <1>3, <1>4, <1>5, <1>6, <1>7 DEF VerifyTOTP

LEMMA CodesOfOthers ==
    ASSUME TypeInv, CodesInv, Login \/ DisableTOTP \/ AttemptsExpire \/ Tick
    PROVE  CodesInv'
<1>1. CASE Login
  BY <1>1, CodesStay DEF Login, serialVars, history, codeHistory
<1>2. CASE DisableTOTP
  <2>1. /\ row' = NewRow /\ req' = Outdated(Requests) /\ UNCHANGED <<overwrote>>
    BY <1>2 DEF DisableTOTP, DisableUserTotp, history
  <2>. SUFFICES ASSUME ~overwrote PROVE CodesInv'
    BY <2>1 DEF CodesInv
  <2>2. \A x \in Requests : /\ SameBut(req[x], req'[x])
                            /\ req[x].pc \in {"setup", "confirm", "check"} => req'[x].stale
    BY <2>1, OutdatedFacts DEF TypeInv
  <2>3. \A x \in Requests : ReadingTrue(req'[x], NewRow)
    BY <2>2 DEF ReadingTrue, SameBut
  <2>4. \A x \in Requests : ReadingTrue(req[x], row)'
    BY <2>1, <2>3 DEF ReadingTrue
  <2>5. ~NewRow.enabled
    BY DEF NewRow
  <2>. QED  BY <2>1, <2>4, <2>5 DEF CodesInv
<1>3. CASE AttemptsExpire
  <2>1. UNCHANGED <<row, enrolments, proved, admitted, overwrote>>
    BY <1>3 DEF AttemptsExpire, serialVars, codeHistory
  <2>2. \A x \in Requests : req[x] \in Request /\ req'[x] = [req[x] EXCEPT !.counted = FALSE]
    BY <1>3 DEF AttemptsExpire, ResetAttempts, TypeInv, TypeOK
  <2>. QED  BY <2>1, <2>2, UncountedReads, CodesStay
<1>4. CASE Tick
  <2>1. /\ UNCHANGED <<row, enrolments, proved, overwrote, req>>
        /\ admitted' = {c \in admitted : c.kind = "totp" => c.nr + Skew >= now' \div Period}
    BY <1>4 DEF Tick, serialVars
  <2>2. \A c \in BackupCodes(enrolments) : c.kind # "totp"
    BY DEF BackupCodes, BackupCode
  <2>3. BackupCodes(enrolments) \ admitted' = BackupCodes(enrolments) \ admitted
    BY <2>1, <2>2
  <2>. QED  BY <2>1, <2>3, CodesStay
<1>. QED  BY <1>1, <1>2, <1>3, <1>4

LEMMA CodesInvariant == Spec => [](TypeInv /\ CodesInv)
<1>1. Init => TypeInv /\ CodesInv
  <2>1. Init => TypeInv
    BY InitTyped
  <2>2. ~NewRow.enabled
    BY DEF NewRow
  <2>3. Init => CodesInv
    BY <2>2, IdleOK DEF Init, CodesInv, ReadingTrue
  <2>. QED  BY <2>1, <2>3
<1>2. TypeInv /\ CodesInv /\ [Next]_vars => (TypeInv /\ CodesInv)'
  <2>. SUFFICES ASSUME TypeInv, CodesInv, [Next]_vars PROVE CodesInv'
    BY NextTyped
  <2>1. ASSUME NEW r \in Requests, Register(r) \/ SetupTOTP(r) \/ ConfirmTOTP(r) \/ VerifyTOTP(r) \/ Abort(r)
        PROVE  CodesInv'
    BY <2>1, CodesOfRequest, CodesOfVerify
  <2>2. CASE Login \/ DisableTOTP \/ AttemptsExpire \/ Tick
    BY <2>2, CodesOfOthers
  <2>3. CASE UNCHANGED vars
    BY <2>3, CodesStay DEF vars, serialVars, history, codeHistory
  <2>. QED  BY <2>1, <2>2, <2>3 DEF Next
<1>. QED  BY <1>1, <1>2, PTL DEF Spec
-----------------------------------------------------------------------------
(* One-time codes.  When a code ceases to be good, ...                     *)
GoodUntil(c) == (c.nr + 2) * Period

(* ... it is still remembered, if it was accepted; and whoever is about to *)
(* have it remembered found it good, so will have it remembered as long.   *)
OnceInv ==
    /\ \A c \in admitted : c.kind = "totp" /\ now < GoodUntil(c) =>
          \E k \in used : k.code = c /\ GoodUntil(c) <= k.until
    /\ \A r \in Requests : req[r].pc = "store" => GoodUntil(req[r].code) <= now + 3 * Period
    /\ ~again

(* Nobody comes to be about to have a code remembered.                     *)
NoneNew == \A x \in Requests : req'[x].pc = "store" => req[x].pc = "store" /\ req'[x].code = req[x].code

LEMMA OnceKept ==
    ASSUME OnceInv, NoneNew, UNCHANGED <<now, used, admitted, again>>
    PROVE  OnceInv'
  BY DEF OnceInv, NoneNew, GoodUntil

LEMMA NoneNewMove ==
    ASSUME TypeInv, NEW r \in Requests, NEW q \in Request, Goto(r, q), q.pc # "store"
    PROVE  NoneNew
<1>1. req'[r] = q /\ \A x \in Requests : x # r => req'[x] = req[x]
  BY GotoFacts DEF TypeInv
<1>. QED  BY <1>1 DEF NoneNew

LEMMA NoneNewWrite ==
    ASSUME TypeInv, NEW r \in Requests, NEW columns, NEW next \in Request,
           WriteRow(r, columns, next), next.pc # "store"
    PROVE  NoneNew
<1>1. req'[r] = next /\ \A x \in Requests : x # r => SameBut(req[x], req'[x])
  BY WriteFacts DEF TypeInv
<1>. QED  BY <1>1 DEF NoneNew, SameBut

LEMMA NoneNewReset ==
    ASSUME NEW f, \A x \in Requests : f[x] \in Request /\ (f[x] = req[x] \/ f[x].pc # "store"),
           ResetAttempts(f)
    PROVE  NoneNew
<1>1. ASSUME NEW x \in Requests
      PROVE  req'[x].pc = f[x].pc /\ req'[x].code = f[x].code
  <2>1. req'[x] = [f[x] EXCEPT !.counted = FALSE] /\ f[x] \in Request
    BY DEF ResetAttempts
  <2>. QED  BY <2>1 DEF Request
<1>. QED  BY <1>1 DEF NoneNew

LEMMA OnceOfRequest ==
    ASSUME TypeInv, OnceInv, NEW r \in Requests,
           Register(r) \/ SetupTOTP(r) \/ ConfirmTOTP(r) \/ Abort(r)
    PROVE  OnceInv'
<1>0. Idle \in Request /\ Idle.pc = "idle"
  BY IdleOK DEF RequestOK
<1>. DEFINE To(pc) == [Idle EXCEPT !.pc = pc]
<1>i. \A pc \in Pcs : To(pc) \in Request /\ To(pc).pc = pc
  BY <1>0 DEF Request
<1>u. UNCHANGED <<now, used, admitted, again>>
  BY DEF Register, RegisterCheck, RegisterInsert, SetupTOTP, SetupRead, SetupWrite,
         ConfirmTOTP, ConfirmRead, ConfirmWrite, Abort, redisVars, history, codeHistory
<1>1. CASE RegisterCheck(r) \/ SetupRead(r)
  <2>1. Goto(r, To("register")) \/ Goto(r, To("setup"))
    BY <1>1 DEF RegisterCheck, SetupRead
  <2>2. "register" \in Pcs /\ "setup" \in Pcs
    BY DEF Pcs
  <2>. HIDE DEF To
  <2>. QED  BY <1>i, <1>u, <2>1, <2>2, NoneNewMove, OnceKept
<1>2. CASE RegisterInsert(r) \/ Abort(r)
  <2>1. Goto(r, Idle)
    BY <1>2 DEF RegisterInsert, Abort
  <2>. QED  BY <1>0, <1>u, <2>1, NoneNewMove, OnceKept
<1>3. CASE SetupWrite(r)
  <2>1. WriteRow(r, [row EXCEPT !.secret = secrets'], Idle)
    BY <1>3 DEF SetupWrite, UpdateUserTotpSecret
  <2>. QED  BY <1>0, <1>u, <2>1, NoneNewWrite, OnceKept
<1>4. ASSUME NEW code \in TotpCode, ConfirmRead(r, code) PROVE OnceInv'
  <2>. DEFINE i == [Idle.info EXCEPT !.secret = row.secret]
              q == [Idle EXCEPT !.pc = "confirm", !.info = i]
  <2>1. Goto(r, [Idle EXCEPT !.pc = "confirm", !.info.secret = row.secret])
    BY <1>4 DEF ConfirmRead
  <2>2. row.secret \in Secret \cup {NoSecret} /\ Idle.info \in Columns
    BY <1>0 DEF TypeInv, TypeOK, Columns, Request
  <2>3. i \in Columns
    BY <2>2 DEF Columns
  <2>4. q \in Request /\ q.pc = "confirm"
    BY <1>0, <2>3 DEF Request, Pcs
  <2>5. Goto(r, q)
    BY <2>1, <1>0, <2>2 DEF Request, Columns
  <2>. HIDE DEF q, i
  <2>. QED  BY <1>u, <2>4, <2>5, NoneNewMove, OnceKept
<1>5. CASE ConfirmWrite(r)
  <2>1. WriteRow(r, [row EXCEPT !.enabled = TRUE, !.codes = BackupCodes(enrolments')], To("clear"))
    BY <1>5 DEF ConfirmWrite, EnableUserTotp
  <2>2. "clear" \in Pcs
    BY DEF Pcs
  <2>. HIDE DEF To
  <2>. QED  BY <1>i, <1>u, <2>1, <2>2, NoneNewWrite, OnceKept
<1>. QED  BY <1>1, <1>2, <1>3, <1>4, <1>5 DEF Register, SetupTOTP, ConfirmTOTP

(* A code found good will be remembered for as long as it is good.         *)
LEMMA OnceFound ==
    ASSUME TypeInv, OnceInv, NEW r \in Requests, VerifyTotpCode(r) PROVE OnceInv'
<1>. DEFINE code == req[r].code
            q == [Idle EXCEPT !.pc = "store", !.code = code, !.counted = req[r].counted]
<1>1. code \in Code /\ code.kind = "totp" /\ code.nr - (now \div Period) \in -1..1
  BY DEF VerifyTotpCode, ValidNow, Skew, TypeInv, TypeOK, Request
<1>2. code.nr \in Nat /\ now \in Nat
  BY <1>1, CodeFacts, ConstantFacts DEF TypeInv, TypeOK
<1>3. GoodUntil(code) <= now + 3 * Period
  BY <1>1, <1>2, ConstantFacts, RememberedLongEnough DEF GoodUntil
<1>4. Goto(r, q) /\ UNCHANGED <<now, used, admitted, again>>
  BY DEF VerifyTotpCode, redisVars, history, codeHistory
<1>5. q \in Request /\ q.code = code
  BY <1>1, IdleOK DEF RequestOK, Request, Pcs, TypeInv, TypeOK
<1>. HIDE DEF code, q
<1>6. req'[r] = q /\ \A x \in Requests : x # r => req'[x] = req[x]
  BY <1>4, <1>5, GotoFacts DEF TypeInv
<1>. QED  BY <1>3, <1>4, <1>5, <1>6 DEF OnceInv, GoodUntil

(* If it was accepted before and still is good, it is remembered.          *)
LEMMA OnceStore ==
    ASSUME TypeInv, OnceInv, NEW r \in Requests, StoreUsed(r) PROVE OnceInv'
<1>. DEFINE code == req[r].code
            q == [Idle EXCEPT !.pc = "clear"]
<1>1. /\ code \in TotpCode /\ code.kind = "totp" /\ code.nr \in Nat /\ code \in Code
      /\ GoodUntil(code) <= now + 3 * Period
  <2>1. code \in TotpCode /\ code \in Code
    BY DEF StoreUsed, At, TypeInv, TypeOK, RequestOK, Request
  <2>. QED  BY <2>1, CodeFacts DEF StoreUsed, At, OnceInv
<1>q. Idle \in Request /\ Idle.pc = "idle" /\ q \in Request /\ q.pc = "clear"
  BY IdleOK DEF RequestOK, Request, Pcs
<1>2. now' = now
  BY DEF StoreUsed
<1>3. CASE Refuse(r) /\ UNCHANGED <<used, codeHistory>>
  BY <1>2, <1>3, <1>q, NoneNewMove, OnceKept DEF Refuse, codeHistory
<1>4. CASE /\ ~IsUsed(code)
           /\ used' = used \cup {[code |-> code, until |-> now + UsedTTL]}
           /\ Admit(code)
           /\ Goto(r, q)
  <2>. DEFINE k == [code |-> code, until |-> now + 3 * Period]
  <2>2. k \in used' /\ k.code = code /\ k.until = now + 3 * Period
    BY <1>4 DEF UsedTTL
  <2>. HIDE DEF k
  <2>3. ASSUME code \in admitted, ValidNow(code, code.of) PROVE FALSE
    <3>1. now \in Nat /\ code.nr - (now \div Period) \in -1..1
      BY <2>3, ConstantFacts DEF ValidNow, Skew, TypeInv, TypeOK
    <3>2. now \div Period \in Nat
      BY <3>1, ConstantFacts, DivFacts
    <3>3. code.nr + 1 >= now \div Period
      BY <1>1, <3>1, <3>2
    <3>4. code.nr \in Nat /\ GoodUntil(code) = (code.nr + 2) * Period
      BY <1>1 DEF GoodUntil
    <3>n. now \in Nat
      BY <3>1
    <3>. HIDE DEF code
    <3>5. now < (code.nr + 2) * Period
      BY <3>n, <3>3, <3>4, ConstantFacts, StillGood
    <3>6. now < GoodUntil(code)
      BY <3>4, <3>5
    <3>. QED  BY <1>1, <1>4, <2>3, <3>6 DEF OnceInv, IsUsed
  <2>4. ~again' /\ admitted' = admitted \cup {code}
    BY <1>4, <2>3 DEF Admit, OnceInv
  <2>5. \A c \in admitted' : c.kind = "totp" /\ now < GoodUntil(c) =>
           \E j \in used' : j.code = c /\ GoodUntil(c) <= j.until
    <3>1. \A c \in admitted : c.kind = "totp" /\ now < GoodUntil(c) =>
             \E j \in used' : j.code = c /\ GoodUntil(c) <= j.until
      BY <1>4 DEF OnceInv
    <3>2. \E j \in used' : j.code = code /\ GoodUntil(code) <= j.until
      BY <1>1, <2>2
    <3>. QED  BY <2>4, <3>1, <3>2
  <2>. HIDE DEF q, code
  <2>6. NoneNew
    BY <1>4, <1>q, NoneNewMove
  <2>7. \A x \in Requests : req'[x].pc = "store" => GoodUntil(req'[x].code) <= now + 3 * Period
    BY <2>6 DEF NoneNew, OnceInv
  <2>. QED  BY <1>2, <2>4, <2>5, <2>7 DEF OnceInv, GoodUntil
<1>. QED  BY <1>3, <1>4 DEF StoreUsed

LEMMA OnceOfVerify ==
    ASSUME TypeInv, OnceInv, NEW r \in Requests, VerifyTOTP(r) PROVE OnceInv'
<1>0. /\ req[r] \in Request /\ TypeOK /\ Idle \in Request /\ Idle.pc = "idle"
  BY IdleOK DEF TypeInv, TypeOK, RequestOK
<1>. DEFINE done == [Idle EXCEPT !.pc = "clear"]
<1>d. done \in Request /\ done.pc = "clear"
  BY <1>0 DEF Request, Pcs
<1>1. ASSUME NEW code \in Typed, VerifyBegin(r, code) PROVE OnceInv'
  <2>1. PICK counted \in BOOLEAN :
          IF counted /\ TooMany(attempts')
          THEN UNCHANGED req
          ELSE Goto(r, [Idle EXCEPT !.pc = "verify", !.code = code, !.counted = counted])
    BY <1>1 DEF VerifyBegin
  <2>. DEFINE q == [Idle EXCEPT !.pc = "verify", !.code = code, !.counted = counted]
  <2>2. q \in Request /\ q.pc = "verify"
    BY <1>0 DEF Typed, Code, Request, Pcs
  <2>3. Goto(r, q) \/ UNCHANGED req
    BY <2>1
  <2>4. UNCHANGED <<now, used, admitted, again>>
    BY <1>1 DEF VerifyBegin, history, codeHistory
  <2>. HIDE DEF q
  <2>5. NoneNew
    BY <2>2, <2>3, NoneNewMove DEF NoneNew
  <2>. QED  BY <2>4, <2>5, OnceKept
<1>2. CASE VerifyRead(r)
  <2>. DEFINE p == Step(r, "check")
              i == [p.info EXCEPT !.secret = row.secret, !.codes = row.codes]
              q == [p EXCEPT !.info = i]
  <2>1. p \in Request /\ p.pc = "check" /\ p.info \in Columns
    BY <1>0, StepFacts DEF Pcs, Request
  <2>2. i \in Columns
    BY <2>1 DEF TypeInv, TypeOK, Columns
  <2>3. q \in Request /\ q.pc = "check"
    BY <2>1, <2>2 DEF Request
  <2>4. [p EXCEPT !.info.secret = row.secret, !.info.codes = row.codes] = q
    BY <2>1 DEF Request, Columns
  <2>5. Goto(r, q) \/ Goto(r, Idle)
    BY <1>2, <2>4 DEF VerifyRead
  <2>6. UNCHANGED <<now, used, admitted, again>>
    BY <1>2 DEF VerifyRead, redisVars, history, codeHistory
  <2>. HIDE DEF q, i
  <2>. QED  BY <1>0, <2>3, <2>5, <2>6, NoneNewMove, OnceKept
<1>3. CASE VerifyBackupCode(r)
  <2>1. /\ req[r].code \in req[r].info.codes /\ Admit(req[r].code) /\ UNCHANGED <<now, used>>
        /\ \/ WriteRow(r, [row EXCEPT !.codes = req[r].info.codes \ {req[r].code}], done)
           \/ Goto(r, done)
    BY <1>3 DEF VerifyBackupCode, UpdateUserBackupCodes, redisVars
  <2>2. req[r].code.kind = "backup"
    BY <2>1 DEF TypeInv, RequestOK, Given, BackupCode
  <2>. HIDE DEF done
  <2>3. NoneNew
    BY <1>d, <2>1, NoneNewWrite, NoneNewMove
  <2>4. ~again' /\ admitted' = admitted \cup {req[r].code}
    BY <2>1, <2>2 DEF Admit, ValidNow, OnceInv
  <2>5. \A x \in Requests : req'[x].pc = "store" => GoodUntil(req'[x].code) <= now + 3 * Period
    BY <2>3 DEF NoneNew, OnceInv
  <2>6. \A c \in admitted' : c.kind = "totp" /\ now < GoodUntil(c) =>
           \E j \in used' : j.code = c /\ GoodUntil(c) <= j.until
    BY <2>1, <2>2, <2>4 DEF OnceInv
  <2>. QED  BY <2>1, <2>4, <2>5, <2>6 DEF OnceInv, GoodUntil
<1>4. CASE VerifyInvalid(r)
  <2>1. Goto(r, Idle) /\ UNCHANGED <<now, used, admitted, again>>
    BY <1>4 DEF VerifyInvalid, Refuse, redisVars, codeHistory
  <2>. QED  BY <1>0, <2>1, NoneNewMove, OnceKept
<1>5. CASE ClearAttempts(r)
  <2>1. UNCHANGED <<now, used, admitted, again>>
    BY <1>5 DEF ClearAttempts, codeHistory
  <2>2. \A x \in Requests : /\ [req EXCEPT ![r] = Idle][x] \in Request
                            /\ \/ [req EXCEPT ![r] = Idle][x] = req[x]
                               \/ [req EXCEPT ![r] = Idle][x].pc # "store"
    BY <1>0 DEF TypeOK
  <2>3. ResetAttempts([req EXCEPT ![r] = Idle]) \/ Goto(r, Idle)
    BY <1>5 DEF ClearAttempts
  <2>. QED  BY <1>0, <2>1, <2>2, <2>3, NoneNewReset, NoneNewMove, OnceKept
<1>. QED  BY <1>1, <1>2, <1>3, <1>4, <1>5, OnceFound, OnceStore DEF VerifyTOTP

LEMMA OnceTick == ASSUME TypeInv, OnceInv, Tick PROVE OnceInv'
<1>1. /\ now \in Nat /\ now' = now + 1 /\ again' = again /\ req' = req
      /\ used' = {k \in used : k.until > now'}
      /\ admitted' \subseteq admitted
  BY ConstantFacts DEF Tick, TypeInv, TypeOK
<1>2. ASSUME NEW c \in admitted', c.kind = "totp", now' < GoodUntil(c)
      PROVE  \E k \in used' : k.code = c /\ GoodUntil(c) <= k.until
  <2>1. c \in admitted /\ c \in Code
    BY <1>1, <1>2 DEF TypeInv, TypeOK
  <2>2. c.nr \in Nat
    BY <1>2, <2>1, CodeFacts
  <2>3. GoodUntil(c) \in Nat
    BY <2>2, ConstantFacts DEF GoodUntil
  <2>4. now < GoodUntil(c)
    BY <1>1, <1>2, <2>3
  <2>5. PICK k \in used : k.code = c /\ GoodUntil(c) <= k.until
    BY <1>2, <2>1, <2>4 DEF OnceInv
  <2>6. k.until \in Nat
    BY DEF TypeInv, TypeOK
  <2>7. k.until > now'
    BY <1>1, <1>2, <2>3, <2>5, <2>6
  <2>. QED  BY <1>1, <2>5, <2>7
<1>3. ASSUME NEW r \in Requests, req[r].pc = "store"
      PROVE  GoodUntil(req[r].code) <= now' + 3 * Period
  <2>1. req[r].code \in TotpCode /\ req[r].code \in Code
    BY <1>3 DEF TypeInv, TypeOK, RequestOK, Request
  <2>2. GoodUntil(req[r].code) \in Nat
    BY <2>1, CodeFacts, ConstantFacts DEF GoodUntil
  <2>3. GoodUntil(req[r].code) <= now + 3 * Period /\ 3 * Period \in Nat
    BY <1>3, ConstantFacts DEF OnceInv
  <2>. QED  BY <1>1, <2>2, <2>3
<1>4. OnceInv' = /\ \A c \in admitted' : c.kind = "totp" /\ now' < GoodUntil(c) =>
                       \E k \in used' : k.code = c /\ GoodUntil(c) <= k.until
                 /\ \A r \in Requests : req'[r].pc = "store" => GoodUntil(req'[r].code) <= now' + 3 * Period
                 /\ ~again'
  BY DEF OnceInv, GoodUntil
<1>5. ~again'
  BY <1>1 DEF OnceInv
<1>. QED  BY <1>1, <1>2, <1>3, <1>4, <1>5

LEMMA OnceNext == ASSUME TypeInv, OnceInv, [Next]_vars PROVE OnceInv'
<1>1. ASSUME NEW r \in Requests, Register(r) \/ SetupTOTP(r) \/ ConfirmTOTP(r) \/ VerifyTOTP(r) \/ Abort(r)
      PROVE  OnceInv'
  BY <1>1, OnceOfRequest, OnceOfVerify
<1>2. CASE Login \/ UNCHANGED vars
  <2>1. UNCHANGED <<now, used, admitted, again, req>>
    BY <1>2 DEF Login, vars, redisVars, history, codeHistory
  <2>. QED  BY <2>1, OnceKept DEF NoneNew
<1>3. CASE DisableTOTP
  <2>1. req' = Outdated(Requests) /\ UNCHANGED <<now, used, admitted, again>>
    BY <1>3 DEF DisableTOTP, DisableUserTotp, redisVars, history, codeHistory
  <2>2. \A x \in Requests : SameBut(req[x], req'[x])
    BY <2>1, OutdatedFacts DEF TypeInv
  <2>. QED  BY <2>1, <2>2, OnceKept DEF NoneNew, SameBut
<1>4. CASE AttemptsExpire
  <2>1. ResetAttempts(req) /\ UNCHANGED <<now, used, admitted, again>>
    BY <1>4 DEF AttemptsExpire, codeHistory
  <2>2. \A x \in Requests : req[x] \in Request
    BY DEF TypeInv, TypeOK
  <2>. QED  BY <2>1, <2>2, NoneNewReset, OnceKept
<1>5. CASE Tick
  BY <1>5, OnceTick
<1>. QED  BY <1>1, <1>2, <1>3, <1>4, <1>5 DEF Next
-----------------------------------------------------------------------------
(* Attempts.  Every request that was counted, and every code refused, has  *)
(* taken one from the counter.                                             *)
Counted(f) == {r \in Requests : f[r].counted}

GuessInv ==
    /\ wrong + Cardinality(Counted(req)) <= attempts
    /\ wrong + Cardinality(Counted(req)) <= MaxAttempts

LEMMA CountFacts ==
    ASSUME NEW f
    PROVE  IsFiniteSet(Counted(f)) /\ Cardinality(Counted(f)) \in Nat
  BY ConstantFacts, FS_Subset, FS_CardinalityType DEF Counted

LEMMA CountFewer ==
    ASSUME TypeInv, GuessInv, \A x \in Requests : req'[x].counted => req[x].counted,
           wrong' = wrong, attempts' \in Nat, attempts' >= attempts
    PROVE  GuessInv'
<1>1. Counted(req') \subseteq Counted(req)
  BY DEF Counted
<1>2. Cardinality(Counted(req')) <= Cardinality(Counted(req))
  BY <1>1, CountFacts, FS_Subset
<1>3. Counted(req)' = Counted(req')
  BY DEF Counted
<1>4. Cardinality(Counted(req)) \in Nat /\ Cardinality(Counted(req')) \in Nat
  BY CountFacts
<1>. QED  BY <1>2, <1>3, <1>4, ConstantFacts DEF GuessInv, TypeInv, TypeOK

LEMMA GuessMove ==
    ASSUME TypeInv, GuessInv, NEW r \in Requests, NEW q \in Request, Goto(r, q),
           q.counted => req[r].counted, UNCHANGED <<attempts, wrong>>
    PROVE  GuessInv'
<1>1. req'[r] = q /\ \A x \in Requests : x # r => req'[x] = req[x]
  BY GotoFacts DEF TypeInv
<1>2. attempts \in Nat
  BY ConstantFacts DEF TypeInv, TypeOK
<1>. QED  BY <1>1, <1>2, CountFewer

LEMMA GuessRefuse ==
    ASSUME TypeInv, GuessInv, NEW r \in Requests, Refuse(r), UNCHANGED attempts
    PROVE  GuessInv'
<1>0. TypeOK /\ Idle \in Request /\ Idle.counted = FALSE /\ req[r].counted \in BOOLEAN
  BY IdleOK DEF TypeInv, TypeOK, RequestOK, Request
<1>1. Goto(r, Idle)
  BY DEF Refuse
<1>2. req'[r] = Idle /\ \A x \in Requests : x # r => req'[x] = req[x]
  BY <1>0, <1>1, GotoFacts
<1>3. CASE ~req[r].counted
  BY <1>0, <1>1, <1>3, GuessMove DEF Refuse
<1>4. CASE req[r].counted
  <2>1. wrong' = wrong + 1
    BY <1>4 DEF Refuse
  <2>2. Counted(req') = Counted(req) \ {r} /\ r \in Counted(req)
    BY <1>0, <1>2, <1>4 DEF Counted
  <2>3. Cardinality(Counted(req')) = Cardinality(Counted(req)) - 1
    BY <2>2, CountFacts, FS_RemoveElement
  <2>4. Counted(req)' = Counted(req')
    BY DEF Counted
  <2>5. Cardinality(Counted(req)) \in Nat
    BY CountFacts
  <2>. QED  BY <2>1, <2>3, <2>4, <2>5, ConstantFacts DEF GuessInv, TypeInv, TypeOK
<1>. QED  BY <1>0, <1>3, <1>4

(* The counter is cleared: nobody is counted.                              *)
LEMMA GuessReset ==
    ASSUME NEW f, \A x \in Requests : f[x] \in Request, ResetAttempts(f)
    PROVE  GuessInv'
<1>1. \A x \in Requests : req'[x].counted = FALSE
  BY DEF ResetAttempts, Request
<1>2. Counted(req)' = {}
  BY <1>1 DEF Counted
<1>3. Cardinality({}) = 0
  BY FS_EmptySet
<1>4. attempts' = 0 /\ wrong' = 0
  BY DEF ResetAttempts
<1>5. Cardinality(Counted(req)') = 0
  BY <1>2, <1>3
<1>. HIDE DEF Counted
<1>. QED  BY <1>4, <1>5, ConstantFacts DEF GuessInv

LEMMA GuessBegin ==
    ASSUME TypeInv, GuessInv, NEW r \in Requests, NEW code \in Typed, VerifyBegin(r, code)
    PROVE  GuessInv'
<1>0. /\ TypeOK /\ attempts \in Nat /\ wrong \in Nat /\ Cardinality(Counted(req)) \in Nat
      /\ Idle \in Request /\ code \in Code /\ req[r].counted = FALSE
  <2>1. req[r].pc = "idle" /\ RequestOK(req[r], enrolments)
    BY DEF VerifyBegin, At, TypeInv
  <2>2. req[r].counted = FALSE
    BY <2>1 DEF RequestOK, Request
  <2>. QED  BY <2>2, CountFacts, IdleOK, ConstantFacts DEF TypeInv, TypeOK, RequestOK, Typed, Code
<1>1. PICK counted \in BOOLEAN :
        /\ attempts' = IF counted THEN Incr ELSE attempts
        /\ IF counted /\ TooMany(attempts')
           THEN UNCHANGED req
           ELSE Goto(r, [Idle EXCEPT !.pc = "verify", !.code = code, !.counted = counted])
  BY DEF VerifyBegin
<1>2. wrong' = wrong
  BY DEF VerifyBegin, history
<1>. DEFINE q == [Idle EXCEPT !.pc = "verify", !.code = code, !.counted = counted]
<1>3. q \in Request /\ q.counted = counted
  BY <1>0 DEF Request, Pcs
<1>4. attempts' \in Nat /\ attempts' >= attempts
  BY <1>0, <1>1 DEF Incr
<1>5. CASE UNCHANGED req
  BY <1>2, <1>4, <1>5, CountFewer
<1>6. CASE ~counted
  <2>1. Goto(r, q) /\ UNCHANGED <<attempts, wrong>>
    BY <1>1, <1>2, <1>6
  <2>. HIDE DEF q
  <2>. QED  BY <1>3, <1>6, <2>1, GuessMove
<1>7. CASE counted /\ ~TooMany(attempts')
  <2>1. Goto(r, q) /\ attempts' = attempts + 1 /\ attempts' <= MaxAttempts
    <3>1. Goto(r, q) /\ attempts' = Incr /\ ~(attempts' > MaxAttempts)
      BY <1>1, <1>7 DEF TooMany
    <3>. QED  BY <1>0, <3>1, ConstantFacts DEF Incr
  <2>. HIDE DEF q
  <2>2. req'[r] = q /\ \A x \in Requests : x # r => req'[x] = req[x]
    BY <1>0, <1>3, <2>1, GotoFacts
  <2>3. Counted(req') = Counted(req) \cup {r} /\ r \notin Counted(req)
    BY <1>0, <1>3, <1>7, <2>2 DEF Counted
  <2>4. Cardinality(Counted(req')) = Cardinality(Counted(req)) + 1
    BY <2>3, CountFacts, FS_AddElement
  <2>5. Counted(req)' = Counted(req')
    BY DEF Counted
  <2>. QED  BY <1>0, <1>2, <2>1, <2>4, <2>5, ConstantFacts DEF GuessInv
<1>8. CASE counted /\ TooMany(attempts')
  <2>1. UNCHANGED req
    BY <1>1, <1>8
  <2>. QED  BY <1>5, <2>1
<1>. QED  BY <1>6, <1>7, <1>8

LEMMA GuessWrite ==
    ASSUME TypeInv, GuessInv, NEW r \in Requests, NEW columns, NEW next \in Request,
           WriteRow(r, columns, next), next.counted = FALSE, UNCHANGED <<attempts, wrong>>
    PROVE  GuessInv'
<1>1. req'[r] = next /\ \A x \in Requests : x # r => SameBut(req[x], req'[x])
  BY WriteFacts DEF TypeInv
<1>2. attempts \in Nat
  BY ConstantFacts DEF TypeInv, TypeOK
<1>. QED  BY <1>1, <1>2, CountFewer DEF SameBut

LEMMA GuessOfRequest ==
    ASSUME TypeInv, GuessInv, NEW r \in Requests,
           Register(r) \/ SetupTOTP(r) \/ ConfirmTOTP(r) \/ Abort(r)
    PROVE  GuessInv'
<1>0. Idle \in Request /\ Idle.counted = FALSE
  BY IdleOK DEF RequestOK
<1>. DEFINE To(pc) == [Idle EXCEPT !.pc = pc]
<1>i. \A pc \in Pcs : To(pc) \in Request /\ To(pc).counted = FALSE
  BY <1>0 DEF Request
<1>1. CASE RegisterCheck(r) \/ SetupRead(r)
  <2>1. (Goto(r, To("register")) \/ Goto(r, To("setup"))) /\ UNCHANGED <<attempts, wrong>>
    BY <1>1 DEF RegisterCheck, SetupRead, redisVars, history
  <2>2. "register" \in Pcs /\ "setup" \in Pcs
    BY DEF Pcs
  <2>. HIDE DEF To
  <2>. QED  BY <1>i, <2>1, <2>2, GuessMove
<1>2. CASE RegisterInsert(r) \/ Abort(r)
  <2>1. Goto(r, Idle) /\ UNCHANGED <<attempts, wrong>>
    BY <1>2 DEF RegisterInsert, Abort, redisVars, history
  <2>. QED  BY <1>0, <2>1, GuessMove
<1>3. CASE SetupWrite(r)
  <2>1. WriteRow(r, [row EXCEPT !.secret = secrets'], Idle) /\ UNCHANGED <<attempts, wrong>>
    BY <1>3 DEF SetupWrite, UpdateUserTotpSecret, redisVars
  <2>. QED  BY <1>0, <2>1, GuessWrite
<1>4. ASSUME NEW code \in TotpCode, ConfirmRead(r, code) PROVE GuessInv'
  <2>. DEFINE i == [Idle.info EXCEPT !.secret = row.secret]
              q == [Idle EXCEPT !.pc = "confirm", !.info = i]
  <2>1. /\ Goto(r, [Idle EXCEPT !.pc = "confirm", !.info.secret = row.secret])
        /\ UNCHANGED <<attempts, wrong>>
    BY <1>4 DEF ConfirmRead, redisVars, history
  <2>2. row.secret \in Secret \cup {NoSecret} /\ Idle.info \in Columns
    BY <1>0 DEF TypeInv, TypeOK, Columns, Request
  <2>3. i \in Columns
    BY <2>2 DEF Columns
  <2>4. q \in Request /\ q.counted = FALSE
    BY <1>0, <2>3 DEF Request, Pcs
  <2>5. Goto(r, q)
    BY <2>1, <1>0, <2>2 DEF Request, Columns
  <2>. HIDE DEF q, i
  <2>. QED  BY <2>1, <2>4, <2>5, GuessMove
<1>5. CASE ConfirmWrite(r)
  <2>1. /\ WriteRow(r, [row EXCEPT !.enabled = TRUE, !.codes = BackupCodes(enrolments')], To("clear"))
        /\ UNCHANGED <<attempts, wrong>>
    BY <1>5 DEF ConfirmWrite, EnableUserTotp, redisVars
  <2>2. "clear" \in Pcs
    BY DEF Pcs
  <2>. HIDE DEF To
  <2>. QED  BY <1>i, <2>1, <2>2, GuessWrite
<1>. QED  BY <1>1, <1>2, <1>3, <1>4, <1>5 DEF Register, SetupTOTP, ConfirmTOTP

LEMMA GuessOfVerify ==
    ASSUME TypeInv, GuessInv, NEW r \in Requests, VerifyTOTP(r)
    PROVE  GuessInv'
<1>0. req[r] \in Request /\ TypeOK /\ Idle \in Request /\ Idle.counted = FALSE
  BY IdleOK DEF TypeInv, TypeOK, RequestOK
<1>. DEFINE done == [Idle EXCEPT !.pc = "clear"]
<1>d. done \in Request /\ done.counted = FALSE
  BY <1>0 DEF Request, Pcs
<1>1. CASE \E code \in Typed : VerifyBegin(r, code)
  BY <1>1, GuessBegin
<1>2. CASE VerifyRead(r)
  <2>. DEFINE p == Step(r, "check")
              i == [p.info EXCEPT !.secret = row.secret, !.codes = row.codes]
              q == [p EXCEPT !.info = i]
  <2>1. p \in Request /\ p.counted = req[r].counted /\ p.info \in Columns
    BY <1>0, StepFacts DEF Pcs, Request
  <2>2. i \in Columns
    BY <2>1 DEF TypeInv, TypeOK, Columns
  <2>3. q \in Request /\ q.counted = req[r].counted
    BY <2>1, <2>2 DEF Request
  <2>4. [p EXCEPT !.info.secret = row.secret, !.info.codes = row.codes] = q
    BY <2>1 DEF Request, Columns
  <2>5. Goto(r, q) \/ Goto(r, Idle)
    BY <1>2, <2>4 DEF VerifyRead
  <2>6. UNCHANGED <<attempts, wrong>>
    BY <1>2 DEF VerifyRead, redisVars, history
  <2>. HIDE DEF q, i
  <2>. QED  BY <1>0, <2>3, <2>5, <2>6, GuessMove
<1>3. CASE VerifyTotpCode(r)
  <2>. DEFINE q == [Idle EXCEPT !.pc = "store", !.code = req[r].code, !.counted = req[r].counted]
  <2>1. Goto(r, q) /\ UNCHANGED <<attempts, wrong>>
    BY <1>3 DEF VerifyTotpCode, redisVars, history
  <2>2. q \in Request /\ q.counted = req[r].counted
    BY <1>0 DEF Request, Pcs
  <2>. HIDE DEF q
  <2>. QED  BY <2>1, <2>2, GuessMove
<1>7. CASE StoreUsed(r)
  <2>1. attempts' = attempts /\ (Refuse(r) \/ (Goto(r, done) /\ wrong' = wrong))
    BY <1>7 DEF StoreUsed
  <2>. HIDE DEF done
  <2>. QED  BY <1>d, <2>1, GuessRefuse, GuessMove
<1>4. CASE VerifyBackupCode(r)
  <2>1. /\ UNCHANGED <<attempts, wrong>>
        /\ \/ WriteRow(r, [row EXCEPT !.codes = req[r].info.codes \ {req[r].code}], done)
           \/ Goto(r, done)
    BY <1>4 DEF VerifyBackupCode, UpdateUserBackupCodes, redisVars
  <2>. HIDE DEF done
  <2>. QED  BY <1>d, <2>1, GuessWrite, GuessMove
<1>5. CASE VerifyInvalid(r)
  BY <1>5, GuessRefuse DEF VerifyInvalid, redisVars
<1>6. CASE ClearAttempts(r)
  <2>1. \A x \in Requests : [req EXCEPT ![r] = Idle][x] \in Request
    BY <1>0 DEF TypeOK
  <2>2. ResetAttempts([req EXCEPT ![r] = Idle]) \/ (Goto(r, Idle) /\ UNCHANGED <<attempts, wrong>>)
    BY <1>6 DEF ClearAttempts
  <2>. QED  BY <1>0, <2>1, <2>2, GuessReset, GuessMove
<1>. QED  BY <1>1, <1>2, <1>3, <1>4, <1>5, <1>6, <1>7 DEF VerifyTOTP

LEMMA GuessNext == ASSUME TypeInv, GuessInv, [Next]_vars PROVE GuessInv'
<1>0. TypeOK /\ attempts \in Nat
  BY ConstantFacts DEF TypeInv, TypeOK
<1>1. ASSUME NEW r \in Requests, Register(r) \/ SetupTOTP(r) \/ ConfirmTOTP(r) \/ VerifyTOTP(r) \/ Abort(r)
      PROVE  GuessInv'
  BY <1>1, GuessOfRequest, GuessOfVerify
<1>2. CASE Login \/ Tick \/ UNCHANGED vars
  <2>1. UNCHANGED <<req, attempts, wrong>>
    BY <1>2 DEF Login, Tick, vars, redisVars, history
  <2>. QED  BY <1>0, <2>1, CountFewer
<1>3. CASE DisableTOTP
  <2>1. req' = Outdated(Requests) /\ UNCHANGED <<attempts, wrong>>
    BY <1>3 DEF DisableTOTP, DisableUserTotp, redisVars, history
  <2>2. \A x \in Requests : SameBut(req[x], req'[x])
    BY <1>0, <2>1, OutdatedFacts
  <2>. QED  BY <1>0, <2>1, <2>2, CountFewer DEF SameBut
<1>4. CASE AttemptsExpire
  BY <1>0, <1>4, GuessReset DEF AttemptsExpire, TypeOK
<1>. QED  BY <1>1, <1>2, <1>3, <1>4 DEF Next
-----------------------------------------------------------------------------
LEMMA AccountsInvariance == Spec => [](TypeInv /\ OnceInv /\ GuessInv)
<1>1. Init => TypeInv /\ OnceInv /\ GuessInv
  <2>1. Init => TypeInv
    BY InitTyped
  <2>2. Init => OnceInv
    BY IdleOK DEF Init, OnceInv
  <2>3. ASSUME Init PROVE GuessInv
    <3>1. Counted(req) = {}
      BY <2>3, IdleOK DEF Init, Counted
    <3>. QED  BY <2>3, <3>1, FS_EmptySet, ConstantFacts DEF Init, GuessInv
  <2>. QED  BY <2>1, <2>2, <2>3
<1>2. TypeInv /\ OnceInv /\ GuessInv /\ [Next]_vars => (TypeInv /\ OnceInv /\ GuessInv)'
  BY NextTyped, OnceNext, GuessNext
<1>. QED  BY <1>1, <1>2, PTL DEF Spec

(* The row, the keys in Redis and what every request has read are what the *)
(* declarations of TOTPService and the columns of users say they are,      *)
(* however many requests of one person interleave.                         *)
THEOREM TypeCorrect == Spec => []TypeOK
<1>1. TypeInv => TypeOK
  BY DEF TypeInv
<1>. QED  BY <1>1, AccountsInvariance, PTL

(* VerifyTOTP's SET NX with its time to live admits no one-time code a     *)
(* second time while the code is good: for any length of a period and      *)
(* however long a request takes from the validation to Redis, the key      *)
(* outlives the last tick at which the validation, with its skew, would    *)
(* take the code.  Beyond that tick nothing is promised, and a request     *)
(* that validated in time may still be on its way.                         *)
THEOREM TotpCodeOpensOneSession == Spec => []TotpCodesOnce
<1>1. OnceInv => TotpCodesOnce
  BY DEF OnceInv, TotpCodesOnce
<1>. QED  BY <1>1, AccountsInvariance, PTL

(* VerifyTOTP's counter bounds the codes that are judged between two of    *)
(* its resets to otpMaxAttempts, however many requests count at once and   *)
(* wherever they or their servers stop.                                    *)
THEOREM GuessesAlwaysBounded == Spec => []GuessesBounded
<1>1. GuessInv => GuessesBounded
  BY DEF GuessInv, GuessesBounded, Counted
<1>. QED  BY <1>1, AccountsInvariance, PTL

(* ConfirmTOTP enables the codes only of a secret a code was shown for:    *)
(* unless a request wrote from an outdated reading of the row (which       *)
(* SetupTOTP and ConfirmTOTP do when they race), enabled means proved.     *)
THEOREM EnabledAlwaysProved == Spec => []EnabledIsProved
<1>1. CodesInv => EnabledIsProved
  BY DEF CodesInv, EnabledIsProved
<1>. QED  BY <1>1, CodesInvariant, PTL

(* VerifyTOTP strikes off each backup code it accepts and no other, and    *)
(* ConfirmTOTP gives a whole new set: unless a write was lost or made from *)
(* an outdated reading, the row holds the latest set less those accepted.  *)
THEOREM BackupCodesAlwaysExact == Spec => []CodesExact
<1>1. CodesInv => CodesExact
  BY DEF CodesInv, CodesExact
<1>. QED  BY <1>1, CodesInvariant, PTL
=============================================================================

--------------------------- MODULE AccountsProofs ---------------------------
(* Proofs about Accounts, for any phones, roles offered, calls and writes  *)
(* under way, and about Accounts on the server it shares with the others.  *)
EXTENDS Server, TLAPS

USE DEF verdictVars

-----------------------------------------------------------------------------
(* Type correctness: the argument of a handler fits the write it has to do.*)

ArgFits(h) ==
    /\ h.pc \in {"del", "find"} => h.arg \in UserRole \cup {"NONE"}
    /\ h.pc = "create" => h.arg \in UserRole
    /\ h.pc = "type" => h.arg \in RiderType
    /\ h.pc = "verdict" => h.arg \in VerificationStatus
    /\ h.pc = "status" => h.arg \in UserStatus

ArgsOK == \A h \in running : ArgFits(h)

TypeInv == AccountsTypeOK /\ ArgsOK

\* A handler that goes on to another write keeps everything else.
LEMMA AtFields ==
    ASSUME NEW h \in Handler, NEW pc \in PC
    PROVE  /\ At(h, pc) \in Handler
           /\ At(h, pc).pc = pc
           /\ At(h, pc).call = h.call /\ At(h, pc).phone = h.phone
           /\ At(h, pc).read = h.read /\ At(h, pc).arg = h.arg
BY DEF At, Handler

\* A write that a call starts with is well typed.
LEMMA WriteFields ==
    ASSUME AccountsTypeOK, NEW pc \in PC, NEW ph \in Phone, NEW n \in Nat, NEW a \in Arg
    PROVE  /\ ToDo(pc, ph, n, a) \in Handler
           /\ ToDo(pc, ph, n, a).pc = pc /\ ToDo(pc, ph, n, a).phone = ph
           /\ ToDo(pc, ph, n, a).read = n /\ ToDo(pc, ph, n, a).arg = a
           /\ ToDo(pc, ph, n, a).call = calls
BY DEF ToDo, Handler, AccountsTypeOK

\* And its argument fits if it fits the kind of write.
LEMMA WriteFits ==
    ASSUME AccountsTypeOK, NEW pc \in PC, NEW ph \in Phone, NEW n \in Nat, NEW a \in Arg,
           /\ pc \in {"del", "find"} => a \in UserRole \cup {"NONE"}
           /\ pc = "create" => a \in UserRole
           /\ pc = "type" => a \in RiderType
           /\ pc = "verdict" => a \in VerificationStatus
           /\ pc = "status" => a \in UserStatus
    PROVE  ToDo(pc, ph, n, a) \in Handler /\ ArgFits(ToDo(pc, ph, n, a))
BY WriteFields DEF ArgFits

RunningOK == /\ running \subseteq Handler
             /\ overlapped \subseteq Phone
             /\ calls \in Nat
             /\ ArgsOK

\* A call that starts with well-typed writes leaves running well typed.
LEMMA StartRuns ==
    ASSUME TypeInv, NEW ph \in Phone, NEW writes, Start(ph, writes),
           \A h \in writes : h \in Handler /\ ArgFits(h)
    PROVE  RunningOK'
BY DEF TypeInv, AccountsTypeOK, ArgsOK, Start, RunningOK, ArgFits

\* So does one write that is done.
LEMMA EndRuns ==
    ASSUME TypeInv, NEW h \in running, End(h)
    PROVE  RunningOK'
BY DEF TypeInv, AccountsTypeOK, ArgsOK, End, RunningOK, ArgFits

\* And a handler that goes on.
LEMMA ContinueRuns ==
    ASSUME TypeInv, NEW h \in running, NEW pc \in {"find", "create"},
           Continue(h, pc), h.arg \in UserRole \cup {"NONE"},
           pc = "create" => h.arg \in UserRole
    PROVE  RunningOK'
<1>1. h \in Handler
  BY DEF TypeInv, AccountsTypeOK
<1>2. pc \in PC
  BY DEF PC
<1>3. At(h, pc) \in Handler /\ ArgFits(At(h, pc))
  BY <1>1, <1>2, AtFields DEF ArgFits
<1> QED
  BY <1>3 DEF TypeInv, AccountsTypeOK, ArgsOK, Continue, RunningOK, ArgFits

\* The sets of arguments are part of Arg.
LEMMA Args ==
    /\ "NONE" \in Arg /\ "PENDING" \in Arg
    /\ UserRole \subseteq Arg /\ UserStatus \subseteq Arg
    /\ VerificationStatus \subseteq Arg /\ RiderType \subseteq Arg
    /\ {"ONLINE", "OFFLINE"} \subseteq Arg
    /\ "PENDING" \in VerificationStatus
    /\ \A v : StatusFor(v) \in UserStatus
BY DEF Arg, UserRole, UserStatus, VerificationStatus, RiderType, StatusFor

\* Nothing has started yet.
LEMMA InitType == AccountsInit => TypeInv
BY Args DEF AccountsInit, TypeInv, AccountsTypeOK, ArgsOK, UserStatus, RiderType, VerificationStatus

\* A call for a phone keeps the types.
LEMMA CallType ==
    ASSUME TypeInv, NEW ph \in Phone, Login(ph) \/ UserCalls(ph) \/ AdminCalls(ph)
    PROVE  TypeInv'
<1> USE Args
<1>0. AccountsTypeOK /\ code[ph] \in Nat /\ made[ph] + 1 \in Nat /\ papers[ph] \in Nat
  BY DEF TypeInv, AccountsTypeOK
<1>1. CASE RequestOtp(ph)
  <2>1. made[ph] + 1 \in Nat /\ "sms" \in PC
    BY <1>0 DEF PC
  <2>2. ToDo("sms", ph, made[ph] + 1, "NONE") \in Handler
        /\ ArgFits(ToDo("sms", ph, made[ph] + 1, "NONE"))
    BY <1>0, <2>1, WriteFits
  <2>3. RunningOK'
    BY <1>1, <2>2, StartRuns DEF RequestOtp
  <2> QED
    BY <1>0, <1>1, <2>3 DEF RequestOtp, TypeInv, AccountsTypeOK, RunningOK, userVars, profileVars
<1>2. ASSUME NEW given, VerifyOtp(ph, given)
      PROVE  TypeInv'
  <2>1. "del" \in PC /\ given \in Arg /\ given \in UserRole \cup {"NONE"}
    BY <1>2 DEF PC, VerifyOtp
  <2>2. ToDo("del", ph, code[ph], given) \in Handler
        /\ ArgFits(ToDo("del", ph, code[ph], given))
    BY <1>0, <2>1, WriteFits
  <2>3. RunningOK'
    BY <1>2, <2>2, StartRuns DEF VerifyOtp
  <2> QED
    BY <1>0, <1>2, <2>3 DEF VerifyOtp, TypeInv, AccountsTypeOK, RunningOK, codeVars, userVars,
                            profileVars
<1>3. ASSUME NEW type \in RiderType, UpdateRiderProfile(ph, type)
      PROVE  TypeInv'
  <2>1. ToDo("type", ph, 0, type) \in Handler /\ ArgFits(ToDo("type", ph, 0, type))
    BY <1>0, WriteFits DEF PC
  <2>2. RunningOK'
    BY <1>3, <2>1, StartRuns DEF UpdateRiderProfile
  <2> QED
    BY <1>0, <1>3, <2>2 DEF UpdateRiderProfile, EnsureProfile, TypeInv, AccountsTypeOK, RunningOK,
                            codeVars, userVars
<1>4. CASE SubmitKyc(ph)
  <2>1. ToDo("kyc", ph, 0, "PENDING") \in Handler
        /\ ArgFits(ToDo("kyc", ph, 0, "PENDING"))
    BY <1>0, WriteFits DEF PC
  <2>2. RunningOK'
    BY <1>4, <2>1, StartRuns DEF SubmitKyc
  <2> QED
    BY <1>0, <1>4, <2>2 DEF SubmitKyc, EnsureProfile, TypeInv, AccountsTypeOK, RunningOK,
                            codeVars, userVars
<1>5. ASSUME NEW to \in {"ONLINE", "OFFLINE"}, ToggleOnlineStatus(ph, to)
      PROVE  TypeInv'
  <2>1. ToDo("online", ph, 0, to) \in Handler /\ ArgFits(ToDo("online", ph, 0, to))
    BY <1>0, WriteFits DEF PC
  <2>2. RunningOK'
    BY <1>5, <2>1, StartRuns DEF ToggleOnlineStatus
  <2> QED
    BY <1>0, <1>5, <2>2 DEF ToggleOnlineStatus, TypeInv, AccountsTypeOK, RunningOK, codeVars,
                            userVars, profileVars
<1>6. ASSUME NEW verdict \in VerificationStatus, NEW seen \in MayHaveSeen(ph),
             VerifyRider(ph, verdict, seen) \/ AdminVerifyRider(ph, verdict, seen)
      PROVE  TypeInv'
  <2>0. seen \in Nat
    BY <1>0 DEF MayHaveSeen, AccountsTypeOK
  <2>1. ToDo("verdict", ph, seen, verdict) \in Handler
        /\ ArgFits(ToDo("verdict", ph, seen, verdict))
    BY <1>0, <2>0, WriteFits DEF PC
  <2>2. ToDo("status", ph, 0, StatusFor(verdict)) \in Handler
        /\ ArgFits(ToDo("status", ph, 0, StatusFor(verdict)))
    BY <1>0, WriteFits DEF PC
  <2>3. RunningOK'
    BY <1>6, <2>1, <2>2, StartRuns DEF VerifyRider, AdminVerifyRider
  <2> QED
    BY <1>0, <1>6, <2>3 DEF VerifyRider, AdminVerifyRider, TypeInv, AccountsTypeOK, RunningOK,
                            codeVars, userVars, profileVars
<1>7. ASSUME NEW type \in RiderType, ChangeRiderFleet(ph, type)
      PROVE  TypeInv'
  <2>1. ToDo("type", ph, 0, type) \in Handler /\ ArgFits(ToDo("type", ph, 0, type))
    BY <1>0, WriteFits DEF PC
  <2>2. RunningOK'
    BY <1>7, <2>1, StartRuns DEF ChangeRiderFleet
  <2> QED
    BY <1>0, <1>7, <2>2 DEF ChangeRiderFleet, TypeInv, AccountsTypeOK, RunningOK, codeVars,
                            userVars, profileVars
<1>8. ASSUME NEW status \in UserStatus, UpdateUserStatus(ph, status)
      PROVE  TypeInv'
  <2>1. ToDo("status", ph, 0, status) \in Handler
        /\ ArgFits(ToDo("status", ph, 0, status))
    BY <1>0, WriteFits DEF PC
  <2>2. RunningOK'
    BY <1>8, <2>1, StartRuns DEF UpdateUserStatus
  <2> QED
    BY <1>0, <1>8, <2>2 DEF UpdateUserStatus, TypeInv, AccountsTypeOK, RunningOK, codeVars,
                            userVars, profileVars
<1>9. CASE UpsertBusinessAccount(ph)
  <2>1. ToDo("company", ph, 0, "PENDING") \in Handler
        /\ ArgFits(ToDo("company", ph, 0, "PENDING"))
    BY <1>0, WriteFits DEF PC
  <2>2. RunningOK'
    BY <1>9, <2>1, StartRuns DEF UpsertBusinessAccount
  <2> QED
    BY <1>0, <1>9, <2>2 DEF UpsertBusinessAccount, TypeInv, AccountsTypeOK, RunningOK, codeVars,
                            profileVars
<1> QED
  BY <1>1, <1>2, <1>3, <1>4, <1>5, <1>6, <1>7, <1>8, <1>9 DEF Login, UserCalls, AdminCalls

\* So does a handler's next write, whether it lands or fails.
LEMMA StepType ==
    ASSUME TypeInv, NEW h \in running, Step(h) \/ Fail(h)
    PROVE  TypeInv'
<1>0. /\ AccountsTypeOK /\ h \in Handler /\ h.phone \in Phone /\ h.read \in Nat /\ h.call \in Nat
      /\ ArgFits(h)
  BY DEF TypeInv, AccountsTypeOK, ArgsOK, Handler
<1>1. ASSUME End(h)
      PROVE  RunningOK'
  BY <1>1, EndRuns
<1>2. CASE SendOtp(h)
  BY <1>0, <1>1, <1>2 DEF SendOtp, TypeInv, AccountsTypeOK, RunningOK, userVars, profileVars
<1>3. CASE DelCode(h)
  <2>1. RunningOK'
    BY <1>0, <1>3, ContinueRuns DEF DelCode, ArgFits
  <2> QED
    BY <1>0, <1>3, <2>1 DEF DelCode, TypeInv, AccountsTypeOK, RunningOK, userVars, profileVars
<1>4. CASE FindUser(h)
  <2>1. role[h.phone] \in UserRole
    BY <1>0, <1>4 DEF FindUser, AccountsTypeOK
  <2>2. tokens' \subseteq Token
    BY <1>0, <1>4, <2>1 DEF FindUser, GenerateToken, Token, AccountsTypeOK
  <2> QED
    BY <1>0, <1>1, <1>4, <2>2
    DEF FindUser, TypeInv, AccountsTypeOK, RunningOK, codeVars, profileVars
<1>5. CASE FindNobody(h)
  <2>1. RunningOK'
    <3>1. CASE h.arg = "NONE"
      BY <1>1, <1>5, <3>1 DEF FindNobody
    <3>2. CASE h.arg # "NONE"
      BY <1>0, <1>5, <3>2, ContinueRuns DEF FindNobody, ArgFits
    <3> QED
      BY <3>1, <3>2
  <2> QED
    BY <1>0, <1>5, <2>1 DEF FindNobody, TypeInv, AccountsTypeOK, RunningOK, codeVars, userVars,
                            profileVars
<1>6. CASE CreateUser(h)
  <2>1. h.arg \in UserRole
    BY <1>0, <1>6 DEF CreateUser, ArgFits
  <2>2. tokens' \subseteq Token
    BY <1>0, <1>6, <2>1 DEF CreateUser, GenerateToken, Token, AccountsTypeOK
  <2>3. userStatus' \in [Phone -> UserStatus]
    BY <1>0, <1>6 DEF CreateUser, AccountsTypeOK, UserStatus
  <2> QED
    BY <1>0, <1>1, <1>6, <2>1, <2>2, <2>3
    DEF CreateUser, TypeInv, AccountsTypeOK, RunningOK, codeVars, profileVars
<1>7. CASE WriteType(h)
  BY <1>0, <1>1, <1>7 DEF WriteType, TypeInv, AccountsTypeOK, RunningOK, codeVars, userVars, ArgFits
<1>8. CASE WriteKyc(h)
  BY <1>0, <1>1, <1>8, Args DEF WriteKyc, TypeInv, AccountsTypeOK, RunningOK, codeVars, userVars
<1>9. CASE WriteOnline(h)
  BY <1>0, <1>1, <1>9 DEF WriteOnline, TypeInv, AccountsTypeOK, RunningOK, codeVars, userVars
<1>10. CASE WriteVerdict(h)
  BY <1>0, <1>1, <1>10 DEF WriteVerdict, TypeInv, AccountsTypeOK, RunningOK, codeVars, userVars,
                           ArgFits
<1>11. CASE WriteStatus(h)
  BY <1>0, <1>1, <1>11 DEF WriteStatus, TypeInv, AccountsTypeOK, RunningOK, codeVars, profileVars,
                           ArgFits
<1>12. CASE Fail(h)
  BY <1>0, <1>1, <1>12 DEF Fail, TypeInv, AccountsTypeOK, RunningOK, codeVars, userVars, profileVars
<1>13. CASE WriteCompany(h)
  BY <1>0, <1>1, <1>13 DEF WriteCompany, TypeInv, AccountsTypeOK, RunningOK, codeVars, profileVars
<1> QED
  BY <1>2, <1>3, <1>4, <1>5, <1>6, <1>7, <1>8, <1>9, <1>10, <1>11, <1>12, <1>13 DEF Step

\* No step breaks a type.
LEMMA TypeStep == TypeInv /\ [AccountsNext]_accountVars => TypeInv'
<1> SUFFICES ASSUME TypeInv, [AccountsNext]_accountVars
             PROVE  TypeInv'
  OBVIOUS
<1>1. CASE ServeAccounts
  BY <1>1, CallType, StepType DEF ServeAccounts
<1>2. ASSUME NEW ph \in Phone, ExpireOtp(ph)
      PROVE  TypeInv'
  BY <1>2 DEF ExpireOtp, TypeInv, AccountsTypeOK, ArgsOK, ArgFits, userVars, profileVars
<1>3. CASE Crash
  BY <1>3 DEF Crash, TypeInv, AccountsTypeOK, ArgsOK, codeVars, userVars, profileVars
<1>4. CASE LoseCodes
  BY <1>4 DEF LoseCodes, TypeInv, AccountsTypeOK, ArgsOK, ArgFits, userVars, profileVars
<1>5. CASE UNCHANGED accountVars
  BY <1>5 DEF accountVars, TypeInv, AccountsTypeOK, ArgsOK, ArgFits, codeVars, userVars, profileVars
<1> QED
  BY <1>1, <1>2, <1>3, <1>4, <1>5 DEF AccountsNext

\* Accounts, profiles, codes and handlers keep their types.
THEOREM TypeCorrect == AccountsSpec => []AccountsTypeOK
<1>1. TypeInv => AccountsTypeOK
  BY DEF TypeInv
<1> QED
  BY <1>1, InitType, TypeStep, PTL DEF AccountsSpec

-----------------------------------------------------------------------------
(* What a call does, whichever it is: it starts the writes of one phone.   *)

Judging == {"verdict", "status"}

\* a call's writes: more than one only for verifyRider
WritesFit(ph, writes) ==
    /\ \A w \in writes : w \in Handler /\ w.phone = ph /\ w.pc \notin {"find", "create"}
    /\ \A v, w \in writes : v = w \/ (v.pc \in Judging /\ w.pc \in Judging)
    /\ \A w \in writes : w.pc \in {"kyc", "verdict"} => verification'[ph] # "NONE"
    /\ \A w \in writes : w.pc = "company" => ph \in business'

\* what it does to the codes
CodesFit(ph, writes) ==
    \/ /\ made' = [made EXCEPT ![ph] = @ + 1]
       /\ code' = [code EXCEPT ![ph] = made[ph] + 1]
       /\ \A w \in writes : w.pc = "sms" /\ w.read = made[ph] + 1
    \/ /\ UNCHANGED <<made, code>>
       /\ \A w \in writes : w.pc # "sms"
       /\ \A w \in writes : w.pc = "del" => (w.read = code[ph] /\ code[ph] \in texted[ph])

\* what it does to the profile, or to the business
ProfileFits(ph) ==
    /\ \A p \in Phone : \/ verification'[p] = verification[p]
                        \/ (p = ph /\ role[ph] = "RIDER" /\ verification'[p] = "PENDING")
    /\ \/ UNCHANGED business
       \/ role[ph] \in BusinessRoles /\ business' = business \cup {ph}
    /\ UNCHANGED <<texted, role, tokens, inReview, papers, verdictVars>>

CallFits(ph, writes) ==
    Start(ph, writes) /\ WritesFit(ph, writes) /\ CodesFit(ph, writes) /\ ProfileFits(ph)

\* Calls of one write.
LEMMA OneWrite ==
    ASSUME TypeInv, NEW ph \in Phone, NEW pc \in PC \ {"find", "create"}, NEW n \in Nat,
           NEW a \in Arg,
           pc \in {"kyc", "verdict"} => verification'[ph] # "NONE",
           pc = "company" => ph \in business'
    PROVE  WritesFit(ph, {ToDo(pc, ph, n, a)})
<1>1. /\ ToDo(pc, ph, n, a) \in Handler
      /\ ToDo(pc, ph, n, a).pc = pc /\ ToDo(pc, ph, n, a).phone = ph
      /\ ToDo(pc, ph, n, a).read = n
  BY WriteFields DEF TypeInv
<1> QED
  BY <1>1 DEF WritesFit

\* ensureProfile leaves a profile, and no other change than its creation.
LEMMA Ensured ==
    ASSUME TypeInv, NEW ph \in Phone, EnsureProfile(ph), IsRider(ph),
           UNCHANGED <<codeVars, userVars>>
    PROVE  ProfileFits(ph) /\ verification'[ph] # "NONE"
BY DEF TypeInv, AccountsTypeOK, EnsureProfile, ProfileFits, IsRider, SignedInAs, codeVars, userVars

\* Every call is of this form.
LEMMA CallDoes ==
    ASSUME TypeInv, NEW ph \in Phone, Login(ph) \/ UserCalls(ph) \/ AdminCalls(ph)
    PROVE  \E writes : CallFits(ph, writes)
<1> USE Args
<1>0. AccountsTypeOK /\ code[ph] \in Nat /\ made[ph] + 1 \in Nat /\ papers[ph] \in Nat
  BY DEF TypeInv, AccountsTypeOK
<1>1. CASE RequestOtp(ph)
  <2> DEFINE w == ToDo("sms", ph, made[ph] + 1, "NONE")
  <2>1. "sms" \in PC \ {"find", "create"} /\ "NONE" \in Arg
    BY DEF PC
  <2>2. WritesFit(ph, {w})
    BY <1>0, <2>1, OneWrite
  <2>3. w.pc = "sms" /\ w.read = made[ph] + 1
    BY <1>0, <2>1, WriteFields
  <2> HIDE DEF w
  <2>4. Start(ph, {w}) /\ CodesFit(ph, {w}) /\ ProfileFits(ph)
    BY <1>1, <2>3 DEF RequestOtp, CodesFit, ProfileFits, userVars, profileVars, w
  <2> QED
    BY <2>2, <2>4 DEF CallFits
<1>2. ASSUME NEW given, VerifyOtp(ph, given)
      PROVE  \E writes : CallFits(ph, writes)
  <2> DEFINE w == ToDo("del", ph, code[ph], given)
  <2>1. "del" \in PC \ {"find", "create"} /\ given \in Arg
    BY <1>2 DEF PC, VerifyOtp
  <2>2. WritesFit(ph, {w})
    BY <1>0, <2>1, OneWrite
  <2>3. w.pc = "del" /\ w.read = code[ph]
    BY <1>0, <2>1, WriteFields
  <2> HIDE DEF w
  <2>4. Start(ph, {w}) /\ CodesFit(ph, {w}) /\ ProfileFits(ph)
    BY <1>2, <2>3 DEF VerifyOtp, CodesFit, ProfileFits, codeVars, userVars, profileVars, w
  <2> QED
    BY <2>2, <2>4 DEF CallFits
<1>3. ASSUME NEW type \in RiderType,
             UpdateRiderProfile(ph, type) \/ ChangeRiderFleet(ph, type)
      PROVE  \E writes : CallFits(ph, writes)
  <2> DEFINE w == ToDo("type", ph, 0, type)
  <2>1. "type" \in PC \ {"find", "create"} /\ type \in Arg
    BY DEF PC
  <2>2. WritesFit(ph, {w})
    BY <2>1, OneWrite
  <2>3. w.pc = "type"
    BY <1>0, <2>1, WriteFields
  <2> HIDE DEF w
  <2>4. Start(ph, {w}) /\ UNCHANGED <<codeVars, userVars>>
    BY <1>3 DEF UpdateRiderProfile, ChangeRiderFleet, w
  <2>5. ProfileFits(ph)
    <3>1. CASE UpdateRiderProfile(ph, type)
      BY <3>1, Ensured DEF UpdateRiderProfile
    <3>2. CASE ChangeRiderFleet(ph, type)
      BY <3>2 DEF ChangeRiderFleet, ProfileFits, codeVars, userVars, profileVars
    <3> QED
      BY <1>3, <3>1, <3>2
  <2> QED
    BY <2>2, <2>3, <2>4, <2>5 DEF CallFits, CodesFit, codeVars
<1>4. CASE SubmitKyc(ph)
  <2> DEFINE w == ToDo("kyc", ph, 0, "PENDING")
  <2>1. "kyc" \in PC \ {"find", "create"} /\ "PENDING" \in Arg
    BY DEF PC
  <2>2. ProfileFits(ph) /\ verification'[ph] # "NONE"
    BY <1>4, Ensured DEF SubmitKyc
  <2>3. WritesFit(ph, {w})
    BY <2>1, <2>2, OneWrite
  <2>4. w.pc = "kyc"
    BY <1>0, <2>1, WriteFields
  <2> HIDE DEF w
  <2>5. Start(ph, {w}) /\ UNCHANGED codeVars
    BY <1>4 DEF SubmitKyc, w
  <2> QED
    BY <2>2, <2>3, <2>4, <2>5 DEF CallFits, CodesFit, codeVars
<1>5. ASSUME NEW to \in {"ONLINE", "OFFLINE"}, ToggleOnlineStatus(ph, to)
      PROVE  \E writes : CallFits(ph, writes)
  <2> DEFINE w == ToDo("online", ph, 0, to)
  <2>1. "online" \in PC \ {"find", "create"} /\ to \in Arg
    BY DEF PC
  <2>2. WritesFit(ph, {w})
    BY <2>1, OneWrite
  <2>3. w.pc = "online"
    BY <1>0, <2>1, WriteFields
  <2> HIDE DEF w
  <2>4. Start(ph, {w}) /\ UNCHANGED <<codeVars, userVars, profileVars>>
    BY <1>5 DEF ToggleOnlineStatus, w
  <2> QED
    BY <2>2, <2>3, <2>4 DEF CallFits, CodesFit, ProfileFits, codeVars, userVars, profileVars
<1>6. ASSUME NEW verdict \in VerificationStatus, NEW seen \in MayHaveSeen(ph),
             VerifyRider(ph, verdict, seen) \/ AdminVerifyRider(ph, verdict, seen)
      PROVE  \E writes : CallFits(ph, writes)
  <2> DEFINE v == ToDo("verdict", ph, seen, verdict)
             w == ToDo("status", ph, 0, StatusFor(verdict))
  <2>1. {"verdict", "status"} \subseteq PC /\ {verdict, StatusFor(verdict)} \subseteq Arg
    BY DEF PC
  <2>2. verification'[ph] # "NONE"
    BY <1>6 DEF VerifyRider, AdminVerifyRider, HasProfile, profileVars
  <2>3. v \in Handler /\ v.pc = "verdict" /\ v.phone = ph
    <3>1. seen \in Nat
      BY DEF MayHaveSeen, TypeInv, AccountsTypeOK
    <3> QED
      BY <1>0, <2>1, <3>1, WriteFields
  <2>4. w \in Handler /\ w.pc = "status" /\ w.phone = ph
    BY <1>0, <2>1, WriteFields
  <2> HIDE DEF v, w
  <2>5. ASSUME NEW writes \in SUBSET {v, w}
        PROVE  WritesFit(ph, writes)
    BY <2>2, <2>3, <2>4, <2>5 DEF WritesFit, Judging
  <2>6. PICK writes \in SUBSET {v, w} : Start(ph, writes)
    BY <1>6 DEF VerifyRider, AdminVerifyRider, v, w
  <2>7. UNCHANGED <<codeVars, userVars, profileVars>>
    BY <1>6 DEF VerifyRider, AdminVerifyRider
  <2> QED
    BY <2>3, <2>4, <2>5, <2>6, <2>7
    DEF CallFits, CodesFit, ProfileFits, codeVars, userVars, profileVars
<1>7. ASSUME NEW status \in UserStatus, UpdateUserStatus(ph, status)
      PROVE  \E writes : CallFits(ph, writes)
  <2> DEFINE w == ToDo("status", ph, 0, status)
  <2>1. "status" \in PC \ {"find", "create"} /\ status \in Arg
    BY DEF PC
  <2>2. WritesFit(ph, {w})
    BY <2>1, OneWrite
  <2>3. w.pc = "status"
    BY <1>0, <2>1, WriteFields
  <2> HIDE DEF w
  <2>4. Start(ph, {w}) /\ UNCHANGED <<codeVars, userVars, profileVars>>
    BY <1>7 DEF UpdateUserStatus, w
  <2> QED
    BY <2>2, <2>3, <2>4 DEF CallFits, CodesFit, ProfileFits, codeVars, userVars, profileVars
<1>8. CASE UpsertBusinessAccount(ph)
  <2> DEFINE w == ToDo("company", ph, 0, "PENDING")
  <2>1. "company" \in PC \ {"find", "create"} /\ "PENDING" \in Arg
    BY DEF PC
  <2>2. ProfileFits(ph) /\ ph \in business'
    BY <1>8 DEF UpsertBusinessAccount, SignedInAs, ProfileFits, codeVars, profileVars
  <2>3. WritesFit(ph, {w})
    BY <2>1, <2>2, OneWrite
  <2>4. w.pc = "company"
    BY DEF ToDo
  <2> HIDE DEF w
  <2>5. Start(ph, {w}) /\ UNCHANGED codeVars
    BY <1>8 DEF UpsertBusinessAccount, w
  <2> QED
    BY <2>2, <2>3, <2>4, <2>5 DEF CallFits, CodesFit, codeVars
<1> QED
  BY <1>1, <1>2, <1>3, <1>4, <1>5, <1>6, <1>7, <1>8 DEF Login, UserCalls, AdminCalls

-----------------------------------------------------------------------------
(* The handlers of a phone that has not had two calls at once.             *)

Alone ==
    \A g, h \in running :
        g.phone = h.phone /\ g.phone \notin overlapped
            => g = h \/ (g.pc \in Judging /\ h.pc \in Judging)

\* Where a phone's codes are.
CodesOK ==
    /\ \A ph \in Phone : code[ph] <= made[ph]
    /\ \A ph \in Phone : \A c \in texted[ph] : c # 0 /\ c <= made[ph]
    /\ \A h \in running : h.pc \in {"sms", "del", "find", "create"} =>
          h.read # 0 /\ h.read <= made[h.phone]
    /\ \A t \in tokens : t.code # 0 /\ t.code <= made[t.phone]
    /\ \A t \in tokens : t.phone \notin overlapped => t.code # code[t.phone]
    /\ \A h \in running, t \in tokens :
          (h.pc \in {"del", "find", "create"} /\ h.phone \notin overlapped
             /\ t.phone = h.phone) => t.code # h.read
    /\ \A h \in running :
          (h.pc \in {"find", "create"} /\ h.phone \notin overlapped)
             => h.read # code[h.phone]
    /\ CodeServesOnce

\* The handlers that write verification do so to a profile, those that write the
\* details of a company to a user with a business.
RolesOK ==
    /\ RolesAgree
    /\ \A h \in running : h.pc \in {"kyc", "verdict"} => HasProfile(h.phone)
    /\ \A h \in running : h.pc = "company" => h.phone \in business

SafeInv == TypeInv /\ Alone /\ CodesOK /\ RolesOK /\ VerifiedAsJudged

\* Nobody is at work and no token is out.
LEMMA InitSafe == AccountsInit => SafeInv
<1> SUFFICES ASSUME AccountsInit
             PROVE  SafeInv
  OBVIOUS
<1>1. TypeInv
  BY InitType
<1>2. Alone /\ VerifiedAsJudged
  BY DEF AccountsInit, Alone, VerifiedAsJudged
<1>3. CodesOK
  BY DEF AccountsInit, CodesOK, CodeServesOnce
<1>4. RolesOK
  BY DEF AccountsInit, RolesOK, RolesAgree, HasProfile
<1> QED
  BY <1>1, <1>2, <1>3, <1>4 DEF SafeInv

-----------------------------------------------------------------------------
(* A call keeps each of them.                                              *)

\* Who is running after a call: the writes of ph are alone unless it overlaps.
LEMMA Started ==
    ASSUME TypeInv, NEW ph \in Phone, NEW writes, CallFits(ph, writes)
    PROVE  /\ running' = running \cup writes
           /\ overlapped \subseteq overlapped'
           /\ ph \notin overlapped' => \A h \in running : h.phone # ph
           /\ \A w \in writes : w \in Handler /\ w.phone = ph
BY DEF CallFits, Start, Busy, WritesFit

LEMMA CallAlone ==
    ASSUME SafeInv, NEW ph \in Phone, NEW writes, CallFits(ph, writes)
    PROVE  Alone'
<1>1. TypeInv /\ Alone
  BY DEF SafeInv
<1>2. \A v, w \in writes : v = w \/ (v.pc \in Judging /\ w.pc \in Judging)
  BY DEF CallFits, WritesFit
<1> QED
  BY <1>1, <1>2, Started DEF Alone

\* A new code is later than any before; verifyOtp takes the one that is stored.
LEMMA CallCodes ==
    ASSUME SafeInv, NEW ph \in Phone, NEW writes, CallFits(ph, writes)
    PROVE  CodesOK'
<1>0. /\ AccountsTypeOK /\ CodesOK
      /\ made[ph] \in Nat /\ code[ph] \in Nat
      /\ \A t \in tokens : t.phone \in Phone /\ t.code \in Nat
      /\ \A h \in running : h.phone \in Phone /\ h.read \in Nat
      /\ UNCHANGED <<texted, tokens>>
  BY DEF SafeInv, TypeInv, AccountsTypeOK, Token, Handler, CallFits, ProfileFits
<1>1. /\ running' = running \cup writes
      /\ overlapped \subseteq overlapped'
      /\ \A w \in writes : w.phone = ph /\ w.pc \notin {"find", "create"}
      /\ \A w \in writes : w \in Handler
  BY Started DEF SafeInv, CallFits, WritesFit
<1>2. CASE /\ made' = [made EXCEPT ![ph] = @ + 1]
           /\ code' = [code EXCEPT ![ph] = made[ph] + 1]
           /\ \A w \in writes : w.pc = "sms" /\ w.read = made[ph] + 1
  <2>1. \A p \in Phone : made[p] \in Nat /\ code[p] \in Nat
    BY <1>0 DEF AccountsTypeOK
  <2>2. \A p \in Phone : /\ made'[p] = IF p = ph THEN made[p] + 1 ELSE made[p]
                         /\ code'[p] = IF p = ph THEN made[p] + 1 ELSE code[p]
    BY <1>0, <1>2 DEF AccountsTypeOK
  <2>3. (\A p \in Phone : code[p] <= made[p])'
    BY <1>0, <2>1, <2>2 DEF CodesOK
  <2>4. (\A p \in Phone : \A c \in texted[p] : c # 0 /\ c <= made[p])'
    BY <1>0, <2>1, <2>2 DEF CodesOK, AccountsTypeOK
  <2>5. (\A h \in running : h.pc \in {"sms", "del", "find", "create"} =>
          h.read # 0 /\ h.read <= made[h.phone])'
    BY <1>0, <1>1, <1>2, <2>1, <2>2 DEF CodesOK
  <2>6. (\A t \in tokens : t.code # 0 /\ t.code <= made[t.phone])'
    BY <1>0, <2>1, <2>2 DEF CodesOK
  <2>7. (\A t \in tokens : t.phone \notin overlapped => t.code # code[t.phone])'
    BY <1>0, <1>1, <2>1, <2>2 DEF CodesOK
  <2>8. (\A h \in running, t \in tokens :
          (h.pc \in {"del", "find", "create"} /\ h.phone \notin overlapped
             /\ t.phone = h.phone) => t.code # h.read)'
    BY <1>0, <1>1, <1>2 DEF CodesOK
  <2>9. (\A h \in running :
          (h.pc \in {"find", "create"} /\ h.phone \notin overlapped)
             => h.read # code[h.phone])'
    BY <1>0, <1>1, <2>1, <2>2 DEF CodesOK
  <2>10. CodeServesOnce'
    BY <1>0, <1>1 DEF CodesOK, CodeServesOnce
  <2> QED
    BY <2>3, <2>4, <2>5, <2>6, <2>7, <2>8, <2>9, <2>10 DEF CodesOK
<1>3. CASE /\ UNCHANGED <<made, code>>
           /\ \A w \in writes : w.pc # "sms"
           /\ \A w \in writes : w.pc = "del" => (w.read = code[ph] /\ code[ph] \in texted[ph])
  <2>1. code[ph] \in texted[ph] => code[ph] # 0 /\ code[ph] <= made[ph]
    BY <1>0 DEF CodesOK
  <2>2. (\A h \in running : h.pc \in {"sms", "del", "find", "create"} =>
          h.read # 0 /\ h.read <= made[h.phone])'
    BY <1>0, <1>1, <1>3, <2>1 DEF CodesOK
  <2>3. (\A h \in running, t \in tokens :
          (h.pc \in {"del", "find", "create"} /\ h.phone \notin overlapped
             /\ t.phone = h.phone) => t.code # h.read)'
    BY <1>0, <1>1, <1>3 DEF CodesOK
  <2> QED
    BY <1>0, <1>1, <1>3, <2>2, <2>3 DEF CodesOK, CodeServesOnce
<1> QED
  BY <1>2, <1>3 DEF CallFits, CodesFit

LEMMA CallRoles ==
    ASSUME SafeInv, NEW ph \in Phone, NEW writes, CallFits(ph, writes)
    PROVE  RolesOK'
<1>0. AccountsTypeOK /\ RolesOK /\ (\A h \in running : h.phone \in Phone)
      /\ UNCHANGED <<role, tokens, inReview>>
  BY DEF SafeInv, TypeInv, AccountsTypeOK, Handler, CallFits, ProfileFits
<1>1. /\ running' = running \cup writes
      /\ \A w \in writes : w.phone = ph
      /\ \A w \in writes : w.pc \in {"kyc", "verdict"} => verification'[ph] # "NONE"
      /\ \A w \in writes : w.pc = "company" => ph \in business'
  BY Started DEF SafeInv, CallFits, WritesFit
<1>2. \A p \in Phone : \/ verification'[p] = verification[p]
                       \/ (p = ph /\ role[ph] = "RIDER" /\ verification'[p] = "PENDING")
  BY DEF CallFits, ProfileFits
<1>3. \/ UNCHANGED business
      \/ role[ph] \in BusinessRoles /\ business' = business \cup {ph}
  BY DEF CallFits, ProfileFits
<1> QED
  BY <1>0, <1>1, <1>2, <1>3 DEF RolesOK, RolesAgree, HasProfile

LEMMA CallJudged ==
    ASSUME SafeInv, NEW ph \in Phone, NEW writes, CallFits(ph, writes)
    PROVE  VerifiedAsJudged'
<1>0. VerifiedAsJudged /\ UNCHANGED <<papers, verdictVars>>
  BY DEF SafeInv, CallFits, ProfileFits
<1>1. \A p \in Phone : verification'[p] = "VERIFIED" => verification[p] = "VERIFIED"
  BY DEF CallFits, ProfileFits
<1> QED
  BY <1>0, <1>1 DEF VerifiedAsJudged

-----------------------------------------------------------------------------
(* So does the next write of a handler.                                    *)

\* What is left running: the others, and the handler itself if it goes on.
LEMMA Left ==
    ASSUME SafeInv, NEW h \in running, Step(h) \/ Fail(h)
    PROVE  /\ UNCHANGED overlapped
           /\ h \in Handler
           /\ \/ running' = running \ {h}
              \/ \E pc \in {"find", "create"} :
                   /\ running' = (running \ {h}) \cup {At(h, pc)}
                   /\ At(h, pc).pc = pc /\ At(h, pc).phone = h.phone
                   /\ At(h, pc).read = h.read
                   /\ h.pc \in {"del", "find"}
<1>1. h \in Handler
  BY DEF SafeInv, TypeInv, AccountsTypeOK
<1>2. \A pc \in {"find", "create"} : /\ At(h, pc).pc = pc /\ At(h, pc).phone = h.phone
                                     /\ At(h, pc).read = h.read
  BY <1>1, AtFields DEF PC
<1> QED
  BY <1>1, <1>2
  DEF Step, Fail, End, Continue, SendOtp, DelCode, FindUser, FindNobody, CreateUser, WriteType,
      WriteKyc, WriteOnline, WriteCompany, WriteVerdict, WriteStatus

LEMMA StepAlone ==
    ASSUME SafeInv, NEW h \in running, Step(h) \/ Fail(h)
    PROVE  Alone'
<1>1. Alone
  BY DEF SafeInv
<1>2. CASE running' = running \ {h}
  BY <1>1, <1>2, Left DEF Alone
<1>3. ASSUME NEW pc \in {"find", "create"},
             running' = (running \ {h}) \cup {At(h, pc)}, At(h, pc).phone = h.phone,
             h.pc \in {"del", "find"}
      PROVE  Alone'
  BY <1>1, <1>3, Left DEF Alone, Judging
<1> QED
  BY <1>2, <1>3, Left

\* The steps that leave the codes and the tokens alone.
LEMMA RestCodes ==
    ASSUME CodesOK, running' \subseteq running, UNCHANGED <<codeVars, tokens, overlapped>>
    PROVE  CodesOK'
BY DEF CodesOK, CodeServesOnce, codeVars

\* The token that h gets is the only one for its code.
LEMMA TokenCodes ==
    ASSUME SafeInv, NEW h \in running, h.pc \in {"find", "create"}, NEW r \in UserRole,
           GenerateToken(h, r), End(h), UNCHANGED codeVars
    PROVE  CodesOK'
<1> DEFINE new == [phone |-> h.phone, role |-> r, code |-> h.read, call |-> h.call]
<1>0. CodesOK /\ Alone /\ h \in Handler /\ h.phone \in Phone
  BY DEF SafeInv, TypeInv, AccountsTypeOK, Handler
<1>1. new.phone = h.phone /\ new.code = h.read /\ tokens' = tokens \cup {new}
  BY DEF GenerateToken
<1> HIDE DEF new
<1>2. running' = running \ {h} /\ UNCHANGED <<code, made, texted, overlapped>>
  BY DEF End, codeVars
<1>3. h.read # 0 /\ h.read <= made[h.phone]
  BY <1>0 DEF CodesOK
<1>4. h.phone \notin overlapped => h.read # code[h.phone]
  BY <1>0 DEF CodesOK
<1>5. \A g \in running' : h.phone \notin overlapped => g.phone # h.phone
  BY <1>0, <1>2 DEF Alone, Judging
<1>6. (\A t \in tokens : t.code # 0 /\ t.code <= made[t.phone])'
  BY <1>0, <1>1, <1>2, <1>3 DEF CodesOK
<1>7. (\A t \in tokens : t.phone \notin overlapped => t.code # code[t.phone])'
  BY <1>0, <1>1, <1>2, <1>4 DEF CodesOK
<1>8. (\A g \in running, t \in tokens :
          (g.pc \in {"del", "find", "create"} /\ g.phone \notin overlapped
             /\ t.phone = g.phone) => t.code # g.read)'
  BY <1>0, <1>1, <1>2, <1>5 DEF CodesOK
<1>9. CodeServesOnce'
  BY <1>0, <1>1, <1>2 DEF CodesOK, CodeServesOnce
<1> QED
  BY <1>0, <1>2, <1>6, <1>7, <1>8, <1>9 DEF CodesOK

LEMMA StepCodes ==
    ASSUME SafeInv, NEW h \in running, Step(h) \/ Fail(h)
    PROVE  CodesOK'
<1>0. /\ AccountsTypeOK /\ CodesOK /\ h \in Handler /\ h.phone \in Phone /\ ArgFits(h)
      /\ \A t \in tokens : t.phone \in Phone
      /\ \A g \in running : g.phone \in Phone /\ g.read \in Nat
  BY DEF SafeInv, TypeInv, AccountsTypeOK, ArgsOK, Handler, Token
<1>1. CASE SendOtp(h)
  <2>1. running' \subseteq running /\ UNCHANGED <<code, made, tokens, overlapped>>
    BY <1>1 DEF SendOtp, End, userVars
  <2>2. h.read # 0 /\ h.read <= made[h.phone]
    BY <1>0, <1>1 DEF CodesOK, SendOtp
  <2>3. (\A ph \in Phone : \A c \in texted[ph] : c # 0 /\ c <= made[ph])'
    BY <1>0, <1>1, <2>1, <2>2 DEF CodesOK, SendOtp, AccountsTypeOK
  <2> QED
    BY <1>0, <2>1, <2>3 DEF CodesOK, CodeServesOnce
<1>2. CASE DelCode(h)
  <2>1. /\ At(h, "find").pc = "find" /\ At(h, "find").phone = h.phone
        /\ At(h, "find").read = h.read
    BY <1>0, AtFields DEF PC
  <2>2. /\ running' = (running \ {h}) \cup {At(h, "find")} /\ h.pc = "del"
        /\ UNCHANGED <<made, texted, tokens, overlapped>>
    BY <1>2 DEF DelCode, Continue, userVars
  <2>3. \A p \in Phone : code'[p] = IF p = h.phone THEN 0 ELSE code[p]
    BY <1>0, <1>2 DEF DelCode, AccountsTypeOK
  <2>4. (\A p \in Phone : code[p] <= made[p])'
    BY <1>0, <2>2, <2>3 DEF CodesOK, AccountsTypeOK
  <2>5. (\A g \in running : g.pc \in {"sms", "del", "find", "create"} =>
          g.read # 0 /\ g.read <= made[g.phone])'
    BY <1>0, <2>1, <2>2 DEF CodesOK
  <2>6. (\A t \in tokens : t.phone \notin overlapped => t.code # code[t.phone])'
    BY <1>0, <2>2, <2>3 DEF CodesOK
  <2>7. (\A g \in running, t \in tokens :
          (g.pc \in {"del", "find", "create"} /\ g.phone \notin overlapped
             /\ t.phone = g.phone) => t.code # g.read)'
    BY <1>0, <2>1, <2>2 DEF CodesOK
  <2>8. (\A g \in running :
          (g.pc \in {"find", "create"} /\ g.phone \notin overlapped)
             => g.read # code[g.phone])'
    BY <1>0, <2>1, <2>2, <2>3 DEF CodesOK
  <2> QED
    BY <1>0, <2>2, <2>4, <2>5, <2>6, <2>7, <2>8 DEF CodesOK, CodeServesOnce
<1>3. CASE FindUser(h)
  <2>1. role[h.phone] \in UserRole
    BY <1>0, <1>3 DEF FindUser, AccountsTypeOK
  <2> QED
    BY <1>3, <2>1, TokenCodes DEF FindUser
<1>4. CASE FindNobody(h)
  <2>1. UNCHANGED <<codeVars, tokens, overlapped>>
    BY <1>4 DEF FindNobody, Continue, End, userVars
  <2>2. CASE h.arg = "NONE"
    BY <1>0, <1>4, <2>1, <2>2, RestCodes DEF FindNobody, End
  <2>3. CASE h.arg # "NONE"
    <3>1. /\ At(h, "create").pc = "create" /\ At(h, "create").phone = h.phone
          /\ At(h, "create").read = h.read
      BY <1>0, AtFields DEF PC
    <3>2. running' = (running \ {h}) \cup {At(h, "create")} /\ h.pc = "find"
      BY <1>4, <2>3 DEF FindNobody, Continue
    <3> QED
      BY <1>0, <2>1, <3>1, <3>2 DEF CodesOK, CodeServesOnce, codeVars
  <2> QED
    BY <2>2, <2>3
<1>5. CASE CreateUser(h)
  <2>1. h.arg \in UserRole
    BY <1>0, <1>5 DEF CreateUser, ArgFits
  <2> QED
    BY <1>5, <2>1, TokenCodes DEF CreateUser
<1>6. CASE WriteType(h) \/ WriteKyc(h) \/ WriteOnline(h) \/ WriteVerdict(h)
           \/ WriteStatus(h) \/ WriteCompany(h) \/ Fail(h)
  BY <1>0, <1>6, RestCodes
  DEF WriteType, WriteKyc, WriteOnline, WriteVerdict, WriteStatus, WriteCompany, Fail, End,
      codeVars, userVars
<1> QED
  BY <1>1, <1>2, <1>3, <1>4, <1>5, <1>6 DEF Step

LEMMA StepRoles ==
    ASSUME SafeInv, NEW h \in running, Step(h) \/ Fail(h)
    PROVE  RolesOK'
<1>0. /\ AccountsTypeOK /\ RolesOK /\ h \in Handler /\ h.phone \in Phone /\ ArgFits(h)
      /\ \A t \in tokens : t.phone \in Phone /\ t.role \in UserRole
      /\ \A g \in running : g.phone \in Phone
  BY DEF SafeInv, TypeInv, AccountsTypeOK, ArgsOK, Handler, Token
<1>1. \A g \in running' : g.pc \in {"kyc", "verdict", "company"} => g \in running
  BY Left
<1>2. CASE UNCHANGED <<role, tokens, business, inReview, verification>>
  BY <1>0, <1>1, <1>2 DEF RolesOK, RolesAgree, HasProfile
<1>3. CASE FindUser(h)
  <2>1. /\ tokens' = tokens \cup {[phone |-> h.phone, role |-> role[h.phone],
                                   code |-> h.read, call |-> h.call]}
        /\ UNCHANGED <<role, business, inReview, verification>>
    BY <1>3 DEF FindUser, GenerateToken, profileVars
  <2> QED
    BY <1>0, <1>1, <2>1 DEF RolesOK, RolesAgree, HasProfile
<1>4. CASE CreateUser(h)
  <2>1. /\ tokens' = tokens \cup {[phone |-> h.phone, role |-> h.arg,
                                   code |-> h.read, call |-> h.call]}
        /\ role[h.phone] = "NONE" /\ UNCHANGED <<business, inReview, verification>>
        /\ \A p \in Phone : role'[p] = IF p = h.phone THEN h.arg ELSE role[p]
    BY <1>0, <1>4 DEF CreateUser, GenerateToken, profileVars, AccountsTypeOK
  <2>2. "NONE" \notin UserRole /\ "RIDER" # "NONE"
    BY DEF UserRole
  <2>3. \A t \in tokens : t.phone # h.phone
    BY <1>0, <2>1, <2>2 DEF RolesOK, RolesAgree
  <2>4. ~HasProfile(h.phone) /\ h.phone \notin business
    BY <1>0, <2>1, <2>2 DEF RolesOK, RolesAgree, BusinessRoles
  <2> QED
    BY <1>0, <1>1, <2>1, <2>3, <2>4 DEF RolesOK, RolesAgree, HasProfile, AccountsTypeOK
<1>5. CASE WriteKyc(h) \/ WriteVerdict(h)
  <2>1. HasProfile(h.phone) /\ UNCHANGED <<role, tokens, business, inReview>>
    BY <1>0, <1>5 DEF RolesOK, WriteKyc, WriteVerdict, userVars
  <2>2. \A p \in Phone \ {h.phone} : verification'[p] = verification[p]
    BY <1>0, <1>5 DEF WriteKyc, WriteVerdict, AccountsTypeOK
  <2>3. verification'[h.phone] # "NONE"
    BY <1>0, <1>5 DEF WriteKyc, WriteVerdict, AccountsTypeOK, ArgFits, VerificationStatus
  <2> QED
    BY <1>0, <1>1, <2>1, <2>2, <2>3 DEF RolesOK, RolesAgree, HasProfile
<1>6. CASE WriteCompany(h)
  <2>1. h.pc = "company" /\ inReview' = inReview \cup {h.phone}
        /\ UNCHANGED <<role, tokens, business, verification>>
    BY <1>6 DEF WriteCompany, profileVars
  <2> QED
    BY <1>0, <1>1, <2>1 DEF RolesOK, RolesAgree, HasProfile
<1> QED
  BY <1>2, <1>3, <1>4, <1>5, <1>6
  DEF Step, Fail, SendOtp, DelCode, FindNobody, WriteType, WriteOnline, WriteStatus,
      userVars, profileVars

LEMMA StepJudged ==
    ASSUME SafeInv, NEW h \in running, Step(h) \/ Fail(h)
    PROVE  VerifiedAsJudged'
<1>0. AccountsTypeOK /\ VerifiedAsJudged /\ h \in Handler /\ h.phone \in Phone
  BY DEF SafeInv, TypeInv, AccountsTypeOK, Handler
<1>1. CASE UNCHANGED <<verification, papers, verdictVars>>
  BY <1>0, <1>1 DEF VerifiedAsJudged
<1>2. CASE WriteKyc(h)
  <2>1. /\ UNCHANGED verdictVars
        /\ verification'[h.phone] = "PENDING"
        /\ \A p \in Phone \ {h.phone} : verification'[p] = verification[p]
                                        /\ papers'[p] = papers[p]
    BY <1>0, <1>2 DEF WriteKyc, AccountsTypeOK
  <2> QED
    BY <1>0, <2>1 DEF VerifiedAsJudged
<1>3. CASE WriteVerdict(h)
  <2>1. /\ UNCHANGED papers
        /\ judged'[h.phone] = h.read
        /\ h.phone \in unseen' <=> h.read # papers[h.phone]
        /\ \A p \in Phone \ {h.phone} : /\ verification'[p] = verification[p]
                                        /\ judged'[p] = judged[p]
                                        /\ p \in unseen' <=> p \in unseen
    BY <1>0, <1>3 DEF WriteVerdict, AccountsTypeOK
  <2> QED
    BY <1>0, <2>1 DEF VerifiedAsJudged
<1> QED
  BY <1>1, <1>2, <1>3
  DEF Step, Fail, SendOtp, DelCode, FindUser, FindNobody, CreateUser, WriteType, WriteOnline,
      WriteStatus, WriteCompany, profileVars

\* No step breaks any of them.
LEMMA SafeStep == SafeInv /\ [AccountsNext]_accountVars => SafeInv'
<1> SUFFICES ASSUME SafeInv, [AccountsNext]_accountVars
             PROVE  SafeInv'
  OBVIOUS
<1>0. TypeInv /\ TypeInv' /\ Alone /\ CodesOK /\ RolesOK /\ VerifiedAsJudged
  BY TypeStep DEF SafeInv
<1>1. ASSUME NEW ph \in Phone, Login(ph) \/ UserCalls(ph) \/ AdminCalls(ph)
      PROVE  SafeInv'
  <2>1. PICK writes : CallFits(ph, writes)
    BY <1>0, <1>1, CallDoes
  <2> QED
    BY <1>0, <2>1, CallAlone, CallCodes, CallRoles, CallJudged DEF SafeInv
<1>2. ASSUME NEW h \in running, Step(h) \/ Fail(h)
      PROVE  SafeInv'
  BY <1>0, <1>2, StepAlone, StepCodes, StepRoles, StepJudged DEF SafeInv
<1>3. CASE (\E ph \in Phone : ExpireOtp(ph)) \/ LoseCodes
  <2>0. /\ UNCHANGED <<made, texted, userVars, profileVars, running, overlapped>>
        /\ \A p \in Phone : code'[p] \in {0, code[p]} /\ made[p] \in Nat
    BY <1>0, <1>3 DEF ExpireOtp, LoseCodes, TypeInv, AccountsTypeOK
  <2>1. \A g \in running : g.phone \in Phone
    BY <1>0 DEF TypeInv, AccountsTypeOK, Handler
  <2>2. \A t \in tokens : t.phone \in Phone
    BY <1>0 DEF TypeInv, AccountsTypeOK, Token
  <2>3. CodesOK'
    BY <1>0, <2>0, <2>1, <2>2 DEF CodesOK, CodeServesOnce, userVars
  <2>4. Alone' /\ RolesOK' /\ VerifiedAsJudged'
    BY <1>0, <2>0 DEF Alone, RolesOK, RolesAgree, HasProfile, VerifiedAsJudged,
                      userVars, profileVars
  <2> QED
    BY <1>0, <2>3, <2>4 DEF SafeInv
<1>4. CASE Crash
  <2>1. CodesOK'
    BY <1>0, <1>4, RestCodes DEF Crash, userVars
  <2>2. Alone' /\ RolesOK' /\ VerifiedAsJudged'
    BY <1>0, <1>4 DEF Crash, Alone, RolesOK, RolesAgree, HasProfile, VerifiedAsJudged,
                      userVars, profileVars
  <2> QED
    BY <1>0, <2>1, <2>2 DEF SafeInv
<1>5. CASE UNCHANGED accountVars
  <2>1. CodesOK'
    BY <1>0, <1>5, RestCodes DEF accountVars, userVars
  <2>2. Alone' /\ RolesOK' /\ VerifiedAsJudged'
    BY <1>0, <1>5 DEF accountVars, Alone, RolesOK, RolesAgree, HasProfile, VerifiedAsJudged,
                      userVars, profileVars
  <2> QED
    BY <1>0, <2>1, <2>2 DEF SafeInv
<1> QED
  BY <1>1, <1>2, <1>3, <1>4, <1>5 DEF AccountsNext, ServeAccounts

\* SafeInv is an invariant.
LEMMA Safe == AccountsSpec => []SafeInv
BY InitSafe, SafeStep, PTL DEF AccountsSpec

\* A one-time code signs its phone in at most once (verifyOtp), unless two of the
\* phone's handlers overlapped: a token's code is neither stored any more nor in the
\* hands of a handler.
THEOREM CodesServeOnce == AccountsSpec => []CodeServesOnce
<1>1. SafeInv => CodeServesOnce
  BY DEF SafeInv, CodesOK
<1> QED
  BY <1>1, Safe, PTL

\* Tokens, account, rider profile and business agree on the role (verifyOtp,
\* ensureProfile, upsertBusinessAccount), whatever overlaps: an account is created
\* only where none of the others is there.
THEOREM RolesAlwaysAgree == AccountsSpec => []RolesAgree
<1>1. SafeInv => RolesAgree
  BY DEF SafeInv, RolesOK
<1> QED
  BY <1>1, Safe, PTL

\* VERIFIED is about the papers that the admin was shown (getRiderDetail, submitKyc,
\* verifyRider), unless others came in before his verdict was written, whatever
\* overlaps or fails.
THEOREM VerifiedWasJudged == AccountsSpec => []VerifiedAsJudged
<1>1. SafeInv => VerifiedAsJudged
  BY DEF SafeInv
<1> QED
  BY <1>1, Safe, PTL

-----------------------------------------------------------------------------
\* The server takes steps of Accounts only, whatever runs beside it.
LEMMA ServerRunsAccounts == ServerSpec => AccountsSpec
<1>1. ServerInit => AccountsInit
  BY DEF ServerInit
<1>2. [ServerNext]_serverVars => [AccountsNext]_accountVars
  BY DEF ServerNext, serverVars, ForPricing, ForOrders, ForAccounts, ForLists, CodeExpires,
         RestartServer, LoseRedisData, AccountsNext
<1> QED
  BY <1>1, <1>2, PTL DEF ServerSpec, AccountsSpec

\* So on the server, too, a code serves once, roles agree and VERIFIED was judged,
\* through any number of restarts and losses of Redis.
THEOREM ServerKeepsAccounts ==
    ServerSpec => [](CodeServesOnce /\ RolesAgree /\ VerifiedAsJudged)
BY ServerRunsAccounts, CodesServeOnce, RolesAlwaysAgree, VerifiedWasJudged, PTL

=============================================================================

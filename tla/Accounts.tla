------------------------------ MODULE Accounts ------------------------------
(***************************************************************************)
(* Who uses the platform: AuthService (one-time codes, accounts, tokens),  *)
(* RidersService (profile, KYC papers, online flag, verification), the     *)
(* business accounts of UsersService, and the writes an admin makes to     *)
(* accounts and profiles.                                                  *)
(*                                                                         *)
(* An action is what a handler does up to its next await.  `running` holds *)
(* one record per write that is under way: a handler has one, except in    *)
(* verifyRider, whose two writes are started together (Promise.all).       *)
(* A phone number stands for the user: User.phone is unique.  An admin is  *)
(* not modelled as an account.                                             *)
(***************************************************************************)
EXTENDS Naturals, FiniteSets

CONSTANTS
    Phone,
    Offered,        \* the roles people sign up with
    MaxCalls,       \* bound: HTTP calls
    MaxRunning      \* bound: writes under way at the same time

UserRole == {"INDIVIDUAL", "VENDOR", "RESTAURANT", "CORPORATE", "RIDER", "ADMIN"}
UserStatus == {"ACTIVE", "SUSPENDED", "PENDING_VERIFICATION"}
VerificationStatus == {"PENDING", "VERIFIED", "REJECTED"}
RiderType == {"FLEET", "MARKETPLACE"}

\* the @Roles of UsersController.upsertBusiness
BusinessRoles == {"VENDOR", "RESTAURANT", "CORPORATE"}

VARIABLES
    code,           \* otp:<phone> in Redis, 0 if absent
    made,           \* how many codes were made for the phone; a code is its number
    texted,         \* the codes that were sent to the phone by SMS
    role,           \* User.role, "NONE" while there is no account
    userStatus,     \* User.status
    tokens,         \* the tokens handed out, each with the call that got it
    business,       \* the users who have a BusinessAccount, which their orders name
    inReview,       \* the users whose User.verificationStatus is PENDING: they have
                    \* submitted the company's name, address and document
    verification,   \* RiderProfile.verificationStatus, "NONE" without a profile
    riderType,      \* RiderProfile.riderType
    isOnline,       \* RiderProfile.isOnline
    papers,         \* which submission of KYC papers the profile has, 0 if none
    running,        \* the handlers' next writes
    judged,         \* history: the papers that the last verdict was about
    unseen,         \* history: the phones whose profile had got other papers by the
                    \* time that verdict was written
    overlapped,     \* history: phones two of whose handlers were at work at once
    calls           \* calls counted against MaxCalls

codeVars == <<code, made, texted>>
userVars == <<role, userStatus, tokens, business, inReview>>
verdictVars == <<judged, unseen>>
profileVars == <<verification, riderType, isOnline, papers, verdictVars>>
accountVars == <<codeVars, userVars, profileVars, running, overlapped, calls>>

-----------------------------------------------------------------------------
(* Handlers.                                                               *)

PC == {"sms", "del", "find", "create",                           \* AuthService
       "type", "kyc", "online", "company", "verdict", "status"}  \* one update each

Arg == UserRole \cup {"NONE"} \cup UserStatus \cup VerificationStatus
       \cup RiderType \cup {"ONLINE", "OFFLINE"}

\* read: the code that the handler has seen, or the papers that the admin has
Handler == [call : Nat, pc : PC, phone : Phone, read : Nat, arg : Arg]

ToDo(pc, ph, read, arg) ==
    [call |-> calls, pc |-> pc, phone |-> ph, read |-> read, arg |-> arg]

Token == [phone : Phone, role : UserRole, code : Nat, call : Nat]

Busy(ph) == \E h \in running : h.phone = ph

\* a handler for ph starts and has these writes to do
Start(ph, writes) ==
    /\ calls < MaxCalls
    /\ Cardinality(running) < MaxRunning
    /\ running' = running \cup writes
    /\ overlapped' = IF Busy(ph) THEN overlapped \cup {ph} ELSE overlapped
    /\ calls' = calls + 1

At(h, pc) == [h EXCEPT !.pc = pc]

Continue(h, pc) ==
    /\ running' = (running \ {h}) \cup {At(h, pc)}
    /\ UNCHANGED <<overlapped, calls>>

End(h) == running' = running \ {h} /\ UNCHANGED <<overlapped, calls>>

-----------------------------------------------------------------------------
(* requestOtp and verifyOtp.                                               *)

\* The code replaces the one that is stored, if any.
RequestOtp(ph) ==
    /\ made' = [made EXCEPT ![ph] = @ + 1]
    /\ code' = [code EXCEPT ![ph] = made[ph] + 1]
    /\ Start(ph, {ToDo("sms", ph, made[ph] + 1, "NONE")})
    /\ UNCHANGED <<texted, userVars, profileVars>>

SendOtp(h) ==
    /\ h.pc = "sms"
    /\ texted' = [texted EXCEPT ![h.phone] = @ \cup {h.read}]
    /\ End(h)
    /\ UNCHANGED <<code, made, userVars, profileVars>>

\* The guard of verifyOtp; a wrong code changes nothing.  The role is the one of
\* the request (VerifyOtpDto), which may leave it out.
VerifyOtp(ph, given) ==
    /\ given \in UserRole \cup {"NONE"}
    /\ code[ph] \in texted[ph]
    /\ Start(ph, {ToDo("del", ph, code[ph], given)})
    /\ UNCHANGED <<codeVars, userVars, profileVars>>

\* Mutant of DelCode: the code is left to expire.
DelNothing(h) ==
    /\ h.pc = "del"
    /\ Continue(h, "find")
    /\ UNCHANGED <<codeVars, userVars, profileVars>>

\* whatever code is stored by now
DelCode(h) ==
    /\ h.pc = "del"
    /\ code' = [code EXCEPT ![h.phone] = 0]
    /\ Continue(h, "find")
    /\ UNCHANGED <<made, texted, userVars, profileVars>>

GenerateToken(h, r) ==
    tokens' = tokens \cup {[phone |-> h.phone, role |-> r, code |-> h.read,
                            call |-> h.call]}

FindUser(h) ==
    /\ h.pc = "find"
    /\ role[h.phone] # "NONE"
    /\ GenerateToken(h, role[h.phone])
    /\ End(h)
    /\ UNCHANGED <<codeVars, role, userStatus, business, inReview, profileVars>>

\* 'role is required for new users': by now the code is spent
FindNobody(h) ==
    /\ h.pc = "find"
    /\ role[h.phone] = "NONE"
    /\ IF h.arg = "NONE" THEN End(h) ELSE Continue(h, "create")
    /\ UNCHANGED <<codeVars, userVars, profileVars>>

\* Mutant of CreateUser: an upsert that the second of two calls may use.
UpsertUser(h) ==
    /\ h.pc = "create"
    /\ role' = [role EXCEPT ![h.phone] = h.arg]
    /\ userStatus' = [userStatus EXCEPT ![h.phone] = "PENDING_VERIFICATION"]
    /\ GenerateToken(h, h.arg)
    /\ End(h)
    /\ UNCHANGED <<codeVars, business, inReview, profileVars>>

\* User.phone is unique: the second of two calls throws (Fail).
CreateUser(h) ==
    /\ h.pc = "create"
    /\ role[h.phone] = "NONE"
    /\ role' = [role EXCEPT ![h.phone] = h.arg]
    /\ userStatus' = [userStatus EXCEPT ![h.phone] = "PENDING_VERIFICATION"]
    /\ GenerateToken(h, h.arg)
    /\ End(h)
    /\ UNCHANGED <<codeVars, business, inReview, profileVars>>

-----------------------------------------------------------------------------
(* RidersService, called by the rider.                                     *)

\* JwtStrategy finds the user of the token, RolesGuard looks at the role the
\* user has now.
HasToken(ph) == \E t \in tokens : t.phone = ph
SignedInAs(ph, roles) == HasToken(ph) /\ role[ph] \in roles

IsRider(ph) == SignedInAs(ph, {"RIDER"})

HasProfile(ph) == verification[ph] # "NONE"

EnsureProfile(ph) ==
    /\ verification' = [verification EXCEPT ![ph] = IF @ = "NONE" THEN "PENDING"
                                                                  ELSE @]
    /\ UNCHANGED <<riderType, isOnline, papers, verdictVars>>

\* A request that names no fleetType is one that names the present one.
UpdateRiderProfile(ph, type) ==
    /\ IsRider(ph)
    /\ EnsureProfile(ph)
    /\ Start(ph, {ToDo("type", ph, 0, type)})
    /\ UNCHANGED <<codeVars, userVars>>

SubmitKyc(ph) ==
    /\ IsRider(ph)
    /\ EnsureProfile(ph)
    /\ Start(ph, {ToDo("kyc", ph, 0, "PENDING")})
    /\ UNCHANGED <<codeVars, userVars>>

\* Mutant of WriteKyc: the verification of the earlier papers is kept.
WriteKycOnly(h) ==
    /\ h.pc = "kyc"
    /\ papers' = [papers EXCEPT ![h.phone] = @ + 1]
    /\ End(h)
    /\ UNCHANGED <<codeVars, userVars, verification, riderType, isOnline, verdictVars>>

\* New papers have still to be judged.
WriteKyc(h) ==
    /\ h.pc = "kyc"
    /\ papers' = [papers EXCEPT ![h.phone] = @ + 1]
    /\ verification' = [verification EXCEPT ![h.phone] = "PENDING"]
    /\ End(h)
    /\ UNCHANGED <<codeVars, userVars, riderType, isOnline, verdictVars>>

ToggleOnlineStatus(ph, to) ==
    /\ IsRider(ph)
    /\ HasProfile(ph)
    /\ Start(ph, {ToDo("online", ph, 0, to)})
    /\ UNCHANGED <<codeVars, userVars, profileVars>>

WriteOnline(h) ==
    /\ h.pc = "online"
    /\ isOnline' = [isOnline EXCEPT ![h.phone] = h.arg = "ONLINE"]
    /\ End(h)
    /\ UNCHANGED <<codeVars, userVars, verification, riderType, papers, verdictVars>>

-----------------------------------------------------------------------------
(* UsersService.upsertBusinessAccount: the row first, then the details.    *)

UpsertBusinessAccount(ph) ==
    /\ SignedInAs(ph, BusinessRoles)
    /\ business' = business \cup {ph}
    /\ Start(ph, {ToDo("company", ph, 0, "PENDING")})
    /\ UNCHANGED <<codeVars, role, userStatus, tokens, inReview, profileVars>>

\* User.email is unique: it may throw (Fail), and the row of the business stays.
WriteCompany(h) ==
    /\ h.pc = "company"
    /\ inReview' = inReview \cup {h.phone}
    /\ End(h)
    /\ UNCHANGED <<codeVars, role, userStatus, tokens, business, profileVars>>

-----------------------------------------------------------------------------
(* What an admin does to accounts and profiles.                            *)

\* The papers that an admin has been shown (getRiderDetail, getRiders, listRiders):
\* those of now, or those of any time before, since he looks when he likes.
MayHaveSeen(ph) == 0..papers[ph]

StatusFor(verdict) == IF verdict = "VERIFIED" THEN "ACTIVE" ELSE "SUSPENDED"

\* RidersService.verifyRider: profile and account, in a Promise.all; the request
\* does not say which papers it is about
VerifyRider(ph, verdict, seen) ==
    /\ HasProfile(ph)
    /\ Start(ph, {ToDo("verdict", ph, seen, verdict),
                  ToDo("status", ph, 0, StatusFor(verdict))})
    /\ UNCHANGED <<codeVars, userVars, profileVars>>

\* AdminService.verifyRider: the profile only
AdminVerifyRider(ph, verdict, seen) ==
    /\ HasProfile(ph)
    /\ Start(ph, {ToDo("verdict", ph, seen, verdict)})
    /\ UNCHANGED <<codeVars, userVars, profileVars>>

WriteVerdict(h) ==
    /\ h.pc = "verdict"
    /\ verification' = [verification EXCEPT ![h.phone] = h.arg]
    /\ judged' = [judged EXCEPT ![h.phone] = h.read]
    /\ unseen' = IF h.read = papers[h.phone] THEN unseen \ {h.phone}
                                             ELSE unseen \cup {h.phone}
    /\ End(h)
    /\ UNCHANGED <<codeVars, userVars, riderType, isOnline, papers>>

ChangeRiderFleet(ph, type) ==
    /\ HasProfile(ph)
    /\ Start(ph, {ToDo("type", ph, 0, type)})
    /\ UNCHANGED <<codeVars, userVars, profileVars>>

WriteType(h) ==
    /\ h.pc = "type"
    /\ riderType' = [riderType EXCEPT ![h.phone] = h.arg]
    /\ End(h)
    /\ UNCHANGED <<codeVars, userVars, verification, isOnline, papers, verdictVars>>

UpdateUserStatus(ph, status) ==
    /\ role[ph] # "NONE"
    /\ Start(ph, {ToDo("status", ph, 0, status)})
    /\ UNCHANGED <<codeVars, userVars, profileVars>>

WriteStatus(h) ==
    /\ h.pc = "status"
    /\ userStatus' = [userStatus EXCEPT ![h.phone] = h.arg]
    /\ End(h)
    /\ UNCHANGED <<codeVars, role, tokens, business, inReview, profileVars>>

-----------------------------------------------------------------------------
(* Time, failures, and the loss of the process or of Redis.                *)

\* OTP_TTL is over.
ExpireOtp(ph) ==
    /\ code[ph] # 0
    /\ code' = [code EXCEPT ![ph] = 0]
    /\ UNCHANGED <<made, texted, userVars, profileVars, running, overlapped, calls>>

\* An await throws: of a Promise.all, the other write still lands.
Fail(h) == End(h) /\ UNCHANGED <<codeVars, userVars, profileVars>>

Crash ==
    /\ running' = {}
    /\ UNCHANGED <<codeVars, userVars, profileVars, overlapped, calls>>

LoseCodes ==
    /\ code' = [ph \in Phone |-> 0]
    /\ UNCHANGED <<made, texted, userVars, profileVars, running, overlapped, calls>>

-----------------------------------------------------------------------------
AccountsInit ==
    /\ code = [ph \in Phone |-> 0]
    /\ made = [ph \in Phone |-> 0]
    /\ texted = [ph \in Phone |-> {}]
    /\ role = [ph \in Phone |-> "NONE"]
    /\ userStatus = [ph \in Phone |-> "PENDING_VERIFICATION"]
    /\ tokens = {}
    /\ business = {} /\ inReview = {}
    /\ verification = [ph \in Phone |-> "NONE"]
    /\ riderType = [ph \in Phone |-> "MARKETPLACE"]
    /\ isOnline = [ph \in Phone |-> FALSE]
    /\ papers = [ph \in Phone |-> 0]
    /\ running = {}
    /\ judged = [ph \in Phone |-> 0]
    /\ unseen = {}
    /\ overlapped = {}
    /\ calls = 0

Login(ph) ==
    \/ RequestOtp(ph)
    \/ \E given \in Offered \cup {"NONE"} : VerifyOtp(ph, given)

UserCalls(ph) ==
    \/ SubmitKyc(ph) \/ UpsertBusinessAccount(ph)
    \/ \E type \in RiderType : UpdateRiderProfile(ph, type)
    \/ \E to \in {"ONLINE", "OFFLINE"} : ToggleOnlineStatus(ph, to)

AdminCalls(ph) ==
    \/ \E verdict \in VerificationStatus, seen \in MayHaveSeen(ph) :
         VerifyRider(ph, verdict, seen) \/ AdminVerifyRider(ph, verdict, seen)
    \/ \E type \in RiderType : ChangeRiderFleet(ph, type)
    \/ \E status \in UserStatus : UpdateUserStatus(ph, status)

\* the next write of a handler
Step(h) ==
    \/ SendOtp(h) \/ DelCode(h) \/ FindUser(h) \/ FindNobody(h) \/ CreateUser(h)
    \/ WriteType(h) \/ WriteKyc(h) \/ WriteOnline(h) \/ WriteCompany(h)
    \/ WriteVerdict(h) \/ WriteStatus(h)

\* what the server does: it takes calls and goes on with those it has
ServeAccounts ==
    \/ \E ph \in Phone : Login(ph) \/ UserCalls(ph) \/ AdminCalls(ph)
    \/ \E h \in running : Step(h) \/ Fail(h)

AccountsNext ==
    \/ ServeAccounts
    \/ \E ph \in Phone : ExpireOtp(ph)
    \/ Crash
    \/ LoseCodes

AccountsSpec == AccountsInit /\ [][AccountsNext]_accountVars

-----------------------------------------------------------------------------
(* What accounts keep to.                                                  *)

AccountsTypeOK ==
    /\ code \in [Phone -> Nat] /\ made \in [Phone -> Nat]
    /\ texted \in [Phone -> SUBSET Nat]
    /\ role \in [Phone -> UserRole \cup {"NONE"}]
    /\ userStatus \in [Phone -> UserStatus]
    /\ tokens \subseteq Token
    /\ business \subseteq Phone /\ inReview \subseteq Phone
    /\ verification \in [Phone -> VerificationStatus \cup {"NONE"}]
    /\ riderType \in [Phone -> RiderType]
    /\ isOnline \in [Phone -> BOOLEAN]
    /\ papers \in [Phone -> Nat] /\ judged \in [Phone -> Nat] /\ unseen \subseteq Phone
    /\ running \subseteq Handler
    /\ overlapped \subseteq Phone
    /\ calls \in Nat

\* A one-time code signs its phone in at most once, whatever fails or restarts
\* between the look-up of the code and the token (verifyOtp).  For phones whose
\* handlers have not overlapped: two that do may both pass the look-up.
CodeServesOnce ==
    \A t, u \in tokens :
        t.phone = u.phone /\ t.code = u.code /\ t.phone \notin overlapped => t = u

\* The account, its tokens, its rider profile and its business agree on the role,
\* also when two verifications of a new phone ask for different roles at once:
\* every token names the role of the account, only riders have a profile, only
\* business roles a BusinessAccount, and whoever waits for a review of company
\* details has one, whichever write of upsertBusinessAccount failed.
RolesAgree ==
    /\ \A t \in tokens : role[t.phone] = t.role
    /\ \A ph \in Phone : HasProfile(ph) => role[ph] = "RIDER"
    /\ \A ph \in business : role[ph] \in BusinessRoles
    /\ inReview \subseteq business

\* findMatch selects riders who are VERIFIED: they ride with the papers that the
\* admin was shown who verified them, however submissions and verdicts of both
\* kinds interleave or fail; papers submitted after the verdict take it back
\* (submitKyc).  Not so when they came in between his look and the write of his
\* verdict, which does not say what it is about (unseen).
VerifiedAsJudged ==
    \A ph \in Phone \ unseen :
        verification[ph] = "VERIFIED" => judged[ph] = papers[ph]

=============================================================================

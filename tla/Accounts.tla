------------------------------- MODULE Accounts -------------------------------
(***************************************************************************)
(* How people come to have an account, with which addresses and with what  *)
(* credentials: packages/auth/src/index.ts behind the sign-up form, the    *)
(* social provider's callback, invitations and administrators; the legal   *)
(* acceptances and privacy requests of packages/security/src/service.ts.   *)
(*                                                                         *)
(* One action is one autocommitted statement, with the checks up to the    *)
(* next one, or one transaction: sign-up, the callback, the deletion and   *)
(* the export are transactions of their routes.                            *)
(***************************************************************************)
EXTENDS Naturals, FiniteSets

CONSTANTS
  Clients,      \* requests that are served at the same time
  People,       \* ids of auth_users
  Mailboxes,    \* normalized addresses
  Subjects,     \* ids of people at the social provider
  Links,        \* ids of auth_tokens
  Flows,        \* ids of auth_oauth_states
  Challenges,   \* ids of auth_challenges
  Credentials,  \* credential ids of passkeys
  None,
  MaxVersion    \* bound: versions of the legal documents

ASSUME AccountsAssumption ==
  /\ None \notin People \cup Mailboxes \cup Subjects \cup Links \cup Flows \cup Challenges
  /\ MaxVersion \in Nat

VARIABLES
  person,     \* auth_users
  account,    \* auth_accounts
  link,       \* auth_tokens, with the auth_invitations of the same token
  mail,       \* outbox_events: which link goes to which address
  flow,       \* auth_oauth_states
  challenge,  \* auth_challenges of registrations
  passkey,    \* auth_passkeys
  document,   \* the legal pages: version with its text, and whether it is published
  accepted,   \* legal_acceptances
  privacy,    \* privacy_requests that are completed
  client,     \* what each request does
  public,     \* history: what was published since each request began
  origin,     \* history: how each person's row was made
  confirmed   \* history: who has shown that he reads which mailbox

accountRows == <<person, account, link, mail, flow, challenge, passkey, document, accepted, privacy>>
accountVars == <<accountRows, client, public, origin, confirmed>>

Documents == {"terms", "privacy"}
NoPerson == [status |-> "none", address |-> None, verified |-> FALSE, role |-> "user"]
NoLink == [status |-> "none", kind |-> "none", person |-> None, address |-> None, role |-> "user",
           row |-> "none"]
NoFlow == [status |-> "none", agreed |-> {}]
NoChallenge == [status |-> "none", person |-> None]
Away == [at |-> "away", op |-> "none", person |-> None, address |-> None, role |-> "user",
         docs |-> {}, link |-> None, flow |-> None, subject |-> None, trusted |-> FALSE,
         challenge |-> None]
Unknown == [how |-> "none", public |-> {}, link |-> None, flow |-> None]

AccountsInit ==
  /\ person = [p \in People |-> NoPerson] /\ account = {}
  /\ link = [l \in Links |-> NoLink] /\ mail = {}
  /\ flow = [f \in Flows |-> NoFlow] /\ challenge = [k \in Challenges |-> NoChallenge]
  /\ passkey = {} /\ accepted = {} /\ privacy = {}
  /\ document = [d \in Documents |-> [version |-> 0, published |-> TRUE]]
  /\ client = [c \in Clients |-> Away] /\ public = [c \in Clients |-> {}]
  /\ origin = [p \in People |-> Unknown] /\ confirmed = {}

-----------------------------------------------------------------------------
ClientAt(c, s) == client[c].at = s
Calls(c, x) == ClientAt(c, "away") /\ client' = [client EXCEPT ![c] = x]
Go(c, s) == client' = [client EXCEPT ![c].at = s]
GoAway(c) == client' = [client EXCEPT ![c] = Away]
OnlyClient == UNCHANGED <<accountRows, origin, confirmed>>

Active(p) == person[p].status = "active"
\* findUserByEmail, and the partial unique index that the INSERT and UPDATE obey.
Having(a) == {p \in People : Active(p) /\ person[p].address = a}
\* The unique index of auth_accounts, which deleted users stay in.
AccountOf(provider, id) == {x \in account : x.provider = provider /\ x.id = id}
Link(provider, id, p) == account' = account \cup {[provider |-> provider, id |-> id, person |-> p]}

NewPerson(p, a, verified, role, ground) ==
  /\ person[p] = NoPerson
  /\ person' = [person EXCEPT ![p] = [status |-> "active", address |-> a, verified |-> verified,
                                      role |-> role]]
  /\ origin' = [origin EXCEPT ![p] = ground]
\* createToken.
NewLink(l, kind, p, a, role) ==
  /\ link[l] = NoLink
  /\ link' = [link EXCEPT ![l] = [status |-> "live", kind |-> kind, person |-> p, address |-> a,
                                  role |-> role, row |-> "none"]]

\* acceptLegalDocument; and requestPrivacyAction with the updatePrivacyRequest that
\* completes it in the same transaction.
Accept(p, docs) == accepted' = accepted \cup {<<p, d>> : d \in docs}
CompleteRequest(p, type) == privacy' = privacy \cup {<<p, type>>}

\* getPublicManagedPage for each document.
OnShow == {<<d, document[d].version>> : d \in {x \in Documents : document[x].published}}
Complete(docs) == Cardinality(docs) = Cardinality(Documents)

-----------------------------------------------------------------------------
(* signUpAction, startOAuthSignInAction and the callback of the provider *)

CallSignUp(c, a) ==
  Calls(c, [Away EXCEPT !.at = "documents", !.op = "sign up", !.address = a]) /\ OnlyClient
\* The person has ticked the box or not.
CallStart(c, ticked) ==
  /\ Calls(c, [Away EXCEPT !.at = IF ticked THEN "documents" ELSE "state", !.op = "start"])
  /\ OnlyClient
CallCallback(c, f) ==
  /\ flow[f] # NoFlow
  /\ Calls(c, [Away EXCEPT !.at = "documents", !.op = "callback", !.flow = f]) /\ OnlyClient

\* The documents are read before the transaction, or before the state is claimed.
ReadDocuments(c) ==
  /\ ClientAt(c, "documents")
  /\ IF client[c].op # "callback" /\ ~Complete(OnShow) THEN GoAway(c)
     ELSE client' = [client EXCEPT ![c].docs = OnShow,
                       ![c].at = CASE client[c].op = "sign up" -> "commit"
                                   [] client[c].op = "start" -> "state"
                                   [] client[c].op = "callback" -> "claim"]
  /\ OnlyClient

\* createUserWithPassword and createEmailVerification with its message.
CreateUserWithPassword(p, a, ground) ==
  NewPerson(p, a, FALSE, "user", ground) /\ Link("password", a, p)
CreateEmailVerification(l, p, a) ==
  NewLink(l, "verification", p, a, "user") /\ mail' = mail \cup {<<l, a>>}

\* One transaction, which a taken address, or a lockout of it, makes raise.
SignUp(c, p, l) ==
  LET a == client[c].address IN
  /\ ClientAt(c, "commit") /\ GoAway(c)
  /\ IF Having(a) # {} \/ AccountOf("password", a) # {}
     THEN UNCHANGED <<person, account, accepted, link, mail, origin>>
     ELSE /\ CreateUserWithPassword(p, a, [Unknown EXCEPT !.how = "form", !.public = public[c]])
          /\ Accept(p, client[c].docs) /\ CreateEmailVerification(l, p, a)
  /\ UNCHANGED <<flow, challenge, passkey, document, privacy, confirmed>>

\* createOAuthAuthorizationUrl: what was agreed to is the state's metadata.
StoreState(c, f) ==
  /\ ClientAt(c, "state") /\ flow[f] = NoFlow /\ GoAway(c)
  /\ flow' = [flow EXCEPT ![f] = [status |-> "live", agreed |-> client[c].docs]]
  /\ UNCHANGED <<person, account, link, mail, challenge, passkey, document, accepted, privacy,
                 origin, confirmed>>

\* exchangeOAuthCallback: the provider names subject s with address a, which it has
\* verified or not.
Exchange(c, s, a, trusted) ==
  client' = [client EXCEPT ![c].at = "finalize", ![c].subject = s, ![c].address = a,
                           ![c].trusted = trusted]
\* claimOAuthCallback, and the exchange that follows a state it could claim.
ClaimState(c, s, a, trusted) ==
  LET f == client[c].flow IN
  /\ ClientAt(c, "claim")
  /\ IF flow[f].status = "live"
     THEN flow' = [flow EXCEPT ![f].status = "used"] /\ Exchange(c, s, a, trusted)
     ELSE UNCHANGED flow /\ GoAway(c)
  /\ UNCHANGED <<person, account, link, mail, challenge, passkey, document, accepted, privacy,
                 origin, confirmed>>

\* Mutant of Matching: the number of documents alone is compared.
MatchingCount(agreed, docs) == Cardinality(agreed) = Cardinality(docs)

\* matchesOAuthLegalAcceptances: the versions agreed to are still those published.
Matching(agreed, docs) == agreed = docs

\* finalizeOAuthCallback: whose row the subject's account is, or will be.
Linked(x) == {y.person : y \in AccountOf("social", x.subject)}
Owner(x) == IF Linked(x) # {} THEN Linked(x) ELSE Having(x.address)
ProfileRefused(x) ==
  IF Linked(x) = {} THEN ~x.trusted
  ELSE \E q \in Linked(x) : ~Active(q) \/ ~(Having(x.address) \subseteq {q})

LinkSubject(c) ==
  /\ ClientAt(c, "finalize") /\ ~ProfileRefused(client[c]) /\ GoAway(c)
  /\ \E q \in Owner(client[c]) : Link("social", client[c].subject, q)
  /\ UNCHANGED <<person, link, mail, flow, challenge, passkey, document, accepted, privacy,
                 origin, confirmed>>
\* The callback's transaction makes a new account with its acceptances, and is rolled
\* back when what was agreed to is not what it has read.
Provision(c, p) ==
  LET x == client[c] IN
  /\ ClientAt(c, "finalize") /\ ~ProfileRefused(x) /\ Owner(x) = {} /\ GoAway(c)
  /\ IF Complete(x.docs) /\ Matching(flow[x.flow].agreed, x.docs)
     THEN /\ NewPerson(p, x.address, x.trusted, "user",
                       [Unknown EXCEPT !.how = "provider", !.public = public[c], !.flow = x.flow])
          /\ Link("social", x.subject, p) /\ Accept(p, x.docs)
          /\ confirmed' = confirmed \cup {<<p, x.address>>}
     ELSE UNCHANGED <<person, account, accepted, origin, confirmed>>
  /\ UNCHANGED <<link, mail, flow, challenge, passkey, document, privacy>>
RefuseProfile(c) ==
  ClientAt(c, "finalize") /\ ProfileRefused(client[c]) /\ GoAway(c) /\ OnlyClient

-----------------------------------------------------------------------------
(* What an administrator does *)

CallInvite(c, a, role) ==
  /\ Calls(c, [Away EXCEPT !.at = "invite", !.op = "invite", !.address = a, !.role = role])
  /\ OnlyClient
\* createInvitation: the token, then the invitation's row, then the message.
CreateInvitation(c, l) ==
  /\ ClientAt(c, "invite") /\ NewLink(l, "invitation", None, client[c].address, client[c].role)
  /\ client' = [client EXCEPT ![c].at = "row", ![c].link = l]
  /\ UNCHANGED <<person, account, mail, flow, challenge, passkey, document, accepted, privacy,
                 origin, confirmed>>
RecordInvitation(c) ==
  /\ ClientAt(c, "row") /\ Go(c, "mail")
  /\ link' = [link EXCEPT ![client[c].link].row = "pending"]
  /\ UNCHANGED <<person, account, mail, flow, challenge, passkey, document, accepted, privacy,
                 origin, confirmed>>
\* enqueueAuthNotification is the last statement that changes a row.
MailLink(c) ==
  LET l == client[c].link IN
  /\ ClientAt(c, "mail") /\ mail' = mail \cup {<<l, link[l].address>>} /\ GoAway(c)
  /\ UNCHANGED <<person, account, link, flow, challenge, passkey, document, accepted, privacy,
                 origin, confirmed>>

CallCreateUser(c, a, role) ==
  /\ Calls(c, [Away EXCEPT !.at = "create", !.op = "create", !.address = a, !.role = role])
  /\ OnlyClient
\* createUserByAdmin: the user, a link to set the password, the account, the message.
CreateUserByAdmin(c, p) ==
  LET a == client[c].address IN
  /\ ClientAt(c, "create")
  /\ IF Having(a) # {} THEN UNCHANGED <<person, origin>> /\ GoAway(c)
     ELSE /\ NewPerson(p, a, FALSE, client[c].role, [Unknown EXCEPT !.how = "admin"])
          /\ client' = [client EXCEPT ![c].at = "reset", ![c].person = p]
  /\ UNCHANGED <<account, link, mail, flow, challenge, passkey, document, accepted, privacy,
                 confirmed>>
CreateResetLink(c, l) ==
  /\ ClientAt(c, "reset") /\ NewLink(l, "reset", client[c].person, client[c].address, "user")
  /\ client' = [client EXCEPT ![c].at = "account", ![c].link = l]
  /\ UNCHANGED <<person, account, mail, flow, challenge, passkey, document, accepted, privacy,
                 origin, confirmed>>
\* The account's row can meet that of an earlier user with the same address.
InsertAccount(c) ==
  LET x == client[c]
      provider == IF x.op = "create" THEN "admin-created" ELSE "password"
  IN
  /\ ClientAt(c, "account")
  /\ IF AccountOf(provider, x.address) # {} THEN UNCHANGED account /\ GoAway(c)
     ELSE Link(provider, x.address, x.person) /\ Go(c, IF x.op = "create" THEN "mail" ELSE "mark")
  /\ UNCHANGED <<person, link, mail, flow, challenge, passkey, document, accepted, privacy,
                 origin, confirmed>>

-----------------------------------------------------------------------------
(* Who opens a link has read the message that it came in *)

CallLink(c, l, a) ==
  /\ <<l, a>> \in mail /\ link[l].kind # "reset"
  /\ Calls(c, [Away EXCEPT !.at = "consume", !.op = link[l].kind, !.link = l, !.address = a])
  /\ OnlyClient

\* Mutant of Consumable: consumed_at is not compared.
ConsumableAgain(l) == link[l].status \in {"live", "used"}

\* The WHERE clause of consumeToken.
Consumable(l) == link[l].status = "live"

ConsumeLink(c) ==
  LET x == client[c] IN
  /\ ClientAt(c, "consume")
  /\ IF Consumable(x.link)
     THEN link' = [link EXCEPT ![x.link].status = "used"] /\ Go(c, "use")
          /\ confirmed' = confirmed \cup {<<link[x.link].person, x.address>>}
     ELSE UNCHANGED <<link, confirmed>> /\ GoAway(c)
  /\ UNCHANGED <<person, account, mail, flow, challenge, passkey, document, accepted, privacy,
                 origin>>

\* acceptInvitation: the user with the token's address and role, the account, then
\* the mark on the invitation's row.
AcceptInvitation(c, p) ==
  LET l == client[c].link IN
  /\ ClientAt(c, "use") /\ client[c].op = "invitation"
  /\ IF Having(link[l].address) # {} THEN UNCHANGED <<person, origin>> /\ GoAway(c)
     ELSE /\ NewPerson(p, link[l].address, FALSE, link[l].role,
                       [Unknown EXCEPT !.how = "invitation", !.link = l])
          /\ client' = [client EXCEPT ![c].at = "account", ![c].person = p,
                                      ![c].address = link[l].address]
  /\ UNCHANGED <<account, link, mail, flow, challenge, passkey, document, accepted, privacy,
                 confirmed>>
MarkAccepted(c) ==
  LET l == client[c].link IN
  /\ ClientAt(c, "mark") /\ GoAway(c)
  /\ link' = [link EXCEPT ![l].row = IF @ = "pending" THEN "accepted" ELSE @]
  /\ UNCHANGED <<person, account, mail, flow, challenge, passkey, document, accepted, privacy,
                 origin, confirmed>>

\* The row is updated by its id, also when the user is deleted.
VerifyEmail(c) ==
  /\ ClientAt(c, "use") /\ client[c].op = "verification" /\ GoAway(c)
  /\ person' = [person EXCEPT ![link[client[c].link].person].verified = TRUE]
  /\ UNCHANGED <<account, link, mail, flow, challenge, passkey, document, accepted, privacy,
                 origin, confirmed>>
\* The UPDATE raises when someone has taken the address since; the link stays used.
VerifyEmailChange(c) ==
  LET p == link[client[c].link].person
      a == link[client[c].link].address
  IN
  /\ ClientAt(c, "use") /\ client[c].op = "address" /\ GoAway(c)
  /\ IF Active(p) /\ Having(a) \ {p} # {} THEN UNCHANGED person
     ELSE person' = [person EXCEPT ![p].address = a, ![p].verified = TRUE]
  /\ UNCHANGED <<account, link, mail, flow, challenge, passkey, document, accepted, privacy,
                 origin, confirmed>>

-----------------------------------------------------------------------------
(* What a signed-in person does; the session was good when the request came *)

CallAsPerson(c, p, x) == Active(p) /\ Calls(c, [x EXCEPT !.op = x.at, !.person = p]) /\ OnlyClient
CallEmailChange(c, p, a) == CallAsPerson(c, p, [Away EXCEPT !.at = "change", !.address = a])
CallBeginPasskey(c, p) == CallAsPerson(c, p, [Away EXCEPT !.at = "begin"])
CallFinishPasskey(c, p, k) == CallAsPerson(c, p, [Away EXCEPT !.at = "finish", !.challenge = k])
CallDeleteAccount(c, p) == CallAsPerson(c, p, [Away EXCEPT !.at = "delete"])
CallExport(c, p) == CallAsPerson(c, p, [Away EXCEPT !.at = "export"])

\* requestEmailChange: findUserByEmail and findUserById, then createToken, then the
\* message.
CheckEmailChange(c) ==
  /\ ClientAt(c, "change")
  /\ IF Active(client[c].person) /\ Having(client[c].address) \subseteq {client[c].person}
     THEN Go(c, "token") ELSE GoAway(c)
  /\ OnlyClient

\* Mutant of RequestEmailChange: the message goes to the address that the person has.
RequestEmailChangeOld(c, l) ==
  LET p == client[c].person IN
  /\ ClientAt(c, "token") /\ NewLink(l, "address", p, client[c].address, "user")
  /\ mail' = mail \cup {<<l, person[p].address>>} /\ GoAway(c)
  /\ UNCHANGED <<person, account, flow, challenge, passkey, document, accepted, privacy,
                 origin, confirmed>>

RequestEmailChange(c, l) ==
  /\ ClientAt(c, "token") /\ NewLink(l, "address", client[c].person, client[c].address, "user")
  /\ client' = [client EXCEPT ![c].at = "mail", ![c].link = l]
  /\ UNCHANGED <<person, account, mail, flow, challenge, passkey, document, accepted, privacy,
                 origin, confirmed>>

\* The INSERT; the user was looked up before.
BeginPasskeyRegistration(c, k) ==
  /\ ClientAt(c, "begin") /\ challenge[k] = NoChallenge /\ GoAway(c)
  /\ challenge' = [challenge EXCEPT ![k] = [status |-> "live", person |-> client[c].person]]
  /\ UNCHANGED <<person, account, link, mail, flow, passkey, document, accepted, privacy,
                 origin, confirmed>>

\* The WHERE clause of consumePasskeyChallenge.
Answerable(k, p) == challenge[k].status = "live" /\ challenge[k].person = p

\* finishPasskeyRegistration, in two statements.
ConsumeChallenge(c) ==
  LET k == client[c].challenge IN
  /\ ClientAt(c, "finish")
  /\ IF Answerable(k, client[c].person)
     THEN challenge' = [challenge EXCEPT ![k].status = "used"] /\ Go(c, "passkey")
     ELSE UNCHANGED challenge /\ GoAway(c)
  /\ UNCHANGED <<person, account, link, mail, flow, passkey, document, accepted, privacy,
                 origin, confirmed>>
\* A credential that is registered already makes the INSERT raise.
FinishPasskeyRegistration(c, x) ==
  /\ ClientAt(c, "passkey") /\ GoAway(c)
  /\ passkey' = IF \E y \in passkey : y.credential = x THEN passkey
                ELSE passkey \cup {[credential |-> x, person |-> client[c].person,
                                    challenge |-> client[c].challenge]}
  /\ UNCHANGED <<person, account, link, mail, flow, challenge, document, accepted, privacy,
                 origin, confirmed>>

\* deleteAccount, requestPrivacyAction and updatePrivacyRequest in one transaction;
\* the user was looked up in it, and the UPDATE names the id alone.
DeleteOwnAccount(c) ==
  LET p == client[c].person IN
  /\ ClientAt(c, "delete") /\ GoAway(c)
  /\ person' = [person EXCEPT ![p].status = "deleted"]
  /\ CompleteRequest(p, "account_deletion")
  /\ UNCHANGED <<account, link, mail, flow, challenge, passkey, document, accepted, origin,
                 confirmed>>
\* The export's transaction reads what the account has and completes its request.
ExportAccount(c) ==
  /\ ClientAt(c, "export") /\ GoAway(c)
  /\ CompleteRequest(client[c].person, "data_export")
  /\ UNCHANGED <<person, account, link, mail, flow, challenge, passkey, document, accepted,
                 origin, confirmed>>

-----------------------------------------------------------------------------
\* An editor publishes a new text or takes a page back, time passes, a process dies
\* or a statement raises.
EditDocument(d, published) ==
  /\ document[d].version < MaxVersion
  /\ document' = [document EXCEPT ![d] = [version |-> @.version + 1, published |-> published]]
  /\ UNCHANGED <<person, account, link, mail, flow, challenge, passkey, accepted, privacy, client,
                 origin, confirmed>>
ExpireLink(l) ==
  /\ link[l].status = "live" /\ link' = [link EXCEPT ![l].status = "expired"]
  /\ UNCHANGED <<person, account, mail, flow, challenge, passkey, document, accepted, privacy,
                 client, origin, confirmed>>
ExpireFlow(f) ==
  /\ flow[f].status = "live" /\ flow' = [flow EXCEPT ![f].status = "expired"]
  /\ UNCHANGED <<person, account, link, mail, challenge, passkey, document, accepted, privacy,
                 client, origin, confirmed>>
ExpireChallenge(k) ==
  /\ challenge[k].status = "live" /\ challenge' = [challenge EXCEPT ![k].status = "expired"]
  /\ UNCHANGED <<person, account, link, mail, flow, passkey, document, accepted, privacy,
                 client, origin, confirmed>>
DieInClient(c) == ~ClientAt(c, "away") /\ GoAway(c) /\ OnlyClient

Ask(c) ==
  \/ \E a \in Mailboxes :
       \/ CallSignUp(c, a)
       \/ \E role \in {"user", "admin"} : CallInvite(c, a, role) \/ CallCreateUser(c, a, role)
       \/ \E p \in People : CallEmailChange(c, p, a)
       \/ \E l \in Links : CallLink(c, l, a)
  \/ \E ticked \in BOOLEAN : CallStart(c, ticked)
  \/ \E f \in Flows : CallCallback(c, f)
  \/ \E p \in People :
       \/ CallBeginPasskey(c, p) \/ CallDeleteAccount(c, p) \/ CallExport(c, p)
       \/ \E k \in Challenges : CallFinishPasskey(c, p, k)
Join(c) ==
  \/ ReadDocuments(c) \/ LinkSubject(c) \/ RefuseProfile(c)
  \/ \E p \in People, l \in Links : SignUp(c, p, l)
  \/ \E f \in Flows : StoreState(c, f)
  \/ \E s \in Subjects, a \in Mailboxes, trusted \in BOOLEAN : ClaimState(c, s, a, trusted)
  \/ \E p \in People : Provision(c, p) \/ CreateUserByAdmin(c, p) \/ AcceptInvitation(c, p)
  \/ \E l \in Links : CreateInvitation(c, l) \/ CreateResetLink(c, l)
  \/ RecordInvitation(c) \/ MailLink(c) \/ InsertAccount(c)
  \/ ConsumeLink(c) \/ MarkAccepted(c)
Keep(c) ==
  \/ VerifyEmail(c) \/ VerifyEmailChange(c)
  \/ CheckEmailChange(c) \/ \E l \in Links : RequestEmailChange(c, l)
  \/ \E k \in Challenges : BeginPasskeyRegistration(c, k)
  \/ ConsumeChallenge(c) \/ \E x \in Credentials : FinishPasskeyRegistration(c, x)
  \/ DeleteOwnAccount(c) \/ ExportAccount(c)
Meanwhile ==
  \/ \E d \in Documents, published \in BOOLEAN : EditDocument(d, published)
  \/ \E l \in Links : ExpireLink(l)
  \/ \E f \in Flows : ExpireFlow(f)
  \/ \E k \in Challenges : ExpireChallenge(k)

\* What is published while a request is at work; asked for only by those that read it.
Observe ==
  public' = [c \in Clients |->
               IF client'[c].op \in {"sign up", "callback"} THEN public[c] \cup OnShow' ELSE {}]
AccountsNext ==
  /\ \/ \E c \in Clients : Ask(c) \/ Join(c) \/ Keep(c) \/ DieInClient(c)
     \/ Meanwhile
  /\ Observe

AccountsSpec == AccountsInit /\ [][AccountsNext]_accountVars

-----------------------------------------------------------------------------
\* Those who make an account for themselves have accepted both legal documents, in
\* versions that were published while their request ran; with a social provider
\* those that they had agreed to when they left for it.  Nobody else has.
LegalGround ==
  \A p \in People :
    LET versions == {x[2] : x \in {y \in accepted : y[1] = p}} IN
    IF origin[p].how \in {"form", "provider"}
    THEN /\ {x[1] : x \in versions} = Documents /\ versions \subseteq origin[p].public
         /\ origin[p].how = "provider" => versions = flow[origin[p].flow].agreed
    ELSE versions = {}

\* An invitation makes one person at most, of its role, however often its link is
\* opened; a role comes from an administrator; a passkey was registered by whom its
\* challenge was made for, one for a challenge.
PeopleGrounded ==
  /\ \A p, q \in People :
       origin[p].how = "invitation" =>
         /\ person[p].role = link[origin[p].link].role
         /\ p # q => origin[p] # origin[q]
  /\ \A p \in People : person[p].role # "user" => origin[p].how \in {"invitation", "admin"}
  /\ \A x, y \in passkey :
       /\ challenge[x.challenge].person = x.person
       /\ x # y => x.challenge # y.challenge
  /\ \A l \in Links : link[l].row = "accepted" => \E p \in People : origin[p].link = l

\* The address of a verified account is one whose mail its owner has read, or that
\* the provider vouched for; no two accounts have the same.
AddressesConfirmed ==
  \A p \in People :
    /\ person[p].verified => <<p, person[p].address>> \in confirmed
    /\ Active(p) => Having(person[p].address) = {p}

\* However the operations on accounts run into each other, what an account rests on
\* stands: what was accepted, who made it and its role, and its address.
AccountsGrounded == LegalGround /\ PeopleGrounded /\ AddressesConfirmed

=============================================================================

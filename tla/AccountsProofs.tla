----------------------------- MODULE AccountsProofs ----------------------------
(***************************************************************************)
(* Proofs about the people of Accounts, who sign up, accept invitations,   *)
(* follow mailed links and add passkeys at the same time.  Every request   *)
(* is a client that makes one statement after another, so the invariant    *)
(* says of each place in it what its earlier reads still guarantee.        *)
(***************************************************************************)
EXTENDS Accounts, FiniteSetTheorems, TLAPS

-----------------------------------------------------------------------------
Roles == {"user", "admin"}
Versions == Documents \X Nat
Persons ==
  [status : {"none", "active", "deleted"}, address : Mailboxes \cup {None}, verified : BOOLEAN,
   role : Roles]
LinkKinds == {"verification", "invitation", "reset", "address"}
LinkRows ==
  [status : {"none", "live", "used", "expired"}, kind : LinkKinds \cup {"none"},
   person : People \cup {None}, address : Mailboxes \cup {None}, role : Roles,
   row : {"none", "pending", "accepted"}]
FlowRows == [status : {"none", "live", "used", "expired"}, agreed : SUBSET Versions]
ChallengeRows == [status : {"none", "live", "used", "expired"}, person : People \cup {None}]
PasskeyRows == [credential : Credentials, person : People, challenge : Challenges]
Grounds ==
  [how : {"none", "form", "provider", "admin", "invitation"}, public : SUBSET Versions,
   link : Links \cup {None}, flow : Flows \cup {None}]
SignUpStages == {"documents", "state", "commit", "claim", "finalize"}
LinkStages == {"row", "mail", "account", "mark", "consume", "use"}
PersonStages ==
  {"reset", "account", "mark", "change", "token", "begin", "finish", "passkey", "delete", "export"}
AddressStages ==
  {"commit", "finalize", "invite", "create", "reset", "account", "consume", "use", "change",
   "token"}
ClientStates ==
  [at : {"away"} \cup SignUpStages \cup LinkStages \cup PersonStages \cup AddressStages,
   op : {"none", "sign up", "start", "callback", "invite", "create", "verification", "invitation",
         "address", "change", "begin", "finish", "delete", "export"},
   person : People \cup {None}, address : Mailboxes \cup {None}, role : Roles,
   docs : SUBSET Versions, link : Links \cup {None}, flow : Flows \cup {None},
   subject : Subjects \cup {None}, trusted : BOOLEAN, challenge : Challenges \cup {None}]

AccountsTypeOK ==
  /\ person \in [People -> Persons] /\ link \in [Links -> LinkRows]
  /\ mail \subseteq Links \X Mailboxes
  /\ flow \in [Flows -> FlowRows] /\ challenge \in [Challenges -> ChallengeRows]
  /\ passkey \subseteq PasskeyRows
  /\ document \in [Documents -> [version : Nat, published : BOOLEAN]]
  /\ accepted \subseteq People \X Versions
  /\ client \in [Clients -> ClientStates] /\ public \in [Clients -> SUBSET Versions]
  /\ origin \in [People -> Grounds] /\ confirmed \subseteq (People \cup {None}) \X Mailboxes

There(p) == p \in People /\ person[p].status # "none"
Made(l) == l \in Links /\ link[l].status # "none"
Left(f) == f \in Flows /\ flow[f] # NoFlow
\* A link that somebody's account came from.
Invited(p, l) == origin[p].how = "invitation" /\ origin[p].link = l

\* What a request holds at each of its statements.
Holds(c) ==
  LET x == client[c] IN
  /\ x.at \in AddressStages \/ x.op = "sign up" => x.address \in Mailboxes
  /\ x.at \in PersonStages => There(x.person)
  /\ x.at \in LinkStages => Made(x.link)
  /\ x.op = "callback" => Left(x.flow)
  /\ x.at = "documents" => x.op \in {"sign up", "start", "callback"}
  /\ x.at \in {"finish", "passkey"} => x.challenge \in Challenges
\* At one time a document has one version.
Shown(docs) == \A x, y \in docs : x[1] = y[1] => x = y
ReaderRule(c) ==
  LET x == client[c] IN
  x.at \in {"commit", "claim", "finalize"} =>
    /\ x.op = IF x.at = "commit" THEN "sign up" ELSE "callback"
    /\ Shown(x.docs) /\ x.docs \subseteq public[c] /\ (x.at = "commit" => Complete(x.docs))
\* Who opens a link, who has consumed it, and for whom an account is being made.
OpenRule(c) ==
  LET x == client[c] IN
  /\ x.at \in {"consume", "use"} => x.op = link[x.link].kind /\ x.address = link[x.link].address
  /\ x.at = "use" => /\ link[x.link].status = "used"
                     /\ <<link[x.link].person, x.address>> \in confirmed
                     /\ \A p \in People : ~Invited(p, x.link)
  /\ x.at \in {"create", "reset"} => x.op = "create"
  /\ x.at = "account" => x.op \in {"create", "invitation"}
  /\ x.at = "mark" => x.op = "invitation"
  /\ x.at \in {"account", "mark"} /\ x.op = "invitation" => origin[x.person].link = x.link
AnswerChallenge(c) ==
  LET x == client[c] IN
  x.at = "passkey" =>
    /\ challenge[x.challenge].status = "used" /\ challenge[x.challenge].person = x.person
    /\ \A y \in passkey : y.challenge # x.challenge
ClientRules(c) == Holds(c) /\ ReaderRule(c) /\ OpenRule(c) /\ AnswerChallenge(c)
\* One request has consumed a link or a challenge.
OnceRule ==
  \A c, d \in Clients :
    /\ ClientAt(c, "use") /\ ClientAt(d, "use") /\ client[c].link = client[d].link => c = d
    /\ ClientAt(c, "passkey") /\ ClientAt(d, "passkey")
       /\ client[c].challenge = client[d].challenge => c = d

\* What rows say together.
PersonRule(p) ==
  LET g == origin[p] IN
  /\ person[p].status = "none" => g = Unknown
  /\ g.how = "invitation" => /\ Made(g.link) /\ link[g.link].status = "used"
                             /\ person[p].role = link[g.link].role
                             /\ \A q \in People : Invited(q, g.link) => q = p
  /\ g.how = "provider" => Left(g.flow)
  /\ person[p].role # "user" => g.how \in {"invitation", "admin"}
LinkRule(l) ==
  /\ Made(l) =>
       /\ link[l].kind \in LinkKinds /\ link[l].address \in Mailboxes
       /\ link[l].kind # "invitation" => There(link[l].person)
       /\ link[l].kind = "verification" =>
            LET p == link[l].person IN person[p].verified \/ person[p].address = link[l].address
  /\ link[l].row = "accepted" => \E p \in People : origin[p].link = l
  /\ \A a \in Mailboxes : <<l, a>> \in mail => Made(l) /\ a = link[l].address
PasskeyRule ==
  \A x, y \in passkey :
    /\ challenge[x.challenge].status = "used" /\ challenge[x.challenge].person = x.person
    /\ x.challenge = y.challenge => x = y

AccountsInv ==
  /\ \A c \in Clients : ClientRules(c)
  /\ OnceRule
  /\ \A p \in People : PersonRule(p)
  /\ \A l \in Links : LinkRule(l)
  /\ PasskeyRule
  /\ LegalGround /\ AddressesConfirmed

-----------------------------------------------------------------------------
LEMMA AwayTyped ==
  /\ Away \in ClientStates /\ Away.at = "away" /\ Away.op = "none"
  /\ Unknown \in Grounds /\ Unknown.how = "none"
BY DEF Away, ClientStates, SignUpStages, Roles, Unknown, Grounds

\* What an operation changes of a request's state.
LEMMA StateFields ==
  ASSUME NEW x \in ClientStates
  PROVE  /\ \A s \in SignUpStages \cup LinkStages \cup PersonStages \cup AddressStages :
              [x EXCEPT !.at = s] \in ClientStates
         /\ \A s \in LinkStages, l \in Links : [x EXCEPT !.at = s, !.link = l] \in ClientStates
         /\ \A s \in PersonStages, p \in People : [x EXCEPT !.at = s, !.person = p] \in ClientStates
         /\ \A p \in People, a \in Mailboxes :
              [x EXCEPT !.at = "account", !.person = p, !.address = a] \in ClientStates
         /\ \A s \in SignUpStages, docs \in SUBSET Versions :
              [x EXCEPT !.docs = docs, !.at = s] \in ClientStates
         /\ \A s \in Subjects, a \in Mailboxes, b \in BOOLEAN :
              [x EXCEPT !.at = "finalize", !.subject = s, !.address = a, !.trusted = b]
                \in ClientStates
<1>1. \A s \in SignUpStages \cup LinkStages \cup PersonStages \cup AddressStages :
        [x EXCEPT !.at = s] \in ClientStates
  BY DEF ClientStates
<1>2. \A s \in LinkStages, l \in Links : [x EXCEPT !.at = s, !.link = l] \in ClientStates
  BY DEF ClientStates
<1>3. \A s \in PersonStages, p \in People : [x EXCEPT !.at = s, !.person = p] \in ClientStates
  BY DEF ClientStates
<1>4. \A p \in People, a \in Mailboxes :
        [x EXCEPT !.at = "account", !.person = p, !.address = a] \in ClientStates
  BY DEF ClientStates, LinkStages
<1>5. \A s \in SignUpStages, docs \in SUBSET Versions :
        [x EXCEPT !.docs = docs, !.at = s] \in ClientStates
  BY DEF ClientStates
<1>6. \A s \in Subjects, a \in Mailboxes, b \in BOOLEAN :
        [x EXCEPT !.at = "finalize", !.subject = s, !.address = a, !.trusted = b] \in ClientStates
  BY DEF ClientStates, SignUpStages
<1> QED
  BY <1>1, <1>2, <1>3, <1>4, <1>5, <1>6

LEMMA OnShowTyped ==
  ASSUME document \in [Documents -> [version : Nat, published : BOOLEAN]]
  PROVE  OnShow \subseteq Versions /\ Shown(OnShow)
BY DEF OnShow, Versions, Shown

Ops ==
  {"none", "sign up", "start", "callback", "invite", "create", "verification", "invitation",
   "address", "change", "begin", "finish", "delete", "export"}
LEMMA AskFields ==
  ASSUME NEW x \in ClientStates, NEW o \in Ops
  PROVE  /\ \A s \in SignUpStages, a \in Mailboxes :
              [x EXCEPT !.at = s, !.op = o, !.address = a] \in ClientStates
         /\ \A s \in AddressStages, a \in Mailboxes, role \in Roles :
              [x EXCEPT !.at = s, !.op = o, !.address = a, !.role = role] \in ClientStates
         /\ \A s \in LinkStages, l \in Links, a \in Mailboxes :
              [x EXCEPT !.at = s, !.op = o, !.link = l, !.address = a] \in ClientStates
         /\ \A s \in SignUpStages : [x EXCEPT !.at = s, !.op = o] \in ClientStates
         /\ \A s \in SignUpStages, f \in Flows :
              [x EXCEPT !.at = s, !.op = o, !.flow = f] \in ClientStates
         /\ \A p \in People : [x EXCEPT !.op = o, !.person = p] \in ClientStates
<1>1. \A s \in SignUpStages, a \in Mailboxes :
        [x EXCEPT !.at = s, !.op = o, !.address = a] \in ClientStates
  BY DEF ClientStates, Ops
<1>2. \A s \in AddressStages, a \in Mailboxes, role \in Roles :
        [x EXCEPT !.at = s, !.op = o, !.address = a, !.role = role] \in ClientStates
  BY DEF ClientStates, Ops
<1>3. \A s \in LinkStages, l \in Links, a \in Mailboxes :
        [x EXCEPT !.at = s, !.op = o, !.link = l, !.address = a] \in ClientStates
  BY DEF ClientStates, Ops
<1>4. \A s \in SignUpStages : [x EXCEPT !.at = s, !.op = o] \in ClientStates
  BY DEF ClientStates, Ops
<1>5. \A s \in SignUpStages, f \in Flows : [x EXCEPT !.at = s, !.op = o, !.flow = f] \in ClientStates
  BY DEF ClientStates, Ops
<1>6. \A p \in People : [x EXCEPT !.op = o, !.person = p] \in ClientStates
  BY DEF ClientStates, Ops
<1> QED
  BY <1>1, <1>2, <1>3, <1>4, <1>5, <1>6

OneMoves(c) == \E x \in ClientStates : client' = [client EXCEPT ![c] = x]
\* What a request asks for.
LEMMA AskMoves ==
  ASSUME AccountsTypeOK, NEW c \in Clients, Ask(c)
  PROVE  OneMoves(c)
<1>1. ASSUME NEW a \in Mailboxes, CallSignUp(c, a) PROVE OneMoves(c)
  BY <1>1, AwayTyped, AskFields DEF CallSignUp, Calls, OneMoves, Ops, SignUpStages
<1>2. ASSUME NEW a \in Mailboxes, NEW role \in Roles, CallInvite(c, a, role) PROVE OneMoves(c)
  BY <1>2, AwayTyped, AskFields DEF CallInvite, Calls, OneMoves, Ops, AddressStages
<1>3. ASSUME NEW a \in Mailboxes, NEW role \in Roles, CallCreateUser(c, a, role) PROVE OneMoves(c)
  BY <1>3, AwayTyped, AskFields DEF CallCreateUser, Calls, OneMoves, Ops, AddressStages
<1>4. ASSUME NEW p \in People, NEW x \in ClientStates, x.at \in Ops, CallAsPerson(c, p, x)
      PROVE  OneMoves(c)
  BY <1>4, AskFields DEF CallAsPerson, Calls, OneMoves
<1>5. ASSUME NEW p \in People, NEW a \in Mailboxes, CallEmailChange(c, p, a) PROVE OneMoves(c)
  <2>1. [Away EXCEPT !.at = "change", !.address = a] \in ClientStates
    BY AwayTyped DEF ClientStates, AddressStages
  <2> QED
    BY <1>4, <1>5, <2>1 DEF CallEmailChange, Away, Ops
<1>6. ASSUME NEW l \in Links, NEW a \in Mailboxes, CallLink(c, l, a) PROVE OneMoves(c)
  <2>1. link[l].kind \in Ops
    BY <1>6 DEF CallLink, AccountsTypeOK, LinkRows, LinkKinds, Ops
  <2> QED
    BY <1>6, <2>1, AwayTyped, AskFields DEF CallLink, Calls, OneMoves, LinkStages
<1>7. ASSUME NEW ticked \in BOOLEAN, CallStart(c, ticked) PROVE OneMoves(c)
  BY <1>7, AwayTyped, AskFields DEF CallStart, Calls, OneMoves, Ops, SignUpStages
<1>8. ASSUME NEW f \in Flows, CallCallback(c, f) PROVE OneMoves(c)
  BY <1>8, AwayTyped, AskFields DEF CallCallback, Calls, OneMoves, Ops, SignUpStages
<1>9. ASSUME NEW p \in People,
             CallBeginPasskey(c, p) \/ CallDeleteAccount(c, p) \/ CallExport(c, p)
      PROVE  OneMoves(c)
  <2>1. \A s \in {"begin", "delete", "export"} :
          [Away EXCEPT !.at = s] \in ClientStates /\ [Away EXCEPT !.at = s].at = s
    BY AwayTyped, StateFields DEF PersonStages, Away
  <2> QED
    BY <1>4, <1>9, <2>1 DEF CallBeginPasskey, CallDeleteAccount, CallExport, Ops
<1>10. ASSUME NEW p \in People, NEW k \in Challenges, CallFinishPasskey(c, p, k) PROVE OneMoves(c)
  <2>1. [Away EXCEPT !.at = "finish", !.challenge = k] \in ClientStates
    BY AwayTyped DEF ClientStates, PersonStages
  <2> QED
    BY <1>4, <1>10, <2>1 DEF CallFinishPasskey, Away, Ops
<1> QED
  BY <1>1, <1>2, <1>3, <1>5, <1>6, <1>7, <1>8, <1>9, <1>10 DEF Ask, Roles

-----------------------------------------------------------------------------
\* What rows keep, whatever happens to others.
PeopleKept ==
  \A p \in People : There(p) =>
    /\ There(p)' /\ origin'[p] = origin[p]
    /\ person'[p].verified \/ (~person[p].verified /\ person'[p].address = person[p].address)
LinksKept ==
  \A l \in Links : Made(l) =>
    /\ Made(l)' /\ link'[l].kind = link[l].kind /\ link'[l].person = link[l].person
    /\ link'[l].address = link[l].address /\ link'[l].role = link[l].role
    /\ link[l].status = "used" => link'[l].status = "used"
FlowsKept ==
  \A f \in Flows : Left(f) => Left(f)' /\ flow'[f].agreed = flow[f].agreed
ChallengesKept ==
  \A k \in Challenges : challenge[k].status = "used" =>
    challenge'[k].status = "used" /\ challenge'[k].person = challenge[k].person
RowsKept == PeopleKept /\ LinksKept /\ FlowsKept /\ ChallengesKept /\ confirmed \subseteq confirmed'

AccountsIInv == AccountsTypeOK /\ AccountsInv
RowsTypeOK ==
  /\ person \in [People -> Persons] /\ link \in [Links -> LinkRows]
  /\ mail \subseteq Links \X Mailboxes
  /\ flow \in [Flows -> FlowRows] /\ challenge \in [Challenges -> ChallengeRows]
  /\ passkey \subseteq PasskeyRows
  /\ document \in [Documents -> [version : Nat, published : BOOLEAN]]
  /\ accepted \subseteq People \X Versions
  /\ origin \in [People -> Grounds] /\ confirmed \subseteq (People \cup {None}) \X Mailboxes

LEMMA Observed ==
  ASSUME AccountsTypeOK, RowsTypeOK', client' \in [Clients -> ClientStates], Observe
  PROVE  /\ AccountsTypeOK'
         /\ \A d \in Clients : client'[d].op \in {"sign up", "callback"}
                                 => public'[d] = public[d] \cup OnShow'
<1>1. OnShow' \subseteq Versions
  BY OnShowTyped DEF RowsTypeOK, OnShow, Versions
<1>2. public' \in [Clients -> SUBSET Versions]
  BY <1>1 DEF Observe, AccountsTypeOK
<1> QED
  BY <1>2 DEF Observe, AccountsTypeOK, RowsTypeOK

LEMMA AwayRules ==
  ASSUME NEW c \in Clients, client'[c] = Away PROVE ClientRules(c)'
BY DEF Away, ClientRules, Holds, ReaderRule, OpenRule, AnswerChallenge, AddressStages, PersonStages,
   LinkStages

LEMMA OnceKept ==
  ASSUME OnceRule, NEW c \in Clients, \A d \in Clients \ {c} : client'[d] = client[d],
         client'[c].at \notin {"use", "passkey"}
  PROVE  OnceRule'
BY DEF OnceRule, ClientAt

\* The rules of a request that does not move.
LEMMA OthersHold ==
  ASSUME AccountsIInv, NEW d \in Clients, client'[d] = client[d], RowsKept,
         client[d].op \in {"sign up", "callback"} => public[d] \subseteq public'[d],
         ClientAt(d, "use") => \A p \in People : ~Invited(p, client[d].link)',
         ClientAt(d, "passkey") => \A y \in passkey' : y.challenge # client[d].challenge
  PROVE  ClientRules(d)'
<1> USE DEF RowsKept
<1>1. ClientRules(d)
  BY DEF AccountsIInv, AccountsInv
<1>2. Holds(d)'
  <2>1. client[d].at \in PersonStages => There(client[d].person)'
    BY <1>1 DEF ClientRules, Holds, PeopleKept, There
  <2>2. client[d].at \in LinkStages => Made(client[d].link)'
    BY <1>1 DEF ClientRules, Holds, LinksKept, Made
  <2>3. client[d].op = "callback" => Left(client[d].flow)'
    BY <1>1 DEF ClientRules, Holds, FlowsKept, Left
  <2> QED
    BY <1>1, <2>1, <2>2, <2>3 DEF ClientRules, Holds, There, Made, Left
<1>3. ReaderRule(d)'
  BY <1>1 DEF ClientRules, ReaderRule, Shown
<1>4. OpenRule(d)'
  <2>1. client[d].at \in {"consume", "use"} => Made(client[d].link) /\ client[d].link \in Links
    BY <1>1 DEF ClientRules, Holds, LinkStages, Made
  <2>2. client[d].at \in {"account", "mark"} => There(client[d].person) /\ client[d].person \in People
    BY <1>1 DEF ClientRules, Holds, PersonStages, There
  <2> QED
    BY <1>1, <2>1, <2>2 DEF ClientRules, OpenRule, PeopleKept, LinksKept, ClientAt
<1>5. AnswerChallenge(d)'
  <2>1. client[d].at = "passkey" => client[d].challenge \in Challenges
    BY <1>1 DEF ClientRules, Holds
  <2> QED
    BY <1>1, <2>1 DEF ClientRules, AnswerChallenge, ChallengesKept, ClientAt
<1> QED
  BY <1>2, <1>3, <1>4, <1>5 DEF ClientRules

\* What rows say together goes on where they are left alone.
LEMMA PersonRuleKept ==
  ASSUME AccountsIInv, UNCHANGED <<person, origin>>, RowsKept PROVE \A p \in People : PersonRule(p)'
BY DEF AccountsIInv, AccountsInv, PersonRule, RowsKept, LinksKept, FlowsKept, Invited, Made, Left
LEMMA LinkRuleKept ==
  ASSUME AccountsIInv, UNCHANGED <<link, mail>>, RowsKept PROVE \A l \in Links : LinkRule(l)'
<1> SUFFICES ASSUME NEW l \in Links PROVE LinkRule(l)'
  OBVIOUS
<1>1. LinkRule(l)
  BY DEF AccountsIInv, AccountsInv
<1>2. link[l].kind # "invitation" /\ Made(l) => There(link[l].person) /\ There(link[l].person)'
  BY <1>1 DEF LinkRule, RowsKept, PeopleKept, There
<1>3. Made(l) /\ link[l].kind = "verification" =>
        LET p == link[l].person IN person'[p].verified \/ person'[p].address = link[l].address
  BY <1>1, <1>2 DEF LinkRule, RowsKept, PeopleKept, There
<1>4. ASSUME link[l].row = "accepted" PROVE \E p \in People : origin'[p].link = l
  <2>1. PICK p \in People : origin[p].link = l
    BY <1>1, <1>4 DEF LinkRule
  <2>2. There(p)
    BY <2>1, AccountsAssumption DEF AccountsIInv, AccountsInv, PersonRule, There, Unknown
  <2> QED
    BY <2>1, <2>2 DEF RowsKept, PeopleKept
<1> QED
  BY <1>1, <1>2, <1>3, <1>4 DEF LinkRule, Made
LEMMA PasskeyRuleKept ==
  ASSUME AccountsIInv, UNCHANGED passkey, RowsKept PROVE PasskeyRule'
<1>1. \A x \in passkey : x.challenge \in Challenges
  BY DEF AccountsIInv, AccountsTypeOK, PasskeyRows
<1> QED
  BY <1>1 DEF AccountsIInv, AccountsInv, PasskeyRule, RowsKept, ChallengesKept
LEMMA LegalGroundKept ==
  ASSUME AccountsIInv, UNCHANGED <<accepted, origin>>, RowsKept PROVE LegalGround'
<1>1. \A p \in People : origin[p].how = "provider" => Left(origin[p].flow) /\ origin[p].flow \in Flows
  BY DEF AccountsIInv, AccountsInv, PersonRule, Left
<1>2. \A p \in People : origin[p].how = "provider"
                          => flow'[origin[p].flow].agreed = flow[origin[p].flow].agreed
  BY <1>1 DEF RowsKept, FlowsKept
<1> QED
  BY <1>2 DEF AccountsIInv, AccountsInv, LegalGround
LEMMA AddressesKept ==
  ASSUME AccountsIInv, UNCHANGED person, RowsKept PROVE AddressesConfirmed'
BY DEF AccountsIInv, AccountsInv, AddressesConfirmed, RowsKept, Having, Active

\* A request's step is one that keeps its own rules and the rules of the rows.
LEMMA OwnStep ==
  ASSUME AccountsIInv, NEW c \in Clients, OneMoves(c), Observe, RowsTypeOK', RowsKept,
         AccountsTypeOK' => ClientRules(c)', OnceRule',
         \A d \in Clients \ {c} :
           /\ ClientAt(d, "use") => \A p \in People : ~Invited(p, client[d].link)'
           /\ ClientAt(d, "passkey") => \A y \in passkey' : y.challenge # client[d].challenge,
         \A p \in People : PersonRule(p)', \A l \in Links : LinkRule(l)', PasskeyRule',
         LegalGround', AddressesConfirmed'
  PROVE  AccountsIInv'
<1>1. client' \in [Clients -> ClientStates] /\ \A d \in Clients \ {c} : client'[d] = client[d]
  BY DEF OneMoves, AccountsIInv, AccountsTypeOK
<1>2. AccountsTypeOK'
  BY <1>1, Observed DEF AccountsIInv
<1>3. ASSUME NEW d \in Clients \ {c} PROVE ClientRules(d)'
  <2>1. client[d].op \in {"sign up", "callback"} => public[d] \subseteq public'[d]
    BY <1>1, Observed DEF AccountsIInv
  <2> QED
    BY <1>1, <2>1, OthersHold
<1> QED
  BY <1>2, <1>3 DEF AccountsIInv, AccountsInv

-----------------------------------------------------------------------------
\* A step that changes no row.
LEMMA QuietStep ==
  ASSUME AccountsIInv, NEW c \in Clients, OneMoves(c), Observe, OnlyClient,
         AccountsTypeOK' => ClientRules(c)', client'[c].at \notin {"use", "passkey"}
  PROVE  AccountsIInv'
<1> USE DEF OnlyClient, accountRows
<1>1. RowsTypeOK' /\ RowsKept
  <2>1. RowsTypeOK'
    BY DEF AccountsIInv, AccountsTypeOK, RowsTypeOK
  <2>2. PeopleKept /\ LinksKept
    BY DEF PeopleKept, LinksKept, There, Made, AccountsIInv, AccountsTypeOK, Persons
  <2>3. FlowsKept /\ ChallengesKept
    BY DEF FlowsKept, ChallengesKept, Left
  <2> QED
    BY <2>1, <2>2, <2>3 DEF RowsKept
<1>2. \A d \in Clients \ {c} : client'[d] = client[d]
  BY DEF OneMoves, AccountsIInv, AccountsTypeOK
<1>3. OnceRule'
  BY <1>2, OnceKept DEF AccountsIInv, AccountsInv
<1>4. ASSUME NEW d \in Clients \ {c}
      PROVE  /\ ClientAt(d, "use") => \A p \in People : ~Invited(p, client[d].link)'
             /\ ClientAt(d, "passkey") => \A y \in passkey' : y.challenge # client[d].challenge
  <2>1. OpenRule(d) /\ AnswerChallenge(d) /\ client'[d] = client[d]
    BY <1>2 DEF AccountsIInv, AccountsInv, ClientRules
  <2> QED
    BY <2>1 DEF OpenRule, AnswerChallenge, ClientAt, Invited
<1> QED
  BY <1>1, <1>3, <1>4, OwnStep, PersonRuleKept, LinkRuleKept, PasskeyRuleKept, LegalGroundKept,
     AddressesKept

LEMMA AskStep ==
  ASSUME AccountsIInv, NEW c \in Clients, Ask(c), Observe
  PROVE  AccountsIInv'
<1> DEFINE x == client'[c]
           Good == /\ OnlyClient
                   /\ x.at \in {"documents", "state", "invite", "create", "consume", "change",
                                "begin", "finish", "delete", "export"}
                   /\ x.at \in AddressStages \/ x.op = "sign up" => x.address \in Mailboxes
                   /\ x.at \in PersonStages => There(x.person)
                   /\ x.at = "documents" => x.op \in {"sign up", "start", "callback"}
                   /\ x.op = "callback" => Left(x.flow)
                   /\ x.at = "finish" => x.challenge \in Challenges
                   /\ x.at = "create" => x.op = "create"
                   /\ x.at = "consume" =>
                        /\ Made(x.link) /\ x.op = link[x.link].kind
                        /\ x.address = link[x.link].address
<1> USE DEF AddressStages, PersonStages
<1>0. \A y : Calls(c, y) => client'[c] = y
  BY DEF Calls, AccountsIInv, AccountsTypeOK
<1>1. ASSUME NEW a \in Mailboxes, CallSignUp(c, a) PROVE Good
  <2>1. x.at = "documents" /\ x.op = "sign up" /\ x.address = a
    BY <1>0, <1>1 DEF CallSignUp, Away
  <2> QED
    BY <1>1, <2>1 DEF CallSignUp
<1>2. ASSUME NEW a \in Mailboxes, NEW role \in {"user", "admin"},
             CallInvite(c, a, role) \/ CallCreateUser(c, a, role)
      PROVE  Good
  <2>0. PICK s \in {"invite", "create"} :
          x = [Away EXCEPT !.at = s, !.op = s, !.address = a, !.role = role]
    BY <1>0, <1>2 DEF CallInvite, CallCreateUser
  <2>1. x.at = s /\ x.op = x.at /\ x.address = a
    BY <2>0 DEF Away
  <2> QED
    BY <1>2, <2>1 DEF CallInvite, CallCreateUser
<1>3. ASSUME NEW p \in People, NEW y, CallAsPerson(c, p, y)
      PROVE  x = [y EXCEPT !.op = y.at, !.person = p] /\ OnlyClient /\ There(p)
  BY <1>0, <1>3 DEF CallAsPerson, There, Active
<1>4. ASSUME NEW p \in People, NEW a \in Mailboxes, CallEmailChange(c, p, a) PROVE Good
  <2>0. CallAsPerson(c, p, [Away EXCEPT !.at = "change", !.address = a])
    BY <1>4 DEF CallEmailChange
  <2>1. x.at = "change" /\ x.op = "change" /\ x.address = a /\ x.person = p
    <3> DEFINE y == [Away EXCEPT !.at = "change", !.address = a]
    <3>1. x = [y EXCEPT !.op = y.at, !.person = p]
      BY <1>3, <2>0
    <3> QED
      BY <3>1 DEF Away
  <2> QED
    BY <1>3, <1>4, <2>1 DEF CallEmailChange
<1>5. ASSUME NEW l \in Links, NEW a \in Mailboxes, CallLink(c, l, a) PROVE Good
  <2>1. Made(l) /\ a = link[l].address /\ link[l].kind \in LinkKinds \ {"reset"} /\ OnlyClient
    BY <1>5 DEF CallLink, AccountsIInv, AccountsInv, LinkRule
  <2>2. x = [Away EXCEPT !.at = "consume", !.op = link[l].kind, !.link = l, !.address = a]
    BY <1>0, <1>5 DEF CallLink
  <2>3. x.at = "consume" /\ x.op = link[l].kind /\ x.link = l /\ x.address = a
    BY <2>2 DEF Away
  <2> QED
    BY <2>1, <2>3, a \in Mailboxes DEF LinkKinds
<1>6. ASSUME NEW ticked \in BOOLEAN, CallStart(c, ticked) PROVE Good
  <2>1. x.at \in {"documents", "state"} /\ x.op = "start"
    BY <1>0, <1>6 DEF CallStart, Away
  <2> QED
    BY <1>6, <2>1 DEF CallStart
<1>7. ASSUME NEW f \in Flows, CallCallback(c, f) PROVE Good
  <2>1. x.at = "documents" /\ x.op = "callback" /\ x.flow = f
    BY <1>0, <1>7 DEF CallCallback, Away
  <2> QED
    BY <1>7, <2>1 DEF CallCallback, Left
<1>8. ASSUME NEW p \in People,
             CallBeginPasskey(c, p) \/ CallDeleteAccount(c, p) \/ CallExport(c, p)
      PROVE  Good
  <2>1. PICK s \in {"begin", "delete", "export"} : CallAsPerson(c, p, [Away EXCEPT !.at = s])
    BY <1>8 DEF CallBeginPasskey, CallDeleteAccount, CallExport
  <2>2. x.at = s /\ x.op = s /\ x.person = p
    <3> DEFINE y == [Away EXCEPT !.at = s]
    <3>1. x = [y EXCEPT !.op = y.at, !.person = p]
      BY <1>3, <2>1
    <3> QED
      BY <3>1 DEF Away
  <2> QED
    BY <1>3, <2>1, <2>2
<1>9. ASSUME NEW p \in People, NEW k \in Challenges, CallFinishPasskey(c, p, k) PROVE Good
  <2>0. CallAsPerson(c, p, [Away EXCEPT !.at = "finish", !.challenge = k])
    BY <1>9 DEF CallFinishPasskey
  <2>1. x.at = "finish" /\ x.op = "finish" /\ x.person = p /\ x.challenge = k
    <3> DEFINE y == [Away EXCEPT !.at = "finish", !.challenge = k]
    <3>1. x = [y EXCEPT !.op = y.at, !.person = p]
      BY <1>3, <2>0
    <3> QED
      BY <3>1 DEF Away
  <2> QED
    BY <1>3, <1>9, <2>1 DEF CallFinishPasskey
<1>10. Good
  BY <1>1, <1>2, <1>4, <1>5, <1>6, <1>7, <1>8, <1>9 DEF Ask
<1>11. ClientRules(c)'
  BY <1>10 DEF ClientRules, Holds, ReaderRule, OpenRule, AnswerChallenge, LinkStages, OnlyClient,
     accountRows, There, Made, Left
<1> QED
  BY <1>10, <1>11, AskMoves, QuietStep DEF AccountsIInv

LEMMA QuietSteps ==
  ASSUME AccountsIInv, NEW c \in Clients, ReadDocuments(c) \/ RefuseProfile(c) \/ DieInClient(c),
         Observe
  PROVE  AccountsIInv'
<1>1. CASE GoAway(c) /\ OnlyClient
  BY <1>1, AwayTyped, AwayRules, QuietStep DEF GoAway, OneMoves, AccountsIInv, AccountsTypeOK
<1>2. CASE ~GoAway(c)
  <2>1. ReadDocuments(c) /\ OnlyClient /\ document' = document
    BY <1>2 DEF ReadDocuments, RefuseProfile, DieInClient, OnlyClient, accountRows
  <2>2. OnShow \subseteq Versions /\ Shown(OnShow) /\ OnShow' = OnShow
    BY <2>1, OnShowTyped DEF AccountsIInv, AccountsTypeOK, OnShow
  <2> DEFINE s == CASE client[c].op = "sign up" -> "commit"
                    [] client[c].op = "start" -> "state"
                    [] client[c].op = "callback" -> "claim"
             x == [client[c] EXCEPT !.docs = OnShow, !.at = s]
  <2>3. /\ client' = [client EXCEPT ![c] = x] /\ client'[c] = x
        /\ client[c].at = "documents" /\ client[c].op \in {"sign up", "start", "callback"}
        /\ client[c].op = "callback" \/ Complete(OnShow)
        /\ client[c].op = "callback" => Left(client[c].flow)
        /\ client[c].op = "sign up" => client[c].address \in Mailboxes
        /\ client[c] \in ClientStates
    BY <1>2, <2>1 DEF ReadDocuments, ClientAt, AccountsIInv, AccountsInv, AccountsTypeOK, ClientRules, Holds
  <2>4. s \in SignUpStages /\ x \in ClientStates
    BY <2>2, <2>3, StateFields DEF SignUpStages
  <2>5. /\ x.at = s /\ x.op = client[c].op /\ x.docs = OnShow /\ x.flow = client[c].flow
        /\ x.address = client[c].address
    BY <2>3 DEF ClientStates
  <2> HIDE DEF x
  <2>6. OneMoves(c)
    BY <2>3, <2>4 DEF OneMoves
  <2>7. ASSUME AccountsTypeOK' PROVE ClientRules(c)'
    <3>1. x.op \in {"sign up", "callback"} => x.docs \subseteq public'[c]
      BY <2>2, <2>3, <2>5 DEF Observe
    <3> QED
      BY <2>1, <2>2, <2>3, <2>5, <3>1 DEF ClientRules, Holds, ReaderRule, OpenRule, AnswerChallenge,
         AddressStages, PersonStages, LinkStages, OnlyClient, accountRows, Left, Complete
  <2> QED
    BY <2>1, <2>3, <2>5, <2>6, <2>7, QuietStep
<1> QED
  BY <1>1, <1>2 DEF ReadDocuments, RefuseProfile, DieInClient

-----------------------------------------------------------------------------
\* A step of nobody's: a document is edited or an id expires.
LEMMA MeanwhileStep ==
  ASSUME AccountsIInv, Meanwhile, Observe
  PROVE  AccountsIInv'
<1>1. UNCHANGED <<client, person, mail, passkey, accepted, origin, confirmed>>
  BY DEF Meanwhile, EditDocument, ExpireLink, ExpireFlow, ExpireChallenge
<1>2. /\ document' \in [Documents -> [version : Nat, published : BOOLEAN]]
      /\ link' \in [Links -> LinkRows] /\ LinksKept
      /\ \A l \in Links : link'[l].row = link[l].row
      /\ flow' \in [Flows -> FlowRows] /\ FlowsKept
      /\ challenge' \in [Challenges -> ChallengeRows] /\ ChallengesKept
  <2>1. CASE \E d \in Documents, published \in BOOLEAN : EditDocument(d, published)
    BY <2>1 DEF EditDocument, AccountsIInv, AccountsTypeOK, LinksKept, FlowsKept, ChallengesKept,
       Made, Left
  <2>2. ASSUME NEW l \in Links, ExpireLink(l)
        PROVE  /\ UNCHANGED <<document, flow, challenge>>
               /\ link' \in [Links -> LinkRows] /\ LinksKept
               /\ \A m \in Links : link'[m].row = link[m].row
    <3>1. UNCHANGED <<document, flow, challenge>> /\ link[l].status = "live"
          /\ link' = [link EXCEPT ![l].status = "expired"] /\ link \in [Links -> LinkRows]
      BY <2>2 DEF ExpireLink, AccountsIInv, AccountsTypeOK
    <3>2. [link[l] EXCEPT !.status = "expired"] \in LinkRows
      BY <3>1 DEF LinkRows
    <3>3. link' \in [Links -> LinkRows]
      BY <3>1, <3>2
    <3> QED
      BY <3>1, <3>3 DEF LinkRows, LinksKept, Made
  <2>3. ASSUME NEW f \in Flows, ExpireFlow(f)
        PROVE  UNCHANGED <<document, link, challenge>> /\ flow' \in [Flows -> FlowRows] /\ FlowsKept
    <3>1. UNCHANGED <<document, link, challenge>> /\ flow[f].status = "live"
          /\ flow' = [flow EXCEPT ![f].status = "expired"] /\ flow \in [Flows -> FlowRows]
      BY <2>3 DEF ExpireFlow, AccountsIInv, AccountsTypeOK
    <3> QED
      BY <3>1 DEF FlowRows, FlowsKept, Left, NoFlow
  <2>4. ASSUME NEW k \in Challenges, ExpireChallenge(k)
        PROVE  /\ UNCHANGED <<document, link, flow>>
               /\ challenge' \in [Challenges -> ChallengeRows] /\ ChallengesKept
    <3>1. UNCHANGED <<document, link, flow>> /\ challenge[k].status = "live"
          /\ challenge' = [challenge EXCEPT ![k].status = "expired"]
          /\ challenge \in [Challenges -> ChallengeRows]
      BY <2>4 DEF ExpireChallenge, AccountsIInv, AccountsTypeOK
    <3> QED
      BY <3>1 DEF ChallengeRows, ChallengesKept
  <2>5. AccountsTypeOK
    BY DEF AccountsIInv
  <2> QED
    BY <2>1, <2>2, <2>3, <2>4, <2>5 DEF Meanwhile, AccountsTypeOK, LinksKept, FlowsKept,
       ChallengesKept, Made, Left
<1>3. RowsTypeOK' /\ RowsKept
  BY <1>1, <1>2 DEF AccountsIInv, AccountsTypeOK, RowsTypeOK, RowsKept, PeopleKept, There
<1>4. AccountsTypeOK'
  BY <1>1, <1>3, Observed DEF AccountsIInv, AccountsTypeOK
<1>5. ASSUME NEW d \in Clients PROVE ClientRules(d)'
  <2>1. client[d].op \in {"sign up", "callback"} => public[d] \subseteq public'[d]
    BY <1>1, <1>3, Observed DEF AccountsIInv, AccountsTypeOK
  <2>2. OpenRule(d) /\ AnswerChallenge(d)
    BY DEF AccountsIInv, AccountsInv, ClientRules
  <2>3. /\ ClientAt(d, "use") => \A p \in People : ~Invited(p, client[d].link)'
        /\ ClientAt(d, "passkey") => \A y \in passkey' : y.challenge # client[d].challenge
    BY <1>1, <2>2 DEF OpenRule, AnswerChallenge, ClientAt, Invited
  <2> QED
    BY <1>1, <1>3, <2>1, <2>3, OthersHold
<1>6. OnceRule'
  BY <1>1 DEF AccountsIInv, AccountsInv, OnceRule, ClientAt
<1>7. \A l \in Links : LinkRule(l)'
  <2> SUFFICES ASSUME NEW l \in Links PROVE LinkRule(l)'
    OBVIOUS
  <2>1. LinkRule(l)
    BY DEF AccountsIInv, AccountsInv
  <2>2. Made(l)' <=> Made(l)
    BY <1>1, <1>2 DEF Meanwhile, EditDocument, ExpireLink, ExpireFlow, ExpireChallenge, Made, LinksKept
  <2> QED
    BY <1>1, <1>2, <2>1, <2>2 DEF LinkRule, LinksKept, There
<1> QED
  BY <1>1, <1>3, <1>4, <1>5, <1>6, <1>7, PersonRuleKept, PasskeyRuleKept, LegalGroundKept,
     AddressesKept DEF AccountsIInv, AccountsInv

\* A step of a request that writes links, messages or what they confirm.
OnlyLinks == UNCHANGED <<person, flow, challenge, passkey, document, accepted, origin>>
LEMMA LinkStep ==
  ASSUME AccountsIInv, NEW c \in Clients, OneMoves(c), Observe, OnlyLinks,
         link' \in [Links -> LinkRows], mail' \subseteq Links \X Mailboxes, LinksKept,
         confirmed' \subseteq (People \cup {None}) \X Mailboxes, confirmed \subseteq confirmed',
         AccountsTypeOK' => ClientRules(c)', OnceRule', \A l \in Links : LinkRule(l)'
  PROVE  AccountsIInv'
<1> USE DEF OnlyLinks
<1>1. RowsTypeOK'
  BY DEF AccountsIInv, AccountsTypeOK, RowsTypeOK
<1>2. PeopleKept /\ FlowsKept /\ ChallengesKept
  BY DEF PeopleKept, FlowsKept, ChallengesKept, There, Left, AccountsIInv, AccountsTypeOK, Persons
<1>3. RowsKept
  BY <1>2 DEF RowsKept
<1>4. ASSUME NEW d \in Clients \ {c}
      PROVE  /\ ClientAt(d, "use") => \A p \in People : ~Invited(p, client[d].link)'
             /\ ClientAt(d, "passkey") => \A y \in passkey' : y.challenge # client[d].challenge
  <2>1. OpenRule(d) /\ AnswerChallenge(d) /\ client'[d] = client[d]
    BY DEF AccountsIInv, AccountsInv, ClientRules, OneMoves, AccountsTypeOK
  <2> QED
    BY <2>1 DEF OpenRule, AnswerChallenge, ClientAt, Invited
<1> QED
  BY <1>1, <1>3, <1>4, OwnStep, PersonRuleKept, PasskeyRuleKept, LegalGroundKept, AddressesKept

LEMMA NewLinkMade ==
  ASSUME AccountsIInv, NEW l \in Links, NEW kind \in LinkKinds, NEW p \in People \cup {None},
         NEW a \in Mailboxes, NEW role \in Roles, NewLink(l, kind, p, a, role)
  PROVE  /\ link' \in [Links -> LinkRows] /\ LinksKept /\ Made(l)' /\ ~Made(l)
         /\ link'[l].kind = kind /\ link'[l].person = p /\ link'[l].address = a
         /\ link'[l].row = "none"
         /\ \A m \in Links \ {l} : link'[m] = link[m]
BY DEF NewLink, AccountsIInv, AccountsTypeOK, LinkRows, LinksKept, Made, NoLink

\* Rules of links after a new one.
LEMMA NewLinkRule ==
  ASSUME AccountsIInv, NEW l \in Links, Made(l)', ~Made(l), \A m \in Links \ {l} : link'[m] = link[m],
         link'[l].kind \in LinkKinds, link'[l].address \in Mailboxes, link'[l].row = "none",
         link'[l].kind # "invitation" => There(link[l].person)',
         link'[l].kind = "verification" => person'[link'[l].person].address = link'[l].address,
         PeopleKept, \A m \in Links, a \in Mailboxes : <<m, a>> \in mail' =>
                       <<m, a>> \in mail \/ (m = l /\ a = link'[l].address)
  PROVE  \A m \in Links : LinkRule(m)'
<1>1. LinkRule(l)'
  <2>1. \A a \in Mailboxes : <<l, a>> \in mail' => Made(l)' /\ a = link'[l].address
    BY DEF AccountsIInv, AccountsInv, LinkRule
  <2> QED
    BY <2>1 DEF LinkRule, There
<1>2. ASSUME NEW m \in Links \ {l} PROVE LinkRule(m)'
  <2>1. LinkRule(m)
    BY DEF AccountsIInv, AccountsInv
  <2>2. link[m].kind # "invitation" /\ Made(m) => There(link[m].person) /\ There(link[m].person)'
    BY <1>2, <2>1 DEF LinkRule, PeopleKept, There
  <2>3. Made(m) /\ link[m].kind = "verification" =>
          LET p == link[m].person IN person'[p].verified \/ person'[p].address = link[m].address
    BY <2>1, <2>2 DEF LinkRule, PeopleKept, There
  <2>4. ASSUME link[m].row = "accepted" PROVE \E p \in People : origin'[p].link = m
    <3>1. PICK p \in People : origin[p].link = m
      BY <2>1, <2>4 DEF LinkRule
    <3>2. There(p)
      BY <3>1, AccountsAssumption DEF AccountsIInv, AccountsInv, PersonRule, There, Unknown
    <3> QED
      BY <3>1, <3>2 DEF PeopleKept
  <2> QED
    BY <1>2, <2>1, <2>2, <2>3, <2>4 DEF LinkRule, Made
<1> QED
  BY <1>1, <1>2

LEMMA GoMoves ==
  ASSUME AccountsTypeOK, NEW c \in Clients,
         NEW s \in SignUpStages \cup LinkStages \cup PersonStages \cup AddressStages, Go(c, s)
  PROVE  LET x == client[c]  y == client'[c] IN
         /\ OneMoves(c) /\ y.at = s /\ y.op = x.op /\ y.person = x.person /\ y.address = x.address
         /\ y.link = x.link /\ y.flow = x.flow /\ y.challenge = x.challenge
<1>1. client' = [client EXCEPT ![c] = [client[c] EXCEPT !.at = s]] /\ client[c] \in ClientStates
      /\ client'[c] = [client[c] EXCEPT !.at = s]
  BY DEF Go, AccountsTypeOK
<1>2. OneMoves(c)
  BY <1>1, StateFields DEF OneMoves
<1>3. \A x \in ClientStates :
        LET y == [x EXCEPT !.at = s] IN
        /\ y.at = s /\ y.op = x.op /\ y.person = x.person /\ y.address = x.address
        /\ y.link = x.link /\ y.flow = x.flow /\ y.challenge = x.challenge
  BY DEF ClientStates
<1> QED
  BY <1>1, <1>2, <1>3
LEMMA GoneMoves ==
  ASSUME AccountsTypeOK, NEW c \in Clients, GoAway(c) PROVE OneMoves(c) /\ client'[c] = Away
BY AwayTyped DEF GoAway, AccountsTypeOK, OneMoves
LEMMA GoneRules ==
  ASSUME AccountsIInv, NEW c \in Clients, GoAway(c)
  PROVE  OneMoves(c) /\ client'[c] = Away /\ client'[c].at = "away" /\ ClientRules(c)' /\ OnceRule'
<1>1. OneMoves(c) /\ client'[c] = Away
  BY GoneMoves DEF AccountsIInv
<1>2. client'[c].at = "away"
  BY <1>1 DEF Away
<1>3. \A d \in Clients \ {c} : client'[d] = client[d]
  BY <1>1 DEF OneMoves, AccountsIInv, AccountsTypeOK
<1> QED
  BY <1>1, <1>2, <1>3, AwayRules, OnceKept DEF AccountsIInv, AccountsInv
LEMMA LinkMoves ==
  ASSUME AccountsTypeOK, NEW c \in Clients, NEW s \in LinkStages, NEW l \in Links,
         client' = [client EXCEPT ![c].at = s, ![c].link = l]
  PROVE  LET x == client[c]  y == client'[c] IN
         /\ OneMoves(c) /\ y.at = s /\ y.op = x.op /\ y.person = x.person /\ y.address = x.address
         /\ y.link = l /\ y.flow = x.flow /\ y.challenge = x.challenge
<1>1. client' = [client EXCEPT ![c] = [client[c] EXCEPT !.at = s, !.link = l]]
      /\ client[c] \in ClientStates /\ client'[c] = [client[c] EXCEPT !.at = s, !.link = l]
  BY DEF AccountsTypeOK
<1>2. OneMoves(c)
  BY <1>1, StateFields DEF OneMoves
<1> QED
  BY <1>1, <1>2 DEF ClientStates

LEMMA CreateInvitationStep ==
  ASSUME AccountsIInv, NEW c \in Clients, NEW l \in Links, CreateInvitation(c, l), Observe
  PROVE  AccountsIInv'
<1>1. /\ ClientRules(c) /\ client[c].at = "invite" /\ client[c].address \in Mailboxes
      /\ client[c].role \in Roles /\ OnlyLinks /\ mail' = mail /\ confirmed' = confirmed
      /\ NewLink(l, "invitation", None, client[c].address, client[c].role)
      /\ AccountsTypeOK
  BY DEF CreateInvitation, ClientAt, AccountsIInv, AccountsInv, AccountsTypeOK, ClientStates,
     ClientRules, Holds, AddressStages, OnlyLinks
<1>2. /\ link' \in [Links -> LinkRows] /\ LinksKept /\ Made(l)' /\ ~Made(l)
      /\ link'[l].kind = "invitation" /\ link'[l].address = client[c].address
      /\ link'[l].row = "none" /\ \A m \in Links \ {l} : link'[m] = link[m]
  BY <1>1, NewLinkMade DEF LinkKinds
<1>3. LET x == client[c]  y == client'[c] IN
      /\ OneMoves(c) /\ y.at = "row" /\ y.op = x.op /\ y.link = l /\ y.address = x.address
      /\ y.flow = x.flow
  BY <1>1, LinkMoves DEF CreateInvitation, LinkStages
<1>4. PeopleKept
  BY <1>1 DEF OnlyLinks, PeopleKept, There, AccountsTypeOK, Persons
<1>5. \A m \in Links : LinkRule(m)'
  BY <1>1, <1>2, <1>4, NewLinkRule DEF LinkKinds
<1>6. ClientRules(c)'
  BY <1>1, <1>2, <1>3 DEF ClientRules, Holds, ReaderRule, OpenRule, AnswerChallenge, AddressStages,
     PersonStages, LinkStages, OnlyLinks, Left
<1>7. OnceRule'
  BY <1>1, <1>3, OnceKept DEF OneMoves, AccountsIInv, AccountsInv, AccountsTypeOK
<1> QED
  BY <1>1, <1>2, <1>3, <1>5, <1>6, <1>7, LinkStep DEF AccountsTypeOK

LEMMA RowWritten ==
  ASSUME AccountsIInv, OnlyLinks, NEW l, Made(l), NEW r \in {"pending", "accepted"},
         link' = [link EXCEPT ![l].row = r], UNCHANGED mail,
         r = "accepted" => \E p \in People : origin[p].link = l
  PROVE  /\ link' \in [Links -> LinkRows] /\ LinksKept /\ \A m \in Links : LinkRule(m)'
         /\ \A m \in Links : Made(m) => Made(m)'
<1>1. link \in [Links -> LinkRows] /\ l \in Links
  BY DEF AccountsIInv, AccountsTypeOK, Made
<1>2. /\ link' \in [Links -> LinkRows] /\ link'[l].row = r
      /\ \A m \in Links : /\ link'[m].status = link[m].status /\ link'[m].kind = link[m].kind
                          /\ link'[m].person = link[m].person /\ link'[m].address = link[m].address
                          /\ link'[m].role = link[m].role
                          /\ m # l => link'[m].row = link[m].row
  BY <1>1 DEF LinkRows
<1>3. ASSUME NEW m \in Links PROVE LinkRule(m)'
  <2>1. LinkRule(m)
    BY DEF AccountsIInv, AccountsInv
  <2> QED
    BY <1>2, <2>1 DEF LinkRule, Made, There, OnlyLinks
<1> QED
  BY <1>2, <1>3 DEF LinksKept, Made

LEMMA InvitationSteps ==
  ASSUME AccountsIInv, NEW c \in Clients, RecordInvitation(c) \/ MarkAccepted(c), Observe
  PROVE  AccountsIInv'
<1>1. ClientRules(c) /\ AccountsTypeOK /\ AccountsInv
  BY DEF AccountsIInv, AccountsInv
<1>2. OnlyLinks /\ UNCHANGED <<mail, confirmed>>
  BY DEF RecordInvitation, MarkAccepted, OnlyLinks
<1> DEFINE l == client[c].link
<1>3. Made(l) /\ link \in [Links -> LinkRows]
  BY <1>1 DEF RecordInvitation, MarkAccepted, ClientAt, ClientRules, Holds, LinkStages, AccountsTypeOK
<1>4. /\ link' \in [Links -> LinkRows] /\ LinksKept /\ \A m \in Links : LinkRule(m)'
      /\ \A m \in Links : Made(m) => Made(m)'
  <2>1. CASE RecordInvitation(c)
    BY <1>2, <1>3, <2>1, RowWritten DEF RecordInvitation
  <2>2. CASE MarkAccepted(c) /\ link[l].row = "pending"
    <3>1. link' = [link EXCEPT ![l].row = "accepted"]
      BY <2>2 DEF MarkAccepted
    <3>2. There(client[c].person) /\ origin[client[c].person].link = l
      BY <1>1, <2>2 DEF MarkAccepted, ClientAt, ClientRules, Holds, OpenRule, PersonStages
    <3> QED
      BY <1>2, <1>3, <3>1, <3>2, RowWritten DEF There
  <2>3. CASE MarkAccepted(c) /\ link[l].row # "pending"
    <3>1. link' = link
      BY <1>3, <2>3 DEF MarkAccepted, LinkRows
    <3> QED
      BY <1>1, <1>2, <1>3, <3>1 DEF AccountsInv, LinkRule, OnlyLinks, There, Made, LinksKept
  <2> QED
    BY <2>1, <2>2, <2>3
<1>5. /\ OneMoves(c) /\ ClientRules(c)' /\ client'[c].at \notin {"use", "passkey"}
  <2>1. CASE MarkAccepted(c)
    BY <2>1, GoneRules DEF MarkAccepted
  <2>2. CASE RecordInvitation(c)
    <3>1. LET x == client[c]  y == client'[c] IN
          /\ OneMoves(c) /\ y.at = "mail" /\ y.op = x.op /\ y.address = x.address /\ y.link = x.link
          /\ y.flow = x.flow
      BY <1>1, <2>2, GoMoves DEF RecordInvitation, LinkStages
    <3> QED
      BY <1>1, <1>2, <1>3, <1>4, <3>1 DEF ClientRules, Holds, ReaderRule, OpenRule,
         AnswerChallenge, AddressStages, PersonStages, LinkStages, OnlyLinks, Left, Made
  <2> QED
    BY <2>1, <2>2
<1>6. OnceRule'
  BY <1>1, <1>5, OnceKept DEF OneMoves, AccountsInv, AccountsTypeOK
<1> QED
  BY <1>1, <1>2, <1>4, <1>5, <1>6, LinkStep DEF AccountsTypeOK

LEMMA MailLinkStep ==
  ASSUME AccountsIInv, NEW c \in Clients, MailLink(c), Observe
  PROVE  AccountsIInv'
<1>1. ClientRules(c) /\ AccountsTypeOK /\ AccountsInv
  BY DEF AccountsIInv, AccountsInv
<1> DEFINE l == client[c].link
<1>2. OnlyLinks /\ UNCHANGED <<link, confirmed>> /\ mail' = mail \cup {<<l, link[l].address>>}
  BY DEF MailLink, OnlyLinks
<1>3. Made(l) /\ link[l].address \in Mailboxes
  BY <1>1 DEF MailLink, ClientAt, ClientRules, Holds, LinkStages, AccountsInv, LinkRule, Made
<1>4. LinksKept /\ \A m \in Links : LinkRule(m)'
  BY <1>1, <1>2, <1>3 DEF LinksKept, Made, OnlyLinks, AccountsInv, LinkRule, There
<1>5. OneMoves(c) /\ ClientRules(c)' /\ OnceRule'
  BY GoneRules DEF MailLink
<1> QED
  BY <1>1, <1>2, <1>3, <1>4, <1>5, LinkStep DEF AccountsTypeOK, Made

LEMMA ConsumeLinkStep ==
  ASSUME AccountsIInv, NEW c \in Clients, ConsumeLink(c), Observe
  PROVE  AccountsIInv'
<1> DEFINE l == client[c].link
<1>1. ClientRules(c) /\ AccountsTypeOK /\ AccountsInv /\ ClientAt(c, "consume")
  BY DEF AccountsIInv, AccountsInv, ConsumeLink
<1>2. OnlyLinks /\ UNCHANGED mail
  BY DEF ConsumeLink, OnlyLinks
<1>3. /\ Made(l) /\ client[c].op = link[l].kind /\ client[c].address = link[l].address
      /\ client[c].address \in Mailboxes /\ link \in [Links -> LinkRows]
  BY <1>1 DEF ClientAt, ClientRules, Holds, OpenRule, LinkStages, AddressStages, AccountsTypeOK
<1>4. CASE Consumable(l)
  <2>1. /\ link' = [link EXCEPT ![l].status = "used"] /\ Go(c, "use") /\ link[l].status = "live"
        /\ confirmed' = confirmed \cup {<<link[l].person, client[c].address>>}
    BY <1>4 DEF ConsumeLink, Consumable
  <2>2. /\ link' \in [Links -> LinkRows] /\ link'[l].status = "used"
        /\ \A m \in Links : /\ link'[m].kind = link[m].kind /\ link'[m].row = link[m].row
                            /\ link'[m].person = link[m].person /\ link'[m].role = link[m].role
                            /\ link'[m].address = link[m].address
                            /\ m # l => link'[m].status = link[m].status
    BY <1>3, <2>1 DEF LinkRows, Made
  <2>3. LinksKept /\ \A m \in Links : Made(m) <=> Made(m)'
    BY <1>3, <2>2 DEF LinksKept, Made
  <2>4. ASSUME NEW m \in Links PROVE LinkRule(m)'
    <3>1. LinkRule(m)
      BY <1>1 DEF AccountsInv
    <3> QED
      BY <1>2, <2>2, <2>3, <3>1 DEF LinkRule, There, OnlyLinks
  <2>5. LET x == client[c]  y == client'[c] IN
        /\ OneMoves(c) /\ y.at = "use" /\ y.op = x.op /\ y.address = x.address /\ y.link = l
        /\ y.flow = x.flow
    BY <1>1, <2>1, GoMoves DEF LinkStages
  <2>6. \A p \in People : ~Invited(p, l)
    BY <1>1, <2>1 DEF AccountsInv, PersonRule, Invited
  <2>7. ClientRules(c)'
    <3>1. Holds(c)' /\ ReaderRule(c)' /\ AnswerChallenge(c)'
      BY <1>1, <1>2, <1>3, <2>3, <2>5 DEF ClientRules, Holds, ReaderRule, AnswerChallenge,
         AddressStages, PersonStages, LinkStages, OnlyLinks, Left, Made
    <3>2. OpenRule(c)'
      BY <1>2, <1>3, <2>1, <2>2, <2>5, <2>6 DEF OpenRule, OnlyLinks, Invited, Made
    <3> QED
      BY <3>1, <3>2 DEF ClientRules
  <2>8. OnceRule'
    <3>1. ASSUME NEW d \in Clients \ {c}, ClientAt(d, "use") PROVE client[d].link # l
      BY <1>1, <2>1, <3>1 DEF AccountsInv, ClientRules, OpenRule, ClientAt
    <3>2. \A d \in Clients \ {c} : client'[d] = client[d]
      BY <1>1, <2>5 DEF OneMoves, AccountsTypeOK
    <3> QED
      BY <1>1, <2>5, <3>1, <3>2 DEF AccountsInv, OnceRule, ClientAt
  <2>9. confirmed' \subseteq (People \cup {None}) \X Mailboxes
    BY <1>1, <1>3, <2>1 DEF AccountsTypeOK, LinkRows, Made
  <2> QED
    BY <1>1, <1>2, <2>1, <2>2, <2>3, <2>4, <2>5, <2>7, <2>8, <2>9, LinkStep DEF AccountsTypeOK
<1>5. CASE ~Consumable(l)
  <2>1. UNCHANGED <<link, confirmed>> /\ GoAway(c)
    BY <1>5 DEF ConsumeLink
  <2>2. LinksKept /\ \A m \in Links : LinkRule(m)'
    BY <1>1, <1>2, <2>1 DEF LinksKept, Made, OnlyLinks, AccountsInv, LinkRule, There
  <2>3. OneMoves(c) /\ ClientRules(c)' /\ OnceRule'
    BY <2>1, GoneRules
  <2> QED
    BY <1>1, <1>2, <2>1, <2>2, <2>3, LinkStep DEF AccountsTypeOK
<1> QED
  BY <1>4, <1>5

LEMMA CreateResetLinkStep ==
  ASSUME AccountsIInv, NEW c \in Clients, NEW l \in Links, CreateResetLink(c, l), Observe
  PROVE  AccountsIInv'
<1> DEFINE x == client[c]
<1>1. /\ ClientRules(c) /\ x.at = "reset" /\ x.address \in Mailboxes /\ There(x.person)
      /\ OnlyLinks /\ UNCHANGED <<mail, confirmed>>
      /\ NewLink(l, "reset", x.person, x.address, "user") /\ AccountsTypeOK
  BY DEF CreateResetLink, ClientAt, AccountsIInv, AccountsInv, ClientRules, Holds, AddressStages,
     PersonStages, OnlyLinks
<1>2. /\ link' \in [Links -> LinkRows] /\ LinksKept /\ Made(l)' /\ ~Made(l)
      /\ link'[l].kind = "reset" /\ link'[l].address = x.address /\ link'[l].person = x.person
      /\ link'[l].row = "none" /\ \A m \in Links \ {l} : link'[m] = link[m]
  BY <1>1, NewLinkMade DEF LinkKinds, There, Roles
<1>3. LET y == client'[c] IN
      /\ OneMoves(c) /\ y.at = "account" /\ y.op = x.op /\ y.link = l /\ y.address = x.address
      /\ y.flow = x.flow /\ y.person = x.person
  BY <1>1, LinkMoves DEF CreateResetLink, LinkStages
<1>4. PeopleKept
  BY <1>1 DEF OnlyLinks, PeopleKept, There, AccountsTypeOK, Persons
<1>5. \A m \in Links : LinkRule(m)'
  BY <1>1, <1>2, <1>4, NewLinkRule DEF LinkKinds, There, OnlyLinks
<1>6. ClientRules(c)'
  BY <1>1, <1>2, <1>3 DEF ClientRules, Holds, ReaderRule, OpenRule, AnswerChallenge, AddressStages,
     PersonStages, LinkStages, OnlyLinks, Left, There
<1>7. OnceRule'
  BY <1>1, <1>3, OnceKept DEF OneMoves, AccountsIInv, AccountsInv, AccountsTypeOK
<1> QED
  BY <1>1, <1>2, <1>3, <1>5, <1>6, <1>7, LinkStep DEF AccountsTypeOK

LEMMA EmailChangeSteps ==
  ASSUME AccountsIInv, NEW c \in Clients, CheckEmailChange(c), Observe
  PROVE  AccountsIInv'
<1>1. CASE GoAway(c)
  BY <1>1, AwayTyped, AwayRules, QuietStep DEF CheckEmailChange, GoAway, OneMoves, AccountsIInv,
     AccountsTypeOK
<1>2. CASE Go(c, "token")
  <2>1. /\ client[c].at = "change" /\ OnlyClient /\ ClientRules(c)
        /\ client[c].address \in Mailboxes /\ There(client[c].person)
    BY DEF CheckEmailChange, ClientAt, AccountsIInv, AccountsInv, ClientRules, Holds, AddressStages,
       PersonStages
  <2>2. LET x == client[c]  y == client'[c] IN
        /\ OneMoves(c) /\ y.at = "token" /\ y.op = x.op /\ y.person = x.person
        /\ y.address = x.address /\ y.flow = x.flow
    BY <1>2, GoMoves DEF AccountsIInv, PersonStages
  <2>3. ClientRules(c)'
    BY <2>1, <2>2 DEF ClientRules, Holds, ReaderRule, OpenRule, AnswerChallenge, AddressStages,
       PersonStages, LinkStages, OnlyClient, accountRows, Left, There
  <2> QED
    BY <2>1, <2>2, <2>3, QuietStep
<1> QED
  BY <1>1, <1>2 DEF CheckEmailChange

LEMMA RequestEmailChangeStep ==
  ASSUME AccountsIInv, NEW c \in Clients, NEW l \in Links, RequestEmailChange(c, l), Observe
  PROVE  AccountsIInv'
<1> DEFINE x == client[c]
<1>1. /\ ClientRules(c) /\ x.at = "token" /\ x.address \in Mailboxes /\ There(x.person)
      /\ OnlyLinks /\ UNCHANGED <<mail, confirmed>> /\ AccountsTypeOK /\ AccountsInv
  BY DEF RequestEmailChange, ClientAt, AccountsIInv, AccountsInv, ClientRules, Holds, AddressStages,
     PersonStages, OnlyLinks
<1>2. /\ NewLink(l, "address", x.person, x.address, "user")
      /\ client' = [client EXCEPT ![c].at = "mail", ![c].link = l]
  BY DEF RequestEmailChange
<1>3. /\ link' \in [Links -> LinkRows] /\ LinksKept /\ Made(l)' /\ ~Made(l)
      /\ link'[l].kind = "address" /\ link'[l].address = x.address /\ link'[l].person = x.person
      /\ link'[l].row = "none" /\ \A m \in Links \ {l} : link'[m] = link[m]
  BY <1>1, <1>2, NewLinkMade DEF LinkKinds, There, Roles
<1>4. LET y == client'[c] IN
      /\ OneMoves(c) /\ y.at = "mail" /\ y.op = x.op /\ y.link = l /\ y.address = x.address
      /\ y.flow = x.flow
  BY <1>1, <1>2, LinkMoves DEF LinkStages
<1>5. PeopleKept
  BY <1>1 DEF OnlyLinks, PeopleKept, There, AccountsTypeOK, Persons
<1>6. \A m \in Links : LinkRule(m)'
  BY <1>1, <1>3, <1>5, NewLinkRule DEF LinkKinds, There, OnlyLinks
<1>7. ClientRules(c)'
  BY <1>1, <1>3, <1>4 DEF ClientRules, Holds, ReaderRule, OpenRule, AnswerChallenge,
     AddressStages, PersonStages, LinkStages, OnlyLinks, Left
<1>8. OnceRule'
  BY <1>1, <1>4, OnceKept DEF OneMoves, AccountsInv, AccountsTypeOK
<1> QED
  BY <1>1, <1>3, <1>4, <1>6, <1>7, <1>8, LinkStep DEF AccountsTypeOK

\* A step of a request that writes states of the social provider, challenges or
\* passkeys, or nothing that a rule is about.
OnlySides == UNCHANGED <<person, link, mail, document, accepted, origin, confirmed>>
LEMMA SideStep ==
  ASSUME AccountsIInv, NEW c \in Clients, OneMoves(c), Observe, OnlySides,
         flow' \in [Flows -> FlowRows], FlowsKept,
         challenge' \in [Challenges -> ChallengeRows], ChallengesKept,
         passkey' \subseteq PasskeyRows, PasskeyRule',
         \A d \in Clients \ {c} : ClientAt(d, "passkey") =>
           \A y \in passkey' : y.challenge # client[d].challenge,
         AccountsTypeOK' => ClientRules(c)', OnceRule'
  PROVE  AccountsIInv'
<1> USE DEF OnlySides
<1>1. RowsTypeOK'
  BY DEF AccountsIInv, AccountsTypeOK, RowsTypeOK
<1>2. PeopleKept /\ LinksKept
  BY DEF PeopleKept, LinksKept, There, Made, AccountsIInv, AccountsTypeOK, Persons
<1>3. RowsKept
  BY <1>2 DEF RowsKept
<1>4. ASSUME NEW d \in Clients \ {c}
      PROVE  ClientAt(d, "use") => \A p \in People : ~Invited(p, client[d].link)'
  <2>1. OpenRule(d) /\ client'[d] = client[d]
    BY DEF AccountsIInv, AccountsInv, ClientRules, OneMoves, AccountsTypeOK
  <2> QED
    BY <2>1 DEF OpenRule, ClientAt, Invited
<1> QED
  BY <1>1, <1>3, <1>4, OwnStep, PersonRuleKept, LinkRuleKept, LegalGroundKept, AddressesKept
LEMMA FlowStep ==
  ASSUME AccountsIInv, NEW c \in Clients, OneMoves(c), Observe, OnlySides, UNCHANGED <<challenge, passkey>>,
         flow' \in [Flows -> FlowRows], FlowsKept,
         AccountsTypeOK' => ClientRules(c)', client'[c].at \notin {"use", "passkey"}
  PROVE  AccountsIInv'
<1>1. AccountsTypeOK /\ AccountsInv /\ ChallengesKept
  BY DEF AccountsIInv, ChallengesKept
<1>2. PasskeyRule'
  BY <1>1 DEF AccountsInv, PasskeyRule
<1>3. \A d \in Clients : AnswerChallenge(d)
  BY <1>1 DEF AccountsInv, ClientRules
<1>4. \A d \in Clients \ {c} : ClientAt(d, "passkey") =>
        \A y \in passkey' : y.challenge # client[d].challenge
  BY <1>3 DEF AnswerChallenge, ClientAt
<1>5. OnceRule'
  BY <1>1, OnceKept DEF OneMoves, AccountsInv, AccountsTypeOK
<1> QED
  BY <1>1, <1>2, <1>4, <1>5, SideStep DEF AccountsTypeOK

LEMMA AccountSteps ==
  ASSUME AccountsIInv, NEW c \in Clients, InsertAccount(c) \/ LinkSubject(c) \/ ExportAccount(c),
         Observe
  PROVE  AccountsIInv'
<1>1. OnlySides /\ UNCHANGED <<flow, challenge, passkey>>
  BY DEF InsertAccount, LinkSubject, ExportAccount, OnlySides
<1>2. AccountsTypeOK /\ AccountsInv /\ ClientRules(c) /\ FlowsKept
  BY <1>1 DEF AccountsIInv, AccountsInv, FlowsKept, Left
<1>3. CASE GoAway(c)
  BY <1>1, <1>2, <1>3, GoneRules, FlowStep DEF AccountsTypeOK
<1>4. CASE ~GoAway(c)
  <2> DEFINE s == IF client[c].op = "create" THEN "mail" ELSE "mark"
  <2>1. ClientAt(c, "account") /\ Go(c, s)
    BY <1>4 DEF InsertAccount, LinkSubject, ExportAccount
  <2>2. LET x == client[c]  y == client'[c] IN
        /\ OneMoves(c) /\ y.at = s /\ y.op = x.op /\ y.address = x.address /\ y.link = x.link
        /\ y.flow = x.flow /\ y.person = x.person
    BY <1>2, <2>1, GoMoves DEF LinkStages
  <2>3. s \in {"mail", "mark"} /\ (s = "mark" => client[c].op # "create")
    OBVIOUS
  <2> HIDE DEF s
  <2>4. ClientRules(c)'
    BY <1>1, <1>2, <2>1, <2>2, <2>3 DEF ClientRules, Holds, ReaderRule, OpenRule,
       AnswerChallenge, AddressStages, PersonStages, LinkStages, OnlySides, Left, ClientAt, Made, There
  <2> QED
    BY <1>1, <1>2, <2>2, <2>3, <2>4, FlowStep DEF AccountsTypeOK
<1> QED
  BY <1>3, <1>4

LEMMA StoreStateStep ==
  ASSUME AccountsIInv, NEW c \in Clients, NEW f \in Flows, StoreState(c, f), Observe
  PROVE  AccountsIInv'
<1>1. /\ OnlySides /\ UNCHANGED <<challenge, passkey>> /\ GoAway(c) /\ flow[f] = NoFlow
      /\ flow' = [flow EXCEPT ![f] = [status |-> "live", agreed |-> client[c].docs]]
      /\ AccountsTypeOK
  BY DEF StoreState, OnlySides, AccountsIInv
<1>2. flow' \in [Flows -> FlowRows] /\ FlowsKept
  BY <1>1 DEF AccountsTypeOK, FlowRows, ClientStates, FlowsKept, Left, NoFlow
<1> QED
  BY <1>1, <1>2, GoneRules, FlowStep

LEMMA ClaimStateStep ==
  ASSUME AccountsIInv, NEW c \in Clients, NEW s \in Subjects, NEW a \in Mailboxes,
         NEW trusted \in BOOLEAN, ClaimState(c, s, a, trusted), Observe
  PROVE  AccountsIInv'
<1> DEFINE x == client[c]
           f == x.flow
           z == [x EXCEPT !.at = "finalize", !.subject = s, !.address = a, !.trusted = trusted]
<1>1. /\ OnlySides /\ UNCHANGED <<challenge, passkey>> /\ ClientAt(c, "claim")
      /\ AccountsTypeOK /\ ClientRules(c)
  BY DEF ClaimState, OnlySides, AccountsIInv, AccountsInv
<1>2. CASE flow[f].status = "live"
  <2>1. /\ flow' = [flow EXCEPT ![f].status = "used"]
        /\ client' = [client EXCEPT ![c] = z] /\ client'[c] = z /\ x \in ClientStates
    BY <1>1, <1>2 DEF ClaimState, Exchange, AccountsTypeOK
  <2>2. /\ z \in ClientStates /\ z.at = "finalize" /\ z.op = x.op /\ z.address = a /\ z.flow = f
        /\ z.docs = x.docs
    <3>1. z \in ClientStates
      BY <2>1, StateFields
    <3> QED
      BY <2>1, <3>1 DEF ClientStates
  <2> HIDE DEF z
  <2>3. OneMoves(c)
    BY <2>1, <2>2 DEF OneMoves
  <2>4. Left(f) /\ x.op = "callback" /\ Shown(x.docs) /\ x.docs \subseteq public[c]
    BY <1>1 DEF ClientAt, ClientRules, Holds, ReaderRule
  <2>5. flow' \in [Flows -> FlowRows] /\ FlowsKept /\ f \in Flows /\ flow'[f] # NoFlow
    BY <1>1, <2>1, <2>4 DEF AccountsTypeOK, FlowRows, FlowsKept, Left, NoFlow
  <2>6. ClientRules(c)'
    <3>1. public[c] \subseteq public'[c]
      BY <2>1, <2>2, <2>4 DEF Observe
    <3>2. Left(client[c].flow)'
      BY <2>1, <2>2, <2>5 DEF Left
    <3> QED
      BY <2>1, <2>2, <2>4, <3>1, <3>2 DEF ClientRules, Holds, ReaderRule, OpenRule, AnswerChallenge,
         AddressStages, PersonStages, LinkStages, Shown
  <2> QED
    BY <1>1, <2>1, <2>2, <2>3, <2>5, <2>6, FlowStep
<1>3. CASE flow[f].status # "live"
  <2>1. flow' = flow /\ GoAway(c)
    BY <1>3 DEF ClaimState
  <2> QED
    BY <1>1, <2>1, GoneRules, FlowStep DEF AccountsTypeOK, FlowsKept, Left
<1> QED
  BY <1>2, <1>3

LEMMA BeginPasskeyStep ==
  ASSUME AccountsIInv, NEW c \in Clients, NEW k \in Challenges, BeginPasskeyRegistration(c, k), Observe
  PROVE  AccountsIInv'
<1>1. /\ OnlySides /\ UNCHANGED <<flow, passkey>> /\ GoAway(c) /\ challenge[k] = NoChallenge
      /\ challenge' = [challenge EXCEPT ![k] = [status |-> "live", person |-> client[c].person]]
      /\ AccountsTypeOK /\ AccountsInv /\ client[c] \in ClientStates
  BY DEF BeginPasskeyRegistration, OnlySides, AccountsIInv, AccountsTypeOK
<1>2. challenge' \in [Challenges -> ChallengeRows] /\ ChallengesKept
  <2>1. client[c].person \in People \cup {None}
    BY <1>1 DEF ClientStates
  <2> QED
    BY <1>1, <2>1 DEF AccountsTypeOK, ChallengeRows, ChallengesKept, NoChallenge
<1>3. FlowsKept /\ PasskeyRule' /\ passkey' \subseteq PasskeyRows /\ flow' \in [Flows -> FlowRows]
  <2>1. \A y \in passkey : y.challenge \in Challenges
    BY <1>1 DEF AccountsTypeOK, PasskeyRows
  <2> QED
    BY <1>1, <1>2, <2>1 DEF FlowsKept, Left, AccountsInv, PasskeyRule, ChallengesKept, AccountsTypeOK
<1>4. \A d \in Clients : ClientAt(d, "passkey") =>
        \A y \in passkey' : y.challenge # client[d].challenge
  BY <1>1 DEF AccountsInv, ClientRules, AnswerChallenge, ClientAt
<1> QED
  BY <1>1, <1>2, <1>3, <1>4, GoneRules, SideStep

LEMMA ConsumeChallengeStep ==
  ASSUME AccountsIInv, NEW c \in Clients, ConsumeChallenge(c), Observe
  PROVE  AccountsIInv'
<1> DEFINE x == client[c]
           k == x.challenge
<1>1. /\ OnlySides /\ UNCHANGED <<flow, passkey>> /\ ClientAt(c, "finish")
      /\ AccountsTypeOK /\ AccountsInv /\ ClientRules(c) /\ k \in Challenges
  BY DEF ConsumeChallenge, OnlySides, AccountsIInv, AccountsInv, ClientRules, Holds, ClientAt
<1>2. FlowsKept /\ passkey' \subseteq PasskeyRows /\ flow' \in [Flows -> FlowRows]
  BY <1>1 DEF FlowsKept, Left, AccountsTypeOK
<1>3. \A d \in Clients : ClientAt(d, "passkey") =>
        \A y \in passkey' : y.challenge # client[d].challenge
  BY <1>1 DEF AccountsInv, ClientRules, AnswerChallenge, ClientAt
<1>4. CASE Answerable(k, x.person)
  <2>1. /\ challenge[k].status = "live" /\ challenge[k].person = x.person
        /\ challenge' = [challenge EXCEPT ![k].status = "used"] /\ Go(c, "passkey")
    BY <1>4 DEF ConsumeChallenge, Answerable
  <2>2. challenge' \in [Challenges -> ChallengeRows] /\ ChallengesKept
        /\ challenge'[k].status = "used" /\ challenge'[k].person = x.person
    BY <1>1, <2>1 DEF AccountsTypeOK, ChallengeRows, ChallengesKept
  <2>3. LET y == client'[c] IN
        /\ OneMoves(c) /\ y.at = "passkey" /\ y.op = x.op /\ y.person = x.person
        /\ y.address = x.address /\ y.flow = x.flow /\ y.challenge = k
    BY <1>1, <2>1, GoMoves DEF PersonStages
  <2>4. \A y \in passkey : y.challenge \in Challenges /\ y.challenge # k
                           /\ challenge[y.challenge].status = "used"
    BY <1>1, <2>1 DEF AccountsTypeOK, PasskeyRows, AccountsInv, PasskeyRule
  <2>5. PasskeyRule'
    BY <1>1, <2>2, <2>4 DEF AccountsInv, PasskeyRule, ChallengesKept
  <2>6. ClientRules(c)'
    <3>1. Holds(c)' /\ ReaderRule(c)' /\ OpenRule(c)'
      BY <1>1, <2>3 DEF ClientRules, Holds, ReaderRule, OpenRule, AddressStages, PersonStages,
         LinkStages, OnlySides, Left, ClientAt, There
    <3>2. AnswerChallenge(c)'
      BY <1>1, <2>2, <2>3, <2>4 DEF AnswerChallenge
    <3> QED
      BY <3>1, <3>2 DEF ClientRules
  <2>7. OnceRule'
    <3>1. ASSUME NEW d \in Clients \ {c}, ClientAt(d, "passkey") PROVE client[d].challenge # k
      BY <1>1, <2>1, <3>1 DEF AccountsInv, ClientRules, AnswerChallenge, ClientAt
    <3>2. \A d \in Clients \ {c} : client'[d] = client[d]
      BY <1>1, <2>3 DEF OneMoves, AccountsTypeOK
    <3> QED
      BY <1>1, <2>3, <3>1, <3>2 DEF AccountsInv, OnceRule, ClientAt
  <2> QED
    BY <1>1, <1>2, <1>3, <2>2, <2>3, <2>5, <2>6, <2>7, SideStep
<1>5. CASE ~Answerable(k, x.person)
  <2>1. UNCHANGED challenge /\ GoAway(c)
    BY <1>5 DEF ConsumeChallenge
  <2> QED
    BY <1>1, <2>1, GoneRules, FlowStep, <1>2
<1> QED
  BY <1>4, <1>5

LEMMA FinishPasskeyStep ==
  ASSUME AccountsIInv, NEW c \in Clients, NEW x \in Credentials, FinishPasskeyRegistration(c, x), Observe
  PROVE  AccountsIInv'
<1> DEFINE k == client[c].challenge
           y == [credential |-> x, person |-> client[c].person, challenge |-> k]
<1>1. /\ OnlySides /\ UNCHANGED <<flow, challenge>> /\ ClientAt(c, "passkey") /\ GoAway(c)
      /\ AccountsTypeOK /\ AccountsInv /\ passkey' \in {passkey, passkey \cup {y}}
  BY DEF FinishPasskeyRegistration, OnlySides, AccountsIInv
<1>2. /\ k \in Challenges /\ There(client[c].person) /\ challenge[k].status = "used"
      /\ challenge[k].person = client[c].person /\ \A z \in passkey : z.challenge # k
  BY <1>1 DEF AccountsInv, ClientRules, Holds, AnswerChallenge, ClientAt, PersonStages
<1>3. /\ y \in PasskeyRows /\ y.challenge = k /\ y.person = client[c].person
  BY <1>2 DEF PasskeyRows, There
<1> HIDE DEF y
<1>4. passkey' \subseteq PasskeyRows
  BY <1>1, <1>3 DEF AccountsTypeOK
<1>5. PasskeyRule'
  BY <1>1, <1>2, <1>3 DEF AccountsInv, PasskeyRule
<1>6. ASSUME NEW d \in Clients \ {c}, ClientAt(d, "passkey")
      PROVE  \A z \in passkey' : z.challenge # client[d].challenge
  <2>1. client[d].challenge # k
    BY <1>1, <1>6 DEF AccountsInv, OnceRule
  <2>2. \A z \in passkey : z.challenge # client[d].challenge
    BY <1>1, <1>6 DEF AccountsInv, ClientRules, AnswerChallenge, ClientAt
  <2> QED
    BY <1>1, <1>3, <2>1, <2>2
<1>7. FlowsKept /\ ChallengesKept
  BY <1>1 DEF FlowsKept, Left, ChallengesKept
<1> QED
  BY <1>1, <1>4, <1>5, <1>6, <1>7, GoneRules, SideStep DEF AccountsTypeOK

-----------------------------------------------------------------------------
\* A step that writes the row of somebody who is there.
OnlyPerson == UNCHANGED <<link, mail, flow, challenge, passkey, document, accepted, origin, confirmed>>
LEMMA PersonStep ==
  ASSUME AccountsIInv, NEW c \in Clients, GoAway(c), Observe, OnlyPerson,
         person' \in [People -> Persons], PeopleKept, AddressesConfirmed',
         \A p \in People : /\ person'[p].role = person[p].role
                           /\ person'[p].status = "none" => person[p].status = "none"
  PROVE  AccountsIInv'
<1> USE DEF OnlyPerson
<1>1. RowsTypeOK'
  BY DEF AccountsIInv, AccountsTypeOK, RowsTypeOK
<1>2. RowsKept
  BY DEF RowsKept, LinksKept, FlowsKept, ChallengesKept, Made, Left
<1>3. OneMoves(c) /\ ClientRules(c)' /\ OnceRule'
  BY GoneRules
<1>4. ASSUME NEW d \in Clients \ {c}
      PROVE  /\ ClientAt(d, "use") => \A p \in People : ~Invited(p, client[d].link)'
             /\ ClientAt(d, "passkey") => \A y \in passkey' : y.challenge # client[d].challenge
  <2>1. OpenRule(d) /\ AnswerChallenge(d) /\ client'[d] = client[d]
    BY <1>3 DEF AccountsIInv, AccountsInv, ClientRules, OneMoves, AccountsTypeOK
  <2> QED
    BY <2>1 DEF OpenRule, AnswerChallenge, ClientAt, Invited
<1>5. \A p \in People : PersonRule(p)'
  BY DEF AccountsIInv, AccountsInv, PersonRule, Invited, Made, Left
<1> QED
  BY <1>1, <1>2, <1>3, <1>4, <1>5, OwnStep, LinkRuleKept, PasskeyRuleKept, LegalGroundKept

LEMMA AddressesNow ==
  ASSUME AddressesConfirmed
  PROVE  /\ \A q \in People : person[q].verified => <<q, person[q].address>> \in confirmed
         /\ \A q, s \in People : Active(q) /\ Active(s) /\ person[s].address = person[q].address => s = q
BY DEF AddressesConfirmed, Having
LEMMA AddressesNext ==
  ASSUME \A q \in People : person'[q].verified => <<q, person'[q].address>> \in confirmed',
         \A q, s \in People :
          (/\ person'[q].status = "active" /\ person'[s].status = "active"
           /\ person'[s].address = person'[q].address) => s = q
  PROVE  AddressesConfirmed'
BY DEF AddressesConfirmed, Having, Active

LEMMA VerifySteps ==
  ASSUME AccountsIInv, NEW c \in Clients, VerifyEmail(c) \/ VerifyEmailChange(c), Observe
  PROVE  AccountsIInv'
<1> DEFINE x == client[c]
           l == x.link
           p == link[l].person
           a == link[l].address
<1>1. /\ OnlyPerson /\ GoAway(c) /\ x.at = "use" /\ x.op \in {"verification", "address"}
      /\ AccountsTypeOK /\ AccountsInv /\ person \in [People -> Persons]
  BY DEF VerifyEmail, VerifyEmailChange, ClientAt, OnlyPerson, AccountsIInv, AccountsTypeOK
<1>2. /\ Made(l) /\ link[l].kind = x.op /\ <<p, a>> \in confirmed
  BY <1>1 DEF AccountsInv, ClientRules, Holds, OpenRule, LinkStages
<1>3. /\ a \in Mailboxes /\ There(p)
      /\ x.op = "verification" => person[p].verified \/ person[p].address = a
  BY <1>1, <1>2 DEF AccountsInv, LinkRule, Made
<1>4. CASE VerifyEmail(c)
  <2>1. person' = [person EXCEPT ![p].verified = TRUE] /\ x.op = "verification"
    BY <1>4 DEF VerifyEmail
  <2>2. /\ person' \in [People -> Persons] /\ person'[p].verified
        /\ \A q \in People : /\ person'[q].role = person[q].role
                             /\ person'[q].status = person[q].status
                             /\ person'[q].address = person[q].address
                             /\ q # p => person'[q] = person[q]
    BY <1>1, <1>3, <2>1 DEF Persons, There
  <2>3. PeopleKept
    BY <1>1, <1>3, <2>2 DEF PeopleKept, There, OnlyPerson, Persons
  <2>4. AddressesConfirmed'
    <3>1. /\ \A q \in People : person[q].verified => <<q, person[q].address>> \in confirmed
          /\ \A q, s \in People :
               Active(q) /\ Active(s) /\ person[s].address = person[q].address => s = q
      BY <1>1, AddressesNow DEF AccountsInv
    <3>2. \A q \in People : person'[q].verified => <<q, person'[q].address>> \in confirmed'
      <4>1. \A q \in People \ {p} :
              person'[q].verified => <<q, person'[q].address>> \in confirmed
        BY <2>2, <3>1
      <4>2. <<p, person'[p].address>> \in confirmed
        BY <1>2, <1>3, <2>1, <2>2, <3>1 DEF There
      <4>3. confirmed' = confirmed
        BY <1>1 DEF OnlyPerson
      <4> QED
        BY <4>1, <4>2, <4>3
    <3>3. \A q, s \in People :
          (/\ person'[q].status = "active" /\ person'[s].status = "active"
           /\ person'[s].address = person'[q].address) => s = q
      BY <2>2, <3>1 DEF Active
    <3> QED
      BY <3>2, <3>3, AddressesNext
  <2> QED
    BY <1>1, <2>2, <2>3, <2>4, PersonStep
<1>5. CASE VerifyEmailChange(c) /\ Active(p) /\ Having(a) \ {p} # {}
  <2>1. person' = person
    BY <1>5 DEF VerifyEmailChange
  <2>2. PeopleKept
    BY <1>1, <2>1 DEF PeopleKept, There, OnlyPerson, Persons
  <2>3. AddressesConfirmed'
    BY <1>1, <2>1 DEF OnlyPerson, AccountsInv, AddressesConfirmed, Having, Active
  <2> QED
    BY <1>1, <2>1, <2>2, <2>3, PersonStep
<1>6. CASE VerifyEmailChange(c) /\ ~(Active(p) /\ Having(a) \ {p} # {})
  <2>1. person' = [person EXCEPT ![p].address = a, ![p].verified = TRUE]
    BY <1>6 DEF VerifyEmailChange
  <2>2. /\ person' \in [People -> Persons] /\ person'[p].verified /\ person'[p].address = a
        /\ \A q \in People : /\ person'[q].role = person[q].role
                             /\ person'[q].status = person[q].status
                             /\ q # p => person'[q] = person[q]
    BY <1>1, <1>3, <2>1 DEF Persons, There
  <2>3. PeopleKept
    BY <1>1, <2>2 DEF PeopleKept, There, OnlyPerson, Persons
  <2>4. AddressesConfirmed'
    <3>1. /\ \A q \in People : person[q].verified => <<q, person[q].address>> \in confirmed
          /\ \A q, s \in People :
               Active(q) /\ Active(s) /\ person[s].address = person[q].address => s = q
      BY <1>1, AddressesNow DEF AccountsInv
    <3>2. \A q \in People : person'[q].verified => <<q, person'[q].address>> \in confirmed'
      <4>1. \A q \in People \ {p} :
              person'[q].verified => <<q, person'[q].address>> \in confirmed
        BY <2>2, <3>1
      <4>2. <<p, person'[p].address>> \in confirmed
        BY <1>2, <2>2
      <4>3. confirmed' = confirmed
        BY <1>1 DEF OnlyPerson
      <4> QED
        BY <4>1, <4>2, <4>3
    <3>3. Active(p) => \A s \in People \ {p} : Active(s) => person[s].address # a
      BY <1>6 DEF Having
    <3>4. \A q, s \in People :
          (/\ person'[q].status = "active" /\ person'[s].status = "active"
           /\ person'[s].address = person'[q].address) => s = q
      BY <2>2, <3>1, <3>3 DEF Active
    <3> QED
      BY <3>2, <3>4, AddressesNext
  <2> QED
    BY <1>1, <2>2, <2>3, <2>4, PersonStep
<1> QED
  BY <1>4, <1>5, <1>6

LEMMA DeleteStep ==
  ASSUME AccountsIInv, NEW c \in Clients, DeleteOwnAccount(c), Observe
  PROVE  AccountsIInv'
<1> DEFINE p == client[c].person
<1>1. /\ OnlyPerson /\ GoAway(c) /\ person' = [person EXCEPT ![p].status = "deleted"]
      /\ AccountsTypeOK /\ AccountsInv /\ person \in [People -> Persons] /\ There(p)
  BY DEF DeleteOwnAccount, ClientAt, OnlyPerson, AccountsIInv, AccountsTypeOK, AccountsInv,
     ClientRules, Holds, PersonStages
<1>2. /\ person' \in [People -> Persons] /\ person'[p].status = "deleted"
      /\ \A q \in People : /\ person'[q].role = person[q].role
                           /\ person'[q].address = person[q].address
                           /\ person'[q].verified = person[q].verified
                           /\ q # p => person'[q] = person[q]
  BY <1>1 DEF Persons, There
<1>3. PeopleKept
  BY <1>1, <1>2 DEF PeopleKept, There, OnlyPerson, Persons
<1>4. AddressesConfirmed'
  BY <1>1, <1>2 DEF OnlyPerson, AccountsInv, AddressesConfirmed, Having, Active
<1> QED
  BY <1>1, <1>2, <1>3, <1>4, PersonStep

-----------------------------------------------------------------------------
LEMMA AllDocuments ==
  ASSUME NEW docs \in SUBSET Versions, Shown(docs), Complete(docs)
  PROVE  {x[1] : x \in docs} = Documents
<1>1. Cardinality(Documents) = 2
  <2>1. Documents = {"terms"} \cup {"privacy"} /\ "privacy" \notin {"terms"}
    BY DEF Documents
  <2>2. IsFiniteSet({"terms"}) /\ Cardinality({"terms"}) = 1
    BY FS_Singleton
  <2> QED
    BY <2>1, <2>2, FS_AddElement
<1>2. ASSUME NEW d \in Documents, \A x \in docs : x[1] # d PROVE FALSE
  <2>1. \A x, y \in docs : x = y
    BY <1>2 DEF Shown, Versions, Documents
  <2>2. CASE docs = {}
    BY <1>1, <2>2, FS_EmptySet DEF Complete
  <2>3. CASE docs # {}
    <3>1. PICK x \in docs : docs = {x}
      BY <2>1, <2>3
    <3> QED
      <4>1. Cardinality(docs) = 1
        BY <3>1, FS_Singleton
      <4> QED
        BY <1>1, <4>1 DEF Complete
  <2> QED
    BY <2>2, <2>3
<1>3. \A x \in docs : x[1] \in Documents
  BY DEF Versions
<1> QED
  BY <1>2, <1>3

\* Somebody's row is made.
LEMMA NewPersonMade ==
  ASSUME AccountsIInv, NEW p \in People, NEW a \in Mailboxes, NEW verified \in BOOLEAN,
         NEW role \in Roles, NEW ground \in Grounds, NewPerson(p, a, verified, role, ground)
  PROVE  /\ person' \in [People -> Persons] /\ origin' \in [People -> Grounds]
         /\ ~There(p) /\ There(p)' /\ person'[p].address = a /\ person'[p].role = role
         /\ person'[p].verified = verified /\ person'[p].status = "active" /\ origin'[p] = ground
         /\ \A q \in People \ {p} : person'[q] = person[q] /\ origin'[q] = origin[q]
         /\ origin[p] = Unknown /\ PeopleKept
<1>1. /\ person \in [People -> Persons] /\ origin \in [People -> Grounds] /\ person[p] = NoPerson
      /\ person' = [person EXCEPT ![p] = [status |-> "active", address |-> a, verified |-> verified,
                                          role |-> role]]
      /\ origin' = [origin EXCEPT ![p] = ground]
  BY DEF NewPerson, AccountsIInv, AccountsTypeOK
<1>2. /\ person' \in [People -> Persons] /\ origin' \in [People -> Grounds]
      /\ person'[p].address = a /\ person'[p].role = role
      /\ person'[p].verified = verified /\ person'[p].status = "active" /\ origin'[p] = ground
      /\ \A q \in People \ {p} : person'[q] = person[q] /\ origin'[q] = origin[q]
  BY <1>1 DEF Persons
<1>3. ~There(p) /\ There(p)' /\ person[p].status = "none"
  BY <1>1, <1>2 DEF There, NoPerson
<1>4. origin[p] = Unknown
  BY <1>3 DEF AccountsIInv, AccountsInv, PersonRule
<1>5. PeopleKept
  <2> SUFFICES ASSUME NEW q \in People, There(q)
               PROVE  /\ There(q)' /\ origin'[q] = origin[q]
                      /\ person'[q].verified
                           \/ (~person[q].verified /\ person'[q].address = person[q].address)
    BY DEF PeopleKept
  <2>1. q # p
    BY <1>3
  <2> QED
    BY <1>1, <1>2, <2>1 DEF There, Persons
<1> QED
  BY <1>2, <1>3, <1>4, <1>5

\* What the one rests on who is about to be made.
Grounded(role, ground, docs) ==
  /\ IF ground.how \in {"form", "provider"}
     THEN Shown(docs) /\ Complete(docs) /\ docs \subseteq ground.public ELSE docs = {}
  /\ ground.how = "provider" => Left(ground.flow) /\ docs = flow[ground.flow].agreed
  /\ ground.how = "invitation" =>
       /\ Made(ground.link) /\ link[ground.link].status = "used" /\ role = link[ground.link].role
       /\ \A q \in People : ~Invited(q, ground.link)
  /\ role # "user" => ground.how \in {"invitation", "admin"}

\* Rules about people after a new one.
LEMMA NewPersonRules ==
  ASSUME AccountsIInv, NEW p \in People, NEW a \in Mailboxes, NEW verified \in BOOLEAN,
         NEW role \in Roles, NEW ground \in Grounds, NewPerson(p, a, verified, role, ground),
         Having(a) = {}, NEW docs \in SUBSET Versions, Accept(p, docs), LinksKept,
         UNCHANGED flow, confirmed \subseteq confirmed', verified => <<p, a>> \in confirmed',
         Grounded(role, ground, docs)
  PROVE  /\ \A q \in People : PersonRule(q)' /\ LegalGround' /\ AddressesConfirmed'
         /\ accepted' \subseteq People \X Versions
<1>1. /\ ~There(p) /\ There(p)' /\ person'[p].address = a /\ person'[p].role = role
      /\ person'[p].verified = verified /\ person'[p].status = "active" /\ origin'[p] = ground
      /\ \A q \in People \ {p} : person'[q] = person[q] /\ origin'[q] = origin[q]
      /\ origin[p] = Unknown
  BY NewPersonMade
<1> USE DEF Grounded
<1>2. AccountsTypeOK /\ AccountsInv
  BY DEF AccountsIInv
<1>3. ASSUME NEW q \in People PROVE PersonRule(q)'
  <2>1. CASE q = p
    <3>1. ground.how = "invitation" =>
            /\ Made(ground.link)' /\ link'[ground.link].status = "used"
            /\ role = link'[ground.link].role
      BY DEF LinksKept, Made
    <3>2. ground.how = "invitation" => \A r \in People : Invited(r, ground.link)' => r = p
      BY <1>1 DEF Invited
    <3>3. ground.how = "provider" => Left(ground.flow)'
      BY DEF Left
    <3> QED
      BY <1>1, <2>1, <3>1, <3>2, <3>3 DEF PersonRule, Invited, Made, Left
  <2>2. CASE q # p
    <3>1. PersonRule(q) /\ origin'[q] = origin[q] /\ person'[q] = person[q]
      BY <1>1, <1>2, <2>2 DEF AccountsInv
    <3>2. origin[q].how = "invitation" =>
            /\ Made(origin[q].link) /\ Made(origin[q].link)'
            /\ link'[origin[q].link].status = "used"
            /\ link'[origin[q].link].role = link[origin[q].link].role
      BY <1>1, <2>2, <3>1 DEF PersonRule, LinksKept, Made
    <3>3. origin[q].how = "invitation" => \A r \in People : Invited(r, origin[q].link)' => r = q
      <4> SUFFICES ASSUME origin[q].how = "invitation", NEW r \in People, origin'[r].how = "invitation",
                          origin'[r].link = origin[q].link
                   PROVE  r = q
        BY <1>1, <2>2 DEF Invited
      <4>1. r # p
        BY <1>1, <2>2 DEF Invited
      <4> QED
        BY <1>1, <3>1, <4>1 DEF PersonRule, Invited
    <3> QED
      BY <3>1, <3>2, <3>3 DEF PersonRule, Left, Invited, Made
  <2> QED
    BY <2>1, <2>2
<1>4. /\ \A y : y \in accepted' <=> y \in accepted \/ \E d \in docs : y = <<p, d>>
      /\ accepted \subseteq People \X Versions
  BY <1>2 DEF Accept, AccountsTypeOK
<1>5. LegalGround'
  <2> DEFINE V(q) == {x[2] : x \in {y \in accepted : y[1] = q}}
             W(q) == {x[2] : x \in {y \in accepted' : y[1] = q}}
  <2>1. V(p) = {}
    BY <1>1, <1>2, Unknown = Unknown DEF AccountsInv, LegalGround, Unknown
  <2>2. W(p) = docs
    <3>1. \A y \in accepted : y[1] # p
      BY <2>1
    <3>2. ASSUME NEW d \in docs PROVE d \in W(p)
      <4>1. <<p, d>> \in accepted' /\ <<p, d>>[1] = p /\ <<p, d>>[2] = d
        BY <1>4
      <4> QED
        BY <4>1
    <3>3. ASSUME NEW w \in W(p) PROVE w \in docs
      <4>1. PICK y \in accepted' : y[1] = p /\ w = y[2]
        OBVIOUS
      <4>2. PICK d \in docs : y = <<p, d>>
        BY <1>4, <3>1, <4>1
      <4> QED
        BY <4>1, <4>2
    <3> QED
      BY <3>2, <3>3
  <2>3. ASSUME NEW q \in People \ {p} PROVE W(q) = V(q)
    BY <1>4, <2>3
  <2>4. ASSUME NEW q \in People
        PROVE  IF origin'[q].how \in {"form", "provider"}
               THEN /\ {x[1] : x \in W(q)} = Documents /\ W(q) \subseteq origin'[q].public
                    /\ origin'[q].how = "provider" => W(q) = flow'[origin'[q].flow].agreed
               ELSE W(q) = {}
    <3>1. CASE q = p
      BY <1>1, <2>2, <3>1, AllDocuments
    <3>2. CASE q # p
      <4>1. IF origin[q].how \in {"form", "provider"}
            THEN /\ {x[1] : x \in V(q)} = Documents /\ V(q) \subseteq origin[q].public
                 /\ origin[q].how = "provider" => V(q) = flow[origin[q].flow].agreed
            ELSE V(q) = {}
        BY <1>2 DEF AccountsInv, LegalGround
      <4>2. W(q) = V(q) /\ origin'[q] = origin[q]
        BY <1>1, <2>3, <3>2
      <4> HIDE DEF V, W
      <4> QED
        BY <4>1, <4>2
    <3> QED
      BY <3>1, <3>2
  <2> QED
    BY <2>4 DEF LegalGround
<1>6. AddressesConfirmed'
  <2>1. /\ \A q \in People : person[q].verified => <<q, person[q].address>> \in confirmed
        /\ \A q, s \in People :
             Active(q) /\ Active(s) /\ person[s].address = person[q].address => s = q
    BY <1>2, AddressesNow DEF AccountsInv
  <2>2. \A q \in People : person'[q].verified => <<q, person'[q].address>> \in confirmed'
    BY <1>1, <2>1
  <2>3. \A q \in People : Active(q) => person[q].address # a
    BY DEF Having
  <2>4. \A q, s \in People :
          (/\ person'[q].status = "active" /\ person'[s].status = "active"
           /\ person'[s].address = person'[q].address) => s = q
    BY <1>1, <2>1, <2>3 DEF Active
  <2> QED
    BY <2>2, <2>4, AddressesNext
<1>7. accepted' \subseteq People \X Versions
  BY <1>4
<1> QED
  BY <1>3, <1>5, <1>6, <1>7

LEMMA NewPersonStep ==
  ASSUME AccountsIInv, NEW c \in Clients, OneMoves(c), Observe,
         NEW p \in People, NEW a \in Mailboxes, NEW verified \in BOOLEAN,
         NEW role \in Roles, NEW ground \in Grounds, NewPerson(p, a, verified, role, ground),
         Having(a) = {}, NEW docs \in SUBSET Versions, Accept(p, docs), Grounded(role, ground, docs),
         link' \in [Links -> LinkRows], LinksKept, mail' \subseteq Links \X Mailboxes,
         UNCHANGED <<flow, challenge, passkey, document>>,
         confirmed' \subseteq (People \cup {None}) \X Mailboxes, confirmed \subseteq confirmed',
         verified => <<p, a>> \in confirmed',
         ground.how = "invitation" =>
           \A d \in Clients \ {c} : ClientAt(d, "use") => client[d].link # ground.link,
         ClientRules(c)', client'[c].at \notin {"use", "passkey"}, \A l \in Links : LinkRule(l)'
  PROVE  AccountsIInv'
<1>1. /\ person' \in [People -> Persons] /\ origin' \in [People -> Grounds] /\ PeopleKept
      /\ origin'[p] = ground /\ \A q \in People \ {p} : origin'[q] = origin[q]
  BY NewPersonMade
<1>2. /\ \A q \in People : PersonRule(q)' /\ LegalGround' /\ AddressesConfirmed'
      /\ accepted' \subseteq People \X Versions
  BY NewPersonRules
<1>3. AccountsTypeOK /\ AccountsInv
  BY DEF AccountsIInv
<1>4. RowsTypeOK'
  BY <1>1, <1>2, <1>3 DEF AccountsTypeOK, RowsTypeOK
<1>5. RowsKept
  BY <1>1 DEF RowsKept, FlowsKept, ChallengesKept, Left
<1>6. PasskeyRule' /\ OnceRule'
  BY <1>3, <1>5, PasskeyRuleKept, OnceKept DEF OneMoves, AccountsTypeOK, AccountsInv
<1>7. ASSUME NEW d \in Clients \ {c}
      PROVE  /\ ClientAt(d, "use") => \A q \in People : ~Invited(q, client[d].link)'
             /\ ClientAt(d, "passkey") => \A y \in passkey' : y.challenge # client[d].challenge
  <2>1. OpenRule(d) /\ AnswerChallenge(d) /\ client'[d] = client[d]
    BY <1>3 DEF AccountsInv, ClientRules, OneMoves, AccountsTypeOK
  <2>2. ASSUME ClientAt(d, "use"), NEW q \in People PROVE ~Invited(q, client[d].link)'
    BY <1>1, <1>7, <2>1, <2>2 DEF OpenRule, ClientAt, Invited
  <2> QED
    BY <2>1, <2>2 DEF AnswerChallenge, ClientAt
<1> QED
  BY <1>2, <1>4, <1>5, <1>6, <1>7, OwnStep

LEMMA SignUpStep ==
  ASSUME AccountsIInv, NEW c \in Clients, NEW p \in People, NEW l \in Links, SignUp(c, p, l), Observe
  PROVE  AccountsIInv'
<1> DEFINE x == client[c]
           a == x.address
           ground == [Unknown EXCEPT !.how = "form", !.public = public[c]]
<1>1. /\ AccountsTypeOK /\ AccountsInv /\ GoAway(c)
      /\ UNCHANGED <<flow, challenge, passkey, document, confirmed>>
  BY DEF SignUp, AccountsIInv
<1>2. /\ a \in Mailboxes /\ Shown(x.docs) /\ Complete(x.docs) /\ x.docs \subseteq public[c]
      /\ x.docs \in SUBSET Versions /\ public[c] \in SUBSET Versions
  BY <1>1 DEF SignUp, ClientAt, AccountsInv, ClientRules, Holds, ReaderRule, AddressStages,
     AccountsTypeOK, ClientStates
<1>3. OneMoves(c) /\ ClientRules(c)' /\ client'[c].at = "away" /\ OnceRule'
  BY <1>1, GoneRules
<1>4. CASE Having(a) # {} \/ AccountOf("password", a) # {}
  <2>1. UNCHANGED <<person, accepted, link, mail, origin>>
    BY <1>4 DEF SignUp
  <2> QED
    BY <1>1, <1>3, <2>1, FlowStep DEF OnlySides, AccountsTypeOK, FlowsKept, Left
<1>5. CASE ~(Having(a) # {} \/ AccountOf("password", a) # {})
  <2>1. /\ NewPerson(p, a, FALSE, "user", ground) /\ Accept(p, x.docs) /\ Having(a) = {}
        /\ NewLink(l, "verification", p, a, "user") /\ mail' = mail \cup {<<l, a>>}
    BY <1>5 DEF SignUp, CreateUserWithPassword, CreateEmailVerification
  <2>2. ground \in Grounds /\ ground.how = "form" /\ ground.public = public[c]
    BY <1>2, AwayTyped DEF Grounds
  <2> HIDE DEF ground
  <2>3. /\ There(p)' /\ person'[p].address = a /\ PeopleKept
    BY <1>2, <2>1, <2>2, NewPersonMade DEF Roles
  <2>4. /\ link' \in [Links -> LinkRows] /\ LinksKept /\ Made(l)' /\ ~Made(l)
        /\ link'[l].kind = "verification" /\ link'[l].address = a /\ link'[l].person = p
        /\ link'[l].row = "none" /\ \A m \in Links \ {l} : link'[m] = link[m]
    BY <1>2, <2>1, NewLinkMade DEF LinkKinds, Roles
  <2>5. \A m \in Links : LinkRule(m)'
    BY <1>2, <2>1, <2>3, <2>4, NewLinkRule DEF LinkKinds, There
  <2>6. Grounded("user", ground, x.docs)
    BY <1>2, <2>2 DEF Grounded
  <2>7. mail' \subseteq Links \X Mailboxes
    BY <1>1, <1>2, <2>1 DEF AccountsTypeOK
  <2>8. /\ confirmed' \subseteq (People \cup {None}) \X Mailboxes /\ confirmed \subseteq confirmed'
        /\ "user" \in Roles /\ FALSE \in BOOLEAN
    BY <1>1 DEF AccountsTypeOK, Roles
  <2>9. ground.how # "invitation" /\ client'[c].at \notin {"use", "passkey"}
        /\ UNCHANGED <<flow, challenge, passkey, document>>
    BY <1>1, <1>3, <2>2
  <2> QED
    BY <1>2, <1>3, <2>1, <2>2, <2>4, <2>5, <2>6, <2>7, <2>8, <2>9, NewPersonStep
<1> QED
  BY <1>4, <1>5

LEMMA ProvisionStep ==
  ASSUME AccountsIInv, NEW c \in Clients, NEW p \in People, Provision(c, p), Observe
  PROVE  AccountsIInv'
<1> DEFINE x == client[c]
           a == x.address
           ground == [Unknown EXCEPT !.how = "provider", !.public = public[c], !.flow = x.flow]
<1>1. /\ AccountsTypeOK /\ AccountsInv /\ GoAway(c)
      /\ UNCHANGED <<link, mail, flow, challenge, passkey, document>>
  BY DEF Provision, AccountsIInv
<1>2. /\ a \in Mailboxes /\ Shown(x.docs) /\ x.docs \subseteq public[c] /\ Left(x.flow)
      /\ x.docs \in SUBSET Versions /\ public[c] \in SUBSET Versions /\ x.trusted \in BOOLEAN
  BY <1>1 DEF Provision, ClientAt, AccountsInv, ClientRules, Holds, ReaderRule, AddressStages,
     AccountsTypeOK, ClientStates
<1>3. OneMoves(c) /\ ClientRules(c)' /\ client'[c].at = "away" /\ OnceRule'
  BY <1>1, GoneRules
<1>4. CASE ~(Complete(x.docs) /\ Matching(flow[x.flow].agreed, x.docs))
  <2>1. UNCHANGED <<person, accepted, origin, confirmed>>
    BY <1>4 DEF Provision
  <2> QED
    BY <1>1, <1>3, <2>1, FlowStep DEF OnlySides, AccountsTypeOK, FlowsKept, Left
<1>5. CASE Complete(x.docs) /\ Matching(flow[x.flow].agreed, x.docs)
  <2>1. /\ NewPerson(p, a, x.trusted, "user", ground) /\ Accept(p, x.docs)
        /\ confirmed' = confirmed \cup {<<p, a>>} /\ Having(a) = {}
    BY <1>5 DEF Provision, Owner
  <2>2. /\ ground \in Grounds /\ ground.how = "provider" /\ ground.public = public[c]
        /\ ground.flow = x.flow
    BY <1>2, AwayTyped DEF Grounds, Left
  <2> HIDE DEF ground
  <2>3. PeopleKept
    BY <1>2, <2>1, <2>2, NewPersonMade DEF Roles
  <2>4. LinksKept /\ RowsKept
    BY <1>1, <2>1, <2>3 DEF LinksKept, Made, RowsKept, FlowsKept, ChallengesKept, Left
  <2>5. \A m \in Links : LinkRule(m)'
    BY <1>1, <2>4, LinkRuleKept
  <2>6. Grounded("user", ground, x.docs)
    BY <1>2, <1>5, <2>2 DEF Grounded, Matching
  <2>7. confirmed' \subseteq (People \cup {None}) \X Mailboxes
    BY <1>1, <1>2, <2>1 DEF AccountsTypeOK
  <2>8. /\ mail' \subseteq Links \X Mailboxes /\ link' \in [Links -> LinkRows]
        /\ "user" \in Roles /\ confirmed \subseteq confirmed' /\ <<p, a>> \in confirmed'
    BY <1>1, <2>1 DEF AccountsTypeOK, Roles
  <2>9. ground.how # "invitation" /\ client'[c].at \notin {"use", "passkey"}
        /\ UNCHANGED <<flow, challenge, passkey, document>>
    BY <1>1, <1>3, <2>2
  <2> QED
    BY <1>2, <1>3, <2>1, <2>2, <2>4, <2>5, <2>6, <2>7, <2>8, <2>9, NewPersonStep
<1> QED
  BY <1>4, <1>5

LEMMA CreateUserStep ==
  ASSUME AccountsIInv, NEW c \in Clients, NEW p \in People, CreateUserByAdmin(c, p), Observe
  PROVE  AccountsIInv'
<1> DEFINE x == client[c]
           a == x.address
           ground == [Unknown EXCEPT !.how = "admin"]
           z == [x EXCEPT !.at = "reset", !.person = p]
<1>1. /\ AccountsTypeOK /\ AccountsInv /\ ClientRules(c) /\ x.at = "create"
      /\ UNCHANGED <<link, mail, flow, challenge, passkey, document, accepted, confirmed>>
  BY DEF CreateUserByAdmin, AccountsIInv, AccountsInv, ClientAt
<1>3. a \in Mailboxes /\ x.role \in Roles /\ x \in ClientStates
  BY <1>1 DEF ClientRules, Holds, AddressStages, AccountsTypeOK, ClientStates
<1>4. CASE Having(a) # {}
  <2>1. UNCHANGED <<person, origin>> /\ GoAway(c)
    BY <1>4 DEF CreateUserByAdmin
  <2> QED
    BY <1>1, <2>1, GoneRules, FlowStep DEF OnlySides, AccountsTypeOK, FlowsKept, Left
<1>5. CASE Having(a) = {}
  <2>1. /\ NewPerson(p, a, FALSE, x.role, ground) /\ client' = [client EXCEPT ![c] = z]
        /\ client'[c] = z
    BY <1>1, <1>5 DEF CreateUserByAdmin, AccountsTypeOK
  <2>2. ground \in Grounds /\ ground.how = "admin"
    BY AwayTyped DEF Grounds
  <2>3. z \in ClientStates /\ z.at = "reset" /\ z.op = x.op /\ z.person = p /\ z.address = a
        /\ z.flow = x.flow
    <3>1. z \in ClientStates
      BY <1>3, StateFields DEF PersonStages
    <3> QED
      BY <1>3, <3>1 DEF ClientStates
  <2> HIDE DEF ground, z
  <2>4. PeopleKept /\ There(p)'
    BY <1>3, <2>1, <2>2, NewPersonMade
  <2>5. LinksKept /\ RowsKept
    BY <1>1, <2>4 DEF LinksKept, Made, RowsKept, FlowsKept, ChallengesKept, Left
  <2>6. \A m \in Links : LinkRule(m)'
    BY <1>1, <2>5, LinkRuleKept
  <2>7. Grounded(x.role, ground, {}) /\ Accept(p, {})
    BY <1>1, <2>2 DEF Grounded, Accept
  <2>8. ClientRules(c)'
    BY <1>1, <1>3, <2>1, <2>3, <2>4 DEF ClientRules, Holds, ReaderRule, OpenRule, AnswerChallenge,
       AddressStages, PersonStages, LinkStages, Left, There
  <2>9. OneMoves(c) /\ client'[c].at \notin {"use", "passkey"} /\ ground.how # "invitation"
    BY <2>1, <2>2, <2>3 DEF OneMoves
  <2>10. /\ mail' \subseteq Links \X Mailboxes /\ link' \in [Links -> LinkRows]
         /\ confirmed' \subseteq (People \cup {None}) \X Mailboxes /\ confirmed \subseteq confirmed'
         /\ UNCHANGED <<flow, challenge, passkey, document>> /\ FALSE \in BOOLEAN
         /\ {} \in SUBSET Versions
    BY <1>1 DEF AccountsTypeOK
  <2>11. ground.how = "invitation" =>
           \A d \in Clients \ {c} : ClientAt(d, "use") => client[d].link # ground.link
    BY <2>9
  <2> DEFINE docs == {}
             role == x.role
             verified == FALSE
  <2>12. /\ docs \in SUBSET Versions /\ Accept(p, docs) /\ Grounded(role, ground, docs)
         /\ verified \in BOOLEAN /\ ~verified /\ role \in Roles
         /\ NewPerson(p, a, verified, role, ground)
    BY <1>3, <2>1, <2>7
  <2> HIDE DEF docs, role, verified
  <2> QED
    BY <1>3, <1>5, <2>2, <2>5, <2>6, <2>8, <2>9, <2>10, <2>11, <2>12, NewPersonStep
<1> QED
  BY <1>4, <1>5

LEMMA AcceptInvitationStep ==
  ASSUME AccountsIInv, NEW c \in Clients, NEW p \in People, AcceptInvitation(c, p), Observe
  PROVE  AccountsIInv'
<1> DEFINE x == client[c]
           l == x.link
           a == link[l].address
           ground == [Unknown EXCEPT !.how = "invitation", !.link = l]
           z == [x EXCEPT !.at = "account", !.person = p, !.address = a]
<1>1. /\ AccountsTypeOK /\ AccountsInv /\ ClientRules(c) /\ x.at = "use" /\ x.op = "invitation"
      /\ UNCHANGED <<link, mail, flow, challenge, passkey, document, accepted, confirmed>>
  BY DEF AcceptInvitation, AccountsIInv, AccountsInv, ClientAt
<1>2. /\ Made(l) /\ link[l].status = "used" /\ \A q \in People : ~Invited(q, l)
      /\ x \in ClientStates
  BY <1>1 DEF ClientRules, Holds, OpenRule, LinkStages, AccountsTypeOK
<1>3. a \in Mailboxes /\ link[l].role \in Roles
  BY <1>1, <1>2 DEF AccountsInv, LinkRule, AccountsTypeOK, LinkRows, Made
<1>4. CASE Having(a) # {}
  <2>1. UNCHANGED <<person, origin>> /\ GoAway(c)
    BY <1>4 DEF AcceptInvitation
  <2> QED
    BY <1>1, <2>1, GoneRules, FlowStep DEF OnlySides, AccountsTypeOK, FlowsKept, Left
<1>5. CASE Having(a) = {}
  <2>1. /\ NewPerson(p, a, FALSE, link[l].role, ground) /\ client' = [client EXCEPT ![c] = z]
        /\ client'[c] = z
    BY <1>1, <1>5 DEF AcceptInvitation, AccountsTypeOK
  <2>2. ground \in Grounds /\ ground.how = "invitation" /\ ground.link = l
    BY <1>2, AwayTyped DEF Grounds, Made
  <2>3. z \in ClientStates /\ z.at = "account" /\ z.op = x.op /\ z.person = p /\ z.address = a
        /\ z.flow = x.flow /\ z.link = l
    <3>1. z \in ClientStates
      BY <1>2, <1>3, StateFields
    <3> QED
      BY <1>2, <3>1 DEF ClientStates
  <2> HIDE DEF ground, z
  <2>4. PeopleKept /\ There(p)' /\ origin'[p] = ground
    <3>1. \A b \in Mailboxes, v \in BOOLEAN, role \in Roles, g \in Grounds :
            NewPerson(p, b, v, role, g) => PeopleKept /\ There(p)' /\ origin'[p] = g
      BY NewPersonMade
    <3> QED
      BY <1>3, <2>1, <2>2, <3>1
  <2>5. LinksKept /\ RowsKept
    BY <1>1, <2>4 DEF LinksKept, Made, RowsKept, FlowsKept, ChallengesKept, Left
  <2>6. \A m \in Links : LinkRule(m)'
    BY <1>1, <2>5, LinkRuleKept
  <2>7. Grounded(link[l].role, ground, {}) /\ Accept(p, {})
    BY <1>1, <1>2, <2>2 DEF Grounded, Accept
  <2>8. ClientRules(c)'
    BY <1>1, <1>2, <1>3, <2>1, <2>2, <2>3, <2>4 DEF ClientRules, Holds, ReaderRule, OpenRule,
       AnswerChallenge, AddressStages, PersonStages, LinkStages, Left, There, Made
  <2>9. /\ OneMoves(c) /\ client'[c].at \notin {"use", "passkey"}
        /\ \A d \in Clients \ {c} : ClientAt(d, "use") => client[d].link # ground.link
    BY <1>1, <2>1, <2>2, <2>3 DEF OneMoves, AccountsInv, OnceRule, ClientAt
  <2>10. /\ mail' \subseteq Links \X Mailboxes /\ link' \in [Links -> LinkRows]
         /\ confirmed' \subseteq (People \cup {None}) \X Mailboxes /\ confirmed \subseteq confirmed'
         /\ UNCHANGED <<flow, challenge, passkey, document>> /\ FALSE \in BOOLEAN
         /\ {} \in SUBSET Versions
    BY <1>1 DEF AccountsTypeOK
  <2> DEFINE docs == {}
             role == link[l].role
             verified == FALSE
  <2>11. /\ docs \in SUBSET Versions /\ Accept(p, docs) /\ Grounded(role, ground, docs)
         /\ verified \in BOOLEAN /\ ~verified /\ role \in Roles
         /\ NewPerson(p, a, verified, role, ground)
    BY <1>3, <2>1, <2>7
  <2> HIDE DEF docs, role, verified
  <2> QED
    BY <1>3, <1>5, <2>2, <2>5, <2>6, <2>8, <2>9, <2>10, <2>11, NewPersonStep
<1> QED
  BY <1>4, <1>5

-----------------------------------------------------------------------------
LEMMA AccountsInitially == AccountsInit => AccountsIInv
<1> SUFFICES ASSUME AccountsInit PROVE AccountsIInv
  OBVIOUS
<1>1. AccountsTypeOK
  <2>1. /\ NoPerson \in Persons /\ NoLink \in LinkRows /\ NoFlow \in FlowRows
        /\ NoChallenge \in ChallengeRows /\ Unknown \in Grounds /\ Away \in ClientStates
    BY AwayTyped DEF NoPerson, Persons, NoLink, LinkRows, NoFlow, FlowRows, NoChallenge,
       ChallengeRows, Roles
  <2> QED
    BY <2>1 DEF AccountsInit, AccountsTypeOK
<1>2. \A c \in Clients : ClientRules(c)
  BY DEF AccountsInit, Away, ClientRules, Holds, ReaderRule, OpenRule, AnswerChallenge,
     AddressStages, PersonStages, LinkStages
<1>3. OnceRule
  BY DEF AccountsInit, OnceRule, ClientAt, Away
<1>4. \A p \in People : PersonRule(p)
  BY DEF AccountsInit, PersonRule, Unknown, NoPerson
<1>5. \A l \in Links : LinkRule(l)
  BY DEF AccountsInit, LinkRule, Made, NoLink
<1>6. PasskeyRule /\ LegalGround /\ AddressesConfirmed
  BY DEF AccountsInit, PasskeyRule, LegalGround, AddressesConfirmed, Unknown, NoPerson, Active
<1> QED
  BY <1>1, <1>2, <1>3, <1>4, <1>5, <1>6 DEF AccountsIInv, AccountsInv

LEMMA AccountsStep == AccountsIInv /\ [AccountsNext]_accountVars => AccountsIInv'
<1> SUFFICES ASSUME AccountsIInv, [AccountsNext]_accountVars PROVE AccountsIInv'
  OBVIOUS
<1>1. CASE UNCHANGED accountVars
  <2> USE <1>1 DEF accountVars, accountRows
  <2>1. AccountsTypeOK' /\ RowsKept
    BY DEF AccountsIInv, AccountsTypeOK, RowsKept, PeopleKept, LinksKept, FlowsKept,
       ChallengesKept, There, Made, Left, Persons
  <2>2. ASSUME NEW c \in Clients PROVE ClientRules(c)'
    <3>1. OpenRule(c) /\ AnswerChallenge(c)
      BY DEF AccountsIInv, AccountsInv, ClientRules
    <3> QED
      BY <2>1, <3>1, OthersHold DEF OpenRule, AnswerChallenge, ClientAt, Invited
  <2>3. OnceRule'
    BY DEF AccountsIInv, AccountsInv, OnceRule, ClientAt
  <2> QED
    BY <2>1, <2>2, <2>3, PersonRuleKept, LinkRuleKept, PasskeyRuleKept, LegalGroundKept,
       AddressesKept DEF AccountsIInv, AccountsInv
<1>2. CASE AccountsNext
  <2>1. Observe
    BY <1>2 DEF AccountsNext
  <2>2. CASE Meanwhile
    BY <2>1, <2>2, MeanwhileStep
  <2>3. ASSUME NEW c \in Clients, Ask(c) PROVE AccountsIInv'
    BY <2>1, <2>3, AskStep
  <2>4. ASSUME NEW c \in Clients, Join(c) PROVE AccountsIInv'
    BY <2>1, <2>4, QuietSteps, SignUpStep, StoreStateStep, ClaimStateStep, ProvisionStep,
       CreateUserStep, AcceptInvitationStep, CreateInvitationStep, CreateResetLinkStep,
       InvitationSteps, MailLinkStep, AccountSteps, ConsumeLinkStep DEF Join
  <2>5. ASSUME NEW c \in Clients, Keep(c) PROVE AccountsIInv'
    BY <2>1, <2>5, VerifySteps, EmailChangeSteps, RequestEmailChangeStep, BeginPasskeyStep, ConsumeChallengeStep,
       FinishPasskeyStep, DeleteStep, AccountSteps DEF Keep
  <2>6. ASSUME NEW c \in Clients, DieInClient(c) PROVE AccountsIInv'
    BY <2>1, <2>6, QuietSteps
  <2> QED
    BY <1>2, <2>2, <2>3, <2>4, <2>5, <2>6 DEF AccountsNext
<1> QED
  BY <1>1, <1>2

LEMMA GroundedByRules == AccountsIInv => AccountsGrounded
<1> SUFFICES ASSUME AccountsIInv PROVE PeopleGrounded
  BY DEF AccountsIInv, AccountsInv, AccountsGrounded
<1> USE DEF AccountsIInv, AccountsInv
<1>1. ASSUME NEW p \in People, NEW q \in People, origin[p].how = "invitation"
      PROVE  person[p].role = link[origin[p].link].role /\ (p # q => origin[p] # origin[q])
  BY <1>1 DEF PersonRule, Invited
<1>2. \A p \in People : person[p].role # "user" => origin[p].how \in {"invitation", "admin"}
  BY DEF PersonRule
<1>3. \A x, y \in passkey : /\ challenge[x.challenge].person = x.person
                            /\ x # y => x.challenge # y.challenge
  BY DEF PasskeyRule
<1>4. \A l \in Links : link[l].row = "accepted" => \E p \in People : origin[p].link = l
  BY DEF LinkRule
<1> QED
  BY <1>1, <1>2, <1>3, <1>4 DEF PeopleGrounded

\* Whoever signs up, comes from the provider or an invitation, changes an address
\* or registers a passkey at the same time: acceptances, roles, addresses and
\* passkeys rest on what they must rest on (packages/auth/src/index.ts, and the
\* sign-up form and the callback of apps/web).
THEOREM PeopleStayGrounded == AccountsSpec => []AccountsGrounded
<1>1. AccountsIInv => AccountsGrounded
  BY GroundedByRules
<1> QED
  BY <1>1, AccountsInitially, AccountsStep, PTL DEF AccountsSpec

=============================================================================

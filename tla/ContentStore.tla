----------------------------- MODULE ContentStore -----------------------------
(***************************************************************************)
(* The managed content of the site (packages/db/src/content-repository.ts, *)
(* packages/config/src/content.ts): the actions of its editors, the        *)
(* contact form behind its rate limit, and seeding and resetting.          *)
(*                                                                         *)
(* updateContentSnapshot locks the tables, reads them all, applies the     *)
(* updater and writes them all: one action, since every writer takes the   *)
(* lock.  What an action of the site has read before is read without it.   *)
(***************************************************************************)
EXTENDS RateLimits

CONSTANTS
  Pages,         \* ids of contact pages of one locale
  DefaultPage,   \* the one in defaultContentSnapshot
  SlugOf,        \* the slug a page is created with, from which the other ids are made
  Servers,       \* processes of the site
  Messages,      \* what visitors send
  NoPage,
  MaxEdits,      \* bound: writes of pages
  MaxResets, MaxDeaths  \* bounds

States == {"draft", "published"}
Slugs == {SlugOf[p] : p \in Pages}
PageRows == [edit : Nat, slug : Slugs, state : States, published : Nat \cup {-1}]

ASSUME ContentAssumption ==
  /\ DefaultPage \in Pages /\ NoPage \notin Pages \cup Messages \cup PageRows
  /\ MaxEdits \in Nat /\ MaxResets \in Nat /\ MaxDeaths \in Nat

VARIABLES
  page, versions,  \* managed_pages with their sections; managed_page_versions
  open,            \* localization_settings: the locale, not the default one, is enabled
  messages,        \* contact_submissions
  ready,           \* readyPromise of each server
  task,            \* what each visit does behind the gate
  edits,           \* writes of pages begun; each has its own number, the seed 0
  resetting,       \* a reset is between its two transactions
  resets, deaths,
  sent, saved,     \* history: messages and writes that were acknowledged
  wiped,           \* history: messages and writes deleted by a reset
  first,           \* history: when each page was first published, -1 if it was not
  redated          \* history: pages created again, or saved over a row that was not read

contentRows == <<page, versions, open, messages>>
contentHistory == <<sent, saved, wiped, first, redated>>
contentVars ==
  <<contentRows, ready, task, edits, resetting, resets, deaths, contentHistory>>

\* A row: the write it is from, with the write at whose time it was published.
SeedRow == [edit |-> 0, slug |-> SlugOf[DefaultPage], state |-> "published", published |-> 0]
Resting == [at |-> "rest", op |-> "none", server |-> NoPage, page |-> NoPage, row |-> NoPage,
            read |-> -1, open |-> TRUE, msg |-> NoPage]

ContentInit ==
  /\ LimitInit
  /\ page = [p \in Pages |-> NoPage] /\ versions = [p \in Pages |-> {}]
  /\ open = TRUE /\ messages = {} /\ ready = [s \in Servers |-> "unset"]
  /\ task = [v \in Visits |-> Resting] /\ edits = 0
  /\ resetting = FALSE /\ resets = 0 /\ deaths = 0
  /\ sent = {} /\ saved = {} /\ wiped = {} /\ first = [p \in Pages |-> -1] /\ redated = {}

-----------------------------------------------------------------------------
TaskAt(v, s) == task[v].at = s
Resume(v, x) == task' = [task EXCEPT ![v] = x]
ResumeAt(v, s) == Resume(v, [task[v] EXCEPT !.at = s])
Finish(v) == Resume(v, Resting)
Death == deaths < MaxDeaths /\ deaths' = deaths + 1
Empty == \A p \in Pages : page[p] = NoPage
Public == \E p \in Pages : page[p] # NoPage /\ page[p].state = "published"
FormOpen == open /\ Public

\* replacePages writes a version of every page that the previous snapshot does
\* not hold as it is now; the versions of a deleted page go with it.
Versioned(new, before) ==
  [p \in Pages |-> {row \in versions[p] : new[p] # NoPage}
                   \cup ({new[p]} \ {NoPage, before[p]})]
Seeded == [p \in Pages |-> IF p = DefaultPage THEN SeedRow ELSE NoPage]
Dates(new) == [p \in Pages |-> IF new[p] = NoPage THEN -1 ELSE new[p].published]
\* The snapshot of the defaults replaces what there is.
Seed(before) ==
  /\ page' = Seeded /\ versions' = Versioned(Seeded, before) /\ open' = TRUE /\ messages' = {}
  /\ first' = Dates(Seeded) /\ redated' = {}

-----------------------------------------------------------------------------
(* The calls *)

NewEdit == edits < MaxEdits /\ edits' = edits + 1
CallSave(v, s, p, slug, state) ==
  /\ task[v] = Resting /\ NewEdit
  /\ Resume(v, [Resting EXCEPT !.at = "ensure", !.op = "save", !.server = s, !.page = p,
                  !.row = [edit |-> edits + 1, slug |-> slug, state |-> state, published |-> -1]])
\* The id of the page is made from its slug.
CallCreate(v, s, p, state) ==
  /\ task[v] = Resting /\ NewEdit /\ p # DefaultPage
  /\ Resume(v, [Resting EXCEPT !.at = "ensure", !.op = "create", !.server = s, !.page = p,
                  !.row = [edit |-> edits + 1, slug |-> SlugOf[p], state |-> state,
                           published |-> IF state = "published" THEN edits + 1 ELSE -1]])
CallSettings(v, s, o) ==
  /\ task[v] = Resting
  /\ Resume(v, [Resting EXCEPT !.at = "ensure", !.op = "settings", !.server = s, !.open = o])
  /\ UNCHANGED edits
\* The form comes through requirePublicFormAuth.
CallContact(v, s, m, i, a) ==
  /\ task[v] = Resting /\ m \notin messages \cup wiped /\ CallProtected(v, i, a)
  /\ \A u \in Visits : task[u].msg # m
  /\ Resume(v, [Resting EXCEPT !.at = "gate", !.op = "contact", !.server = s, !.msg = m])
Admit(v) ==
  /\ TaskAt(v, "gate") /\ LeaveGate(v, "through") /\ ResumeAt(v, "ensure")
  /\ UNCHANGED <<window, bucket, onTime, overtime>>
TurnAway(v) == TaskAt(v, "gate") /\ Turned(v) /\ Finish(v)

-----------------------------------------------------------------------------
(* ensureContentDatabase *)

\* Mutant of SeedNeeded: every process that starts seeds.
SeedNeededAlways == TRUE

\* There are no pages.
SeedNeeded == Empty

\* The promise is made once in each process, and kept when it was rejected.
Ensured(v) ==
  LET next == IF task[v].op \in {"create", "settings"} THEN "commit" ELSE "read" IN
  /\ TaskAt(v, "ensure")
  /\ CASE ready[task[v].server] = "unset" ->
            /\ ready' = [ready EXCEPT ![task[v].server] = "resolved"] /\ ResumeAt(v, next)
            /\ IF SeedNeeded THEN Seed([p \in Pages |-> NoPage])
               ELSE UNCHANGED <<contentRows, first, redated>>
       [] ready[task[v].server] = "resolved" ->
            ResumeAt(v, next) /\ UNCHANGED <<contentRows, ready, first, redated>>
       [] OTHER -> Finish(v) /\ UNCHANGED <<contentRows, ready, first, redated>>
  /\ UNCHANGED <<edits, resetting, resets, deaths, sent, saved, wiped>>
EnsureFails(v) ==
  /\ TaskAt(v, "ensure") /\ ready[task[v].server] = "unset" /\ Death /\ Finish(v)
  /\ ready' = [ready EXCEPT ![task[v].server] = "rejected"]
  /\ UNCHANGED <<contentRows, edits, resetting, resets, contentHistory>>
Restart(s) ==
  /\ ready[s] # "unset" /\ Death /\ ready' = [ready EXCEPT ![s] = "unset"]
  /\ task' = [v \in Visits |-> IF task[v].server = s THEN Resting ELSE task[v]]
  /\ gate' = [v \in Visits |-> IF task[v].server = s THEN Outside ELSE gate[v]]
  /\ UNCHANGED <<contentRows, edits, resetting, resets, contentHistory, window, bucket, onTime,
                 overtime>>

-----------------------------------------------------------------------------
(* What the actions read without a lock, table by table *)

\* Mutant of Published: a page that is published again gets a new date.
PublishedAgain(row, old) == IF row.state = "published" THEN row.edit ELSE old.published

\* publishedAt of a saved page, from the row that was read.
Published(row, old) ==
  IF row.state = "published" /\ old.published = -1 THEN row.edit ELSE old.published

ReadPages(v) ==
  LET p == task[v].page IN
  /\ TaskAt(v, "read")
  /\ CASE task[v].op = "contact" -> IF Public THEN ResumeAt(v, "settings") ELSE Finish(v)
       [] task[v].op = "save" /\ page[p] = NoPage -> Finish(v)
       [] OTHER -> Resume(v, [task[v] EXCEPT !.at = "sections", !.read = page[p].edit,
                                !.row.published = Published(task[v].row, page[p])])
  /\ UNCHANGED <<contentRows, ready, edits, resetting, resets, deaths, contentHistory>>
\* A page without sections makes the snapshot invalid.
ReadSections(v) ==
  /\ TaskAt(v, "sections")
  /\ IF page[task[v].page] = NoPage THEN Finish(v) ELSE ResumeAt(v, "commit")
  /\ UNCHANGED <<contentRows, ready, edits, resetting, resets, deaths, contentHistory>>
ReadSettings(v) ==
  /\ TaskAt(v, "settings") /\ IF open THEN ResumeAt(v, "commit") ELSE Finish(v)
  /\ UNCHANGED <<contentRows, ready, edits, resetting, resets, deaths, contentHistory>>
\* A field is refused, or the bot check is, which answers as if it were not.
Declined(v) ==
  /\ TaskAt(v, "commit") /\ task[v].op = "contact" /\ Finish(v)
  /\ UNCHANGED <<contentRows, ready, edits, resetting, resets, deaths, contentHistory>>

-----------------------------------------------------------------------------
(* updateContentSnapshot *)

\* Mutant of Duplicate: the slugs are not compared.
DuplicateNever(p, row) == FALSE

\* upsertManagedPage: another page has the slug.
Duplicate(p, row) == \E q \in Pages \ {p} : page[q] # NoPage /\ page[q].slug = row.slug

\* There is a row that the action has not read.
Overtaken(v, old) == old # NoPage /\ old.edit # task[v].read
StorePage(v) ==
  LET p == task[v].page
      row == task[v].row
      new == [page EXCEPT ![p] = row]
  IN
  /\ TaskAt(v, "commit") /\ task[v].op \in {"save", "create"} /\ ~Duplicate(p, row)
  /\ page' = new /\ versions' = Versioned(new, page) /\ ResumeAt(v, "answer")
  /\ first' = [first EXCEPT ![p] = IF @ = -1 THEN row.published ELSE @]
  /\ redated' = IF Overtaken(v, page[p]) THEN redated \cup {p} ELSE redated
  /\ UNCHANGED <<open, messages, ready, edits, resetting, resets, deaths, sent, saved, wiped>>
RefusePage(v) ==
  /\ TaskAt(v, "commit") /\ task[v].op \in {"save", "create"}
  /\ Duplicate(task[v].page, task[v].row) /\ Finish(v)
  /\ UNCHANGED <<contentRows, ready, edits, resetting, resets, deaths, contentHistory>>
StoreSettings(v) ==
  /\ TaskAt(v, "commit") /\ task[v].op = "settings" /\ open' = task[v].open /\ Finish(v)
  /\ UNCHANGED <<page, versions, messages, ready, edits, resetting, resets, deaths, contentHistory>>

\* Mutant of StillOpen: the updater does not look again.
StillOpenAsRead == TRUE

\* The updater asks whether the form is open in the snapshot it is given.
StillOpen == FormOpen
StoreMessage(v) ==
  /\ TaskAt(v, "commit") /\ task[v].op = "contact"
  /\ IF StillOpen THEN messages' = messages \cup {task[v].msg} /\ ResumeAt(v, "answer")
     ELSE UNCHANGED messages /\ Finish(v)
  /\ UNCHANGED <<page, versions, open, ready, edits, resetting, resets, deaths, contentHistory>>

\* The action answers that it was done.
Answered(v) ==
  /\ TaskAt(v, "answer") /\ Finish(v)
  /\ IF task[v].op = "contact" THEN sent' = sent \cup {task[v].msg} /\ UNCHANGED saved
     ELSE saved' = saved \cup {<<task[v].page, task[v].row.edit>>} /\ UNCHANGED sent
  /\ UNCHANGED <<contentRows, ready, edits, resetting, resets, deaths, wiped, first, redated>>

-----------------------------------------------------------------------------
(* resetContentDatabase and the seed script, run beside the servers *)

\* A reset is two transactions.
Written == UNION {{<<p, row.edit>> : row \in versions[p]} : p \in Pages}
Wipe ==
  /\ ~resetting /\ resets < MaxResets /\ resets' = resets + 1 /\ resetting' = TRUE
  /\ page' = [p \in Pages |-> NoPage] /\ versions' = [p \in Pages |-> {}]
  /\ open' = TRUE /\ messages' = {}
  /\ wiped' = wiped \cup messages \cup Written
  /\ first' = [p \in Pages |-> -1] /\ redated' = {}
  /\ UNCHANGED <<ready, task, edits, deaths, sent, saved>>
\* seedContentDatabase with force, unless the process has died.
Reseed ==
  /\ resetting /\ resetting' = FALSE
  /\ Seed(page) /\ wiped' = wiped \cup messages \cup Written
  /\ UNCHANGED <<ready, task, edits, resets, deaths, sent, saved>>
GiveUpReset ==
  /\ resetting /\ Death /\ resetting' = FALSE
  /\ UNCHANGED <<contentRows, ready, task, edits, resets, contentHistory>>
\* seedContentDatabase without force.
SeedScript ==
  /\ SeedNeeded /\ Seed([p \in Pages |-> NoPage])
  /\ UNCHANGED <<ready, task, edits, resetting, resets, deaths, sent, saved, wiped>>

-----------------------------------------------------------------------------
Edit(v) ==
  /\ \E s \in Servers :
       \/ \E p \in Pages, slug \in Slugs, st \in States :
            CallSave(v, s, p, slug, st) \/ CallCreate(v, s, p, st)
       \/ \E o \in BOOLEAN : CallSettings(v, s, o)
  /\ UNCHANGED <<contentRows, ready, resetting, resets, deaths, contentHistory, limitVars>>
Contact(v) ==
  /\ \/ \E s \in Servers, m \in Messages, i \in Identities, a \in Addresses \cup {NoAddress} :
          CallContact(v, s, m, i, a)
     \/ Admit(v) \/ TurnAway(v)
  /\ UNCHANGED <<contentRows, ready, edits, resetting, resets, deaths, contentHistory>>
AtGate == (NextWindow \/ \E v \in Visits : Purge(v) \/ Count(v)) /\ UNCHANGED contentVars
DieAtTask(v) ==
  /\ task[v] # Resting /\ Death /\ Finish(v)
  /\ IF TaskAt(v, "gate") THEN DieAtGate(v) ELSE UNCHANGED limitVars
  /\ UNCHANGED <<contentRows, ready, edits, resetting, resets, contentHistory>>
Behind(v) ==
  \/ Ensured(v) \/ EnsureFails(v) \/ ReadPages(v) \/ ReadSections(v) \/ ReadSettings(v)
  \/ Declined(v) \/ StorePage(v) \/ RefusePage(v) \/ StoreSettings(v) \/ StoreMessage(v)
  \/ Answered(v)

ContentNext ==
  \/ AtGate
  \/ \E v \in Visits : Edit(v) \/ Contact(v) \/ DieAtTask(v)
  \/ /\ (\E v \in Visits : Behind(v)) \/ Wipe \/ Reseed
        \/ GiveUpReset \/ SeedScript
     /\ UNCHANGED limitVars
  \/ \E s \in Servers : Restart(s)

ContentSpec == ContentInit /\ [][ContentNext]_<<contentVars, limitVars>>

-----------------------------------------------------------------------------
\* A message whose id was returned to the visitor is stored until a reset deletes
\* it, whatever edits, starts of processes and seeds come after; messages are stored
\* only while the form is open, however long ago the visitor's page was read.
ContactMessagesKept ==
  /\ [](sent \subseteq messages \cup wiped)
  /\ [][messages' \subseteq messages \/ FormOpen]_<<contentVars, limitVars>>

\* Every row of a page is among the versions of the page, and so is every write
\* that was acknowledged, until a reset deletes them; no two pages have one slug.
\* A published page is dated, with the time it was published first, unless it was
\* created again or an action wrote over a row it had not read.
PagesFollowEdits ==
  /\ \A p \in Pages :
       page[p] # NoPage =>
         /\ page[p] \in versions[p]
         /\ \A q \in Pages \ {p} : page[q] = NoPage \/ page[q].slug # page[p].slug
         /\ page[p].state = "published" => page[p].published # -1
         /\ page[p].published # first[p] => p \in redated
  /\ \A w \in saved \ wiped : \E row \in versions[w[1]] : row.edit = w[2]

=============================================================================

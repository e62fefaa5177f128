------------------------------ MODULE Accounts ------------------------------
(***************************************************************************)
(* Who may do what in which workspace: OIDC logins that provision their    *)
(* user just in time, the session cookie, workspaces and their members,    *)
(* and the conversations that queries append their turns to.  Requests of  *)
(* several browsers interleave, one statement at a time; a transaction     *)
(* waits for another that holds the unique key it inserts.                 *)
(***************************************************************************)
EXTENDS Integers, Sequences, FiniteSets, SequencesExt

CONSTANTS
  Browsers, Subjects,
  Emails,       \* what the provider may claim; "" when it claims none
  Questions, Answers,  \* texts; Blank is one of only spaces
  Blank,
  SessionTTL,   \* in days
  Budgets,      \* bounds: how often a behaviour does what; it has one of them
  MaxRequests, Overlap  \* bounds: of requests in all, and at once

\* A map to a set that has two elements.
Two(S) == CHOOSE f \in [{1, 2} -> S] : f[1] # f[2]

ASSUME AccountsAssumption ==
  /\ Browsers # {}
  /\ \E s, t \in Subjects : s # t
  /\ \E e, f \in Emails : e # f
  /\ SessionTTL \in Nat \ {0}
  /\ Budgets \subseteq [{"redirects", "logins", "work", "logouts", "changes", "days"} -> Nat]
  /\ MaxRequests \in Nat /\ Overlap \in Nat \ {0}
  /\ "" \notin Questions

VARIABLES
  tables,    \* the committed rows
  titles,    \* conversations.title
  messages,  \* committed rows of messages, in the order of their commits
  stamps,    \* the clock of created_at
  day,       \* the clock of the sessions
  claimed,   \* the email the provider claims for each subject now
  flows,     \* the logins begun at GET /auth/login: the browser, and whether the code is used
  cookies,   \* nv_oauth_state and nv_session of each browser
  person,    \* history: the subject and the day of the login behind each nv_session
  requests,  \* those in progress; a request's number is the id of the rows it makes
  budget     \* of the bounds: what is left

vars == <<tables, titles, messages, stamps, day, claimed, flows, cookies, person, requests, budget>>
store == <<tables, titles, messages, stamps>>
browsing == <<day, claimed, flows, cookies, person>>

\* Rows 1 and 2 were made before the requests of a behaviour.
Numbers == 3..(MaxRequests + 2)
Ids == 1..(MaxRequests + 2)

NoSession == [user |-> 0, email |-> "", expires |-> 0]
NoRows == [users |-> {}, user_identity |-> {}, workspace |-> {}, user_workspace |-> {},
           conversations |-> {}]
Idle == [pc |-> "idle", browser |-> CHOOSE b \in Browsers : TRUE, flow |-> 0, subject |-> "",
         email |-> "", user |-> 0, workspace |-> 0, conversation |-> 0, streams |-> FALSE,
         role |-> "user", text |-> "", at |-> 0, tx |-> NoRows]
Over == [Idle EXCEPT !.pc = "over"]

User(id, email) == [id |-> id, email |-> email]
Identity(user, subject) == [user |-> user, subject |-> subject]
Membership(user, workspace) == [user |-> user, workspace |-> workspace, role |-> "owner"]
Conversation(id, workspace) == [id |-> id, workspace |-> workspace]

Before == {1, 2}

\* A new deployment, or one where two people each have a workspace and a
\* conversation; the first is logged in at one browser, the second at the rest.
Init ==
  LET who == Two(Subjects)  address == Two(Emails)
      first == CHOOSE b \in Browsers : TRUE
      at == [b \in Browsers |-> IF b = first THEN 1 ELSE 2] IN
  /\ claimed = [s \in Subjects |-> IF s = who[1] THEN address[1] ELSE address[2]]
  /\ \/ /\ tables = NoRows
        /\ cookies = [b \in Browsers |-> [state |-> 0, session |-> NoSession]]
        /\ person = [b \in Browsers |-> [subject |-> "", day |-> 0]]
     \/ /\ tables = [users |-> {User(i, address[i]) : i \in Before},
                     user_identity |-> {Identity(i, who[i]) : i \in Before},
                     workspace |-> Before,
                     user_workspace |-> {Membership(i, i) : i \in Before},
                     conversations |-> {Conversation(i, i) : i \in Before}]
        /\ cookies = [b \in Browsers |-> [state |-> 0, session |->
             [user |-> at[b], email |-> address[at[b]], expires |-> SessionTTL]]]
        /\ person = [b \in Browsers |-> [subject |-> who[at[b]], day |-> 0]]
  /\ titles = [c \in Ids |-> ""]
  /\ messages = <<>> /\ stamps = 0 /\ day = 0
  /\ flows = <<>>
  /\ requests = [i \in Numbers |-> Idle]
  /\ budget \in Budgets

Spend(what) == budget[what] > 0 /\ budget' = [budget EXCEPT ![what] = @ - 1]

Begun == {i \in Numbers : requests[i].pc \notin {"idle", "over"}}

\* Request i reaches a step with the given fields.
Arrive(i, r) ==
  /\ requests[i].pc = "idle" /\ \A j \in Numbers : j < i => requests[j].pc # "idle"
  /\ Cardinality(Begun) < Overlap
  /\ requests' = [requests EXCEPT ![i] = r]

At(i, step) == requests[i].pc = step
Goto(i, step) == requests' = [requests EXCEPT ![i].pc = step]
End(i) == requests' = [requests EXCEPT ![i] = Over]

\* An INSERT of the request's transaction.  Mutant: of no transaction.
InsertAlone(i, table, row, step) ==
  /\ tables' = [tables EXCEPT ![table] = @ \cup {row}]
  /\ Goto(i, step)
Insert(i, table, row, step) ==
  /\ requests' = [requests EXCEPT ![i].pc = step, ![i].tx[table] = @ \cup {row}]
  /\ UNCHANGED tables

Committed(i) == [t \in DOMAIN tables |-> tables[t] \cup requests[i].tx[t]]

-----------------------------------------------------------------------------
(* Login: the redirect and its callback, or a password.                     *)

\* A later login in the same browser overwrites the state of an earlier one.
Login(b) ==
  /\ Spend("redirects")
  /\ flows' = Append(flows, [browser |-> b, used |-> FALSE])
  /\ cookies' = [cookies EXCEPT ![b].state = Len(flows) + 1]
  /\ UNCHANGED <<store, day, claimed, person, requests>>

StateMatches(b, f) == cookies[b].state # 0 /\ cookies[b].state = f

\* The redirect back, or a reload of it, reaches a browser.
Callback(i, b) ==
  /\ \E f \in 1..Len(flows) :
       /\ StateMatches(b, f)
       /\ Arrive(i, [Idle EXCEPT !.pc = "exchange", !.browser = b, !.flow = f])
  /\ Spend("logins")
  /\ UNCHANGED <<store, browsing>>

Token(i, b) ==
  /\ Arrive(i, [Idle EXCEPT !.pc = "password", !.browser = b])
  /\ Spend("logins")
  /\ UNCHANGED <<store, browsing>>

\* The provider accepts a code once, and answers its claims of that moment.
Exchange(i) ==
  /\ At(i, "password") \/ At(i, "exchange")
  /\ At(i, "exchange") => ~flows[requests[i].flow].used
  /\ \E s \in Subjects :
       requests' = [requests EXCEPT ![i].pc = "find", ![i].subject = s, ![i].email = claimed[s]]
  /\ flows' = IF At(i, "exchange") THEN [flows EXCEPT ![requests[i].flow].used = TRUE] ELSE flows
  /\ UNCHANGED <<store, day, claimed, cookies, person, budget>>

\* findUserByIdentity
Linked(subject) ==
  {u \in tables.users : Identity(u.id, subject) \in tables.user_identity}

resolveUser(i) ==
  /\ At(i, "find")
  /\ IF Linked(requests[i].subject) = {} THEN Goto(i, "insert user")
     ELSE \E u \in Linked(requests[i].subject) :
            requests' = [requests EXCEPT ![i].pc = "issue", ![i].user = u.id, ![i].email = u.email]
  /\ UNCHANGED <<store, browsing, budget>>

\* The constraints UNIQUE (email) and UNIQUE (provider, external_id): an INSERT
\* waits for a transaction that holds its key, and fails where a row has it.
Waits(i, table, Same(_)) == \E j \in Begun \ {i} : \E row \in requests[j].tx[table] : Same(row)
Conflicts(table, Same(_)) == \E row \in tables[table] : Same(row)

\* Mutant: ON CONFLICT DO NOTHING for the identity.
SubjectIsFree(i) == TRUE
IdentityIsUnique(i) ==
  LET Same(row) == row.subject = requests[i].subject
  IN  ~Conflicts("user_identity", Same)

EmailIsUnique(i) ==
  LET Same(row) == row.email = requests[i].email IN ~Conflicts("users", Same)

provisionUser(i) ==
  /\ \/ /\ At(i, "insert user")
        /\ LET Same(row) == row.email = requests[i].email IN ~Waits(i, "users", Same)
        /\ EmailIsUnique(i)
        /\ Insert(i, "users", User(i, requests[i].email), "insert identity")
     \/ /\ At(i, "insert identity")
        /\ LET Same(row) == row.subject = requests[i].subject
           IN  ~Waits(i, "user_identity", Same)
        /\ IdentityIsUnique(i)
        /\ Insert(i, "user_identity", Identity(i, requests[i].subject), "commit user")
     \/ /\ At(i, "commit user")
        /\ tables' = Committed(i)
        /\ requests' = [requests EXCEPT ![i].pc = "issue", ![i].user = i, ![i].tx = NoRows]
  /\ UNCHANGED <<titles, messages, stamps, browsing, budget>>

issueSession(i) ==
  /\ At(i, "issue")
  /\ LET r == requests[i] IN
     /\ cookies' = [cookies EXCEPT ![r.browser] =
          [state |-> IF r.flow = 0 THEN @.state ELSE 0,
           session |-> [user |-> r.user, email |-> r.email, expires |-> day + SessionTTL]]]
     /\ person' = [person EXCEPT ![r.browser] = [subject |-> r.subject, day |-> day]]
  /\ End(i)
  /\ UNCHANGED <<store, day, claimed, flows, budget>>

\* An error of the store or the provider, a conflict, or the client is gone: the
\* transaction is rolled back, or was committed and the answer lost.  Callback
\* clears the state cookie regardless: of the browser's newest login too.
LoginFails(i) ==
  /\ requests[i].pc \in {"exchange", "password", "find", "insert user", "insert identity",
                         "commit user"}
  /\ tables' \in {tables} \cup (IF At(i, "commit user") THEN {Committed(i)} ELSE {})
  /\ cookies' = IF requests[i].flow = 0 THEN cookies
                ELSE [cookies EXCEPT ![requests[i].browser].state = 0]
  /\ End(i)
  /\ UNCHANGED <<titles, messages, stamps, day, claimed, flows, person, budget>>

Logout(b) ==
  /\ cookies[b].session # NoSession
  /\ Spend("logouts")
  /\ cookies' = [cookies EXCEPT ![b].session = NoSession]
  /\ person' = [person EXCEPT ![b] = [subject |-> "", day |-> 0]]
  /\ UNCHANGED <<store, day, claimed, flows, requests>>

\* External: a person's address changes at the provider; a day passes.
ChangeEmail(s) ==
  /\ \E e \in Emails \ {claimed[s]} : claimed' = [claimed EXCEPT ![s] = e]
  /\ Spend("changes")
  /\ UNCHANGED <<store, day, flows, cookies, person, requests>>

Tomorrow ==
  /\ Spend("days")
  /\ day' = day + 1
  /\ UNCHANGED <<store, claimed, flows, cookies, person, requests>>

-----------------------------------------------------------------------------
(* Behind RequireUser: workspaces, conversations and queries.               *)

\* Mutant: the expiry is not read.
Signed(session) == session # NoSession
Verify(session) == session # NoSession /\ day < session.expires

\* RequireUser, then the handler decodes the body.
Admit(i, b, r) ==
  /\ Verify(cookies[b].session)
  /\ Arrive(i, [r EXCEPT !.browser = b, !.user = cookies[b].session.user,
                         !.subject = person[b].subject])
  /\ Spend("work")
  /\ UNCHANGED <<store, browsing>>

IsMember(user, w) == \E m \in tables.user_workspace : m.user = user /\ m.workspace = w

\* EnsureMember
EnsureMember(i, step) ==
  /\ At(i, "member")
  /\ IF IsMember(requests[i].user, requests[i].workspace) THEN Goto(i, step) ELSE End(i)
  /\ UNCHANGED <<store, browsing, budget>>

AskForWorkspace(i, b) == Admit(i, b, [Idle EXCEPT !.pc = "insert workspace"])

CreateWorkspace(i) ==
  /\ \/ /\ At(i, "insert workspace")
        /\ Insert(i, "workspace", i, "insert membership")
     \/ /\ At(i, "insert membership")
        /\ \E u \in tables.users : u.id = requests[i].user
        /\ Insert(i, "user_workspace", Membership(requests[i].user, i), "commit workspace")
     \/ /\ At(i, "commit workspace")
        /\ tables' = Committed(i)
        /\ End(i)
  /\ UNCHANGED <<titles, messages, stamps, browsing, budget>>

AskForConversation(i, b) ==
  \E w \in tables.workspace :
    Admit(i, b, [Idle EXCEPT !.pc = "member", !.workspace = w])

CreateConversation(i) ==
  /\ At(i, "insert conversation")
  /\ tables' = [tables EXCEPT !.conversations = @ \cup {Conversation(i, requests[i].workspace)}]
  /\ End(i)
  /\ UNCHANGED <<titles, messages, stamps, browsing, budget>>

\* A query with a conversation_id, answered by Query or by QueryStream.
Ask(i, b) ==
  \E w \in tables.workspace, c \in tables.conversations, q \in Questions, s \in BOOLEAN :
    Admit(i, b, [Idle EXCEPT !.pc = "member", !.workspace = w, !.conversation = c.id,
                             !.streams = s, !.text = q])

\* Mutant: the conversation is only looked up.
ConversationExists(c, w) == \E row \in tables.conversations : row.id = c
ConversationIsIn(c, w) == Conversation(c, w) \in tables.conversations

ensureConversationInWorkspace(i) ==
  /\ At(i, "conversation")
  /\ IF ConversationIsIn(requests[i].conversation, requests[i].workspace)
     THEN Goto(i, "retrieve") ELSE End(i)
  /\ UNCHANGED <<store, browsing, budget>>

Retrieve(i) ==
  /\ At(i, "retrieve") /\ Goto(i, "append")
  /\ UNCHANGED <<store, browsing, budget>>

\* Mutant: the turn's first.
TurnStamp(i) == IF requests[i].at # 0 THEN requests[i].at ELSE stamps + 1
Stamp(i) == stamps + 1

\* Mutant: of every message.
TitleOfLast(title, text) == IF text = Blank THEN "" ELSE text
deriveTitle(text) == IF text = Blank THEN "" ELSE text
Titled(title, text) == IF title = "" THEN deriveTitle(text) ELSE title

Message(i) ==
  [conversation |-> requests[i].conversation, role |-> requests[i].role,
   content |-> requests[i].text, created_at |-> requests[i].at,
   turn |-> i, author |-> requests[i].user]

\* AppendMessage: created_at is the program's clock once the transaction has
\* begun, taken not to step back; the UPDATE takes the conversation's row until
\* the commit.
BeginAppend(i) ==
  /\ At(i, "append")
  /\ stamps' = stamps + 1
  /\ requests' = [requests EXCEPT ![i].pc = "update", ![i].at = Stamp(i)]
  /\ UNCHANGED <<tables, titles, messages, browsing, budget>>

AppendMessage(i) ==
  LET r == requests[i] IN
  /\ At(i, "update")
  /\ messages' = Append(messages, Message(i))
  /\ titles' = [titles EXCEPT ![r.conversation] = Titled(@, r.text)]
  /\ IF r.streams /\ r.role = "user" THEN Goto(i, "generate") ELSE End(i)
  /\ UNCHANGED <<tables, stamps, browsing, budget>>

\* The model's answer is complete.
Generate(i) ==
  /\ At(i, "generate")
  /\ \E a \in Answers :
       requests' = [requests EXCEPT ![i].pc = "append", ![i].role = "assistant", ![i].text = a]
  /\ UNCHANGED <<store, browsing, budget>>

Fails(i) ==
  /\ Begun # {} /\ ~At(i, "idle") /\ ~At(i, "over")
  /\ requests[i].flow = 0 /\ requests[i].user # 0 /\ ~At(i, "issue")
  /\ \/ UNCHANGED <<tables, titles, messages>>
     \/ /\ At(i, "commit workspace") /\ tables' = Committed(i)
        /\ UNCHANGED <<titles, messages>>
     \/ /\ At(i, "update") /\ messages' = Append(messages, Message(i))
        /\ titles' = [titles EXCEPT ![requests[i].conversation] = Titled(@, requests[i].text)]
        /\ UNCHANGED tables
  /\ End(i)
  /\ UNCHANGED <<stamps, browsing, budget>>

\* Nothing is asked of the server.
Quiet == Begun = {}

Next ==
  \/ \E b \in Browsers : Login(b) \/ Logout(b)
  \/ \E i \in Numbers, b \in Browsers :
       \/ Callback(i, b) \/ Token(i, b)
       \/ AskForWorkspace(i, b) \/ AskForConversation(i, b) \/ Ask(i, b)
  \/ \E i \in Numbers :
       \/ Exchange(i) \/ resolveUser(i) \/ provisionUser(i) \/ issueSession(i) \/ LoginFails(i)
       \/ CreateWorkspace(i)
       \/ EnsureMember(i, IF requests[i].conversation = 0 THEN "insert conversation"
                          ELSE "conversation")
       \/ CreateConversation(i) \/ ensureConversationInWorkspace(i) \/ Retrieve(i)
       \/ BeginAppend(i) \/ AppendMessage(i) \/ Generate(i) \/ Fails(i)
  \/ \E s \in Subjects : ChangeEmail(s)
  \/ Tomorrow
  \/ Quiet /\ UNCHANGED vars

Spec == Init /\ [][Next]_vars

-----------------------------------------------------------------------------
(* Properties.                                                              *)

\* workspaces.Service.List; the rows of ListMessages and their ORDER BY.
List(user) == {w \in tables.workspace : IsMember(user, w)}
ListMessages(c) == {m \in ToSet(messages) : m.conversation = c}
ListedBefore(m, n) == m.created_at < n.created_at

\* Types; a title is one readable line (conversations/service.go:193-194).
TypeOK ==
  /\ tables.users \subseteq [id: Ids, email: Emails]
  /\ tables.user_identity \subseteq [user: Ids, subject: Subjects]
  /\ tables.workspace \subseteq Ids
  /\ tables.user_workspace \subseteq [user: Ids, workspace: Ids, role: {"owner"}]
  /\ tables.conversations \subseteq [id: Ids, workspace: Ids]
  /\ titles \in [Ids -> {""} \cup ((Questions \cup Answers) \ {Blank})]
  /\ \A m \in ToSet(messages) : m.conversation \in Ids /\ m.created_at \in 1..stamps
  /\ stamps \in Nat /\ day \in Nat
  /\ claimed \in [Subjects -> Emails]
  /\ flows \in Seq([browser: Browsers, used: BOOLEAN])
  /\ \A b \in Browsers :
       cookies[b].state \in 0..Len(flows) /\ cookies[b].session.user \in Ids \cup {0}
  /\ person \in [Browsers -> [day: Nat, subject: Subjects \cup {""}]]

\* However first logins overlap, fail halfway or lose their answer, whatever
\* address the provider claims at the time: a subject has one user, a user one
\* subject, and no user is without (provisionUser: "at most one identity
\* survives a concurrent first login", auth/service.go:197-199).
OneUserPerSubject ==
  /\ \A u \in tables.users : Cardinality({d \in tables.user_identity : d.user = u.id}) = 1
  /\ \A d \in tables.user_identity :
       /\ \E u \in tables.users : u.id = d.user
       /\ \A e \in tables.user_identity : e.subject = d.subject => e = d

\* A request that RequireUser lets in acts as the user linked to the subject who
\* logged in at its browser, less than SessionTTL ago: never as a user whose
\* provisioning lost the race or was rolled back.
ActsAsItsLogin ==
  [][\A i \in Numbers :
       At(i, "idle") /\ requests'[i].user # 0 =>
         LET p == person[requests'[i].browser] IN
         /\ Identity(requests'[i].user, p.subject) \in tables.user_identity
         /\ day < p.day + SessionTTL]_vars

\* "A workspace never exists without an owner" (workspaces/service.go:36-37): it
\* is always in the list of exactly one user, who exists.
OwnedWorkspaces ==
  \A w \in tables.workspace :
    Cardinality({u \in tables.users : w \in List(u.id)}) = 1

\* What a conversation lists was all written by members of its workspace,
\* whichever workspace their queries named (retrieval/handler.go:92-95).
TenantsApart ==
  \A row \in tables.conversations : \A m \in ListMessages(row.id) :
    IsMember(m.author, row.workspace)

\* What the UPDATE's CASE does (conversations/service.go:177-183), however turns
\* overlap: the title is that of the first committed message that is more than
\* spaces, a question or an answer, and no later turn changes it.  The function's
\* comment promises more: that is TitleOfTheFirst.
TitleOfTheFirstText ==
  \A c \in Ids :
    LET Says(j) == messages[j].conversation = c /\ deriveTitle(messages[j].content) # ""
    IN  \/ titles[c] = "" /\ \A j \in DOMAIN messages : ~Says(j)
        \/ \E j \in DOMAIN messages :
             /\ Says(j) /\ titles[c] = deriveTitle(messages[j].content)
             /\ \A k \in 1..(j - 1) : ~Says(k)

\* What AppendMessage's comment says: the title is derived "if this is the first
\* message the conversation has ever received", and that one "is always the
\* user's question" (conversations/service.go:143-148).  The code does not have
\* it: after a first question of spaces only, the answer gives the title.
TitleOfTheFirst ==
  \A j \in DOMAIN messages :
    (\A k \in 1..(j - 1) : messages[k].conversation # messages[j].conversation) =>
      titles[messages[j].conversation] = deriveTitle(messages[j].content)

\* However turns interleave, an answer is listed after the question of its turn.
AnswersFollowQuestions ==
  \A c \in Ids : \A n \in ListMessages(c) : n.role = "assistant" =>
    \E m \in ListMessages(c) : m.role = "user" /\ m.turn = n.turn /\ ListedBefore(m, n)

=============================================================================

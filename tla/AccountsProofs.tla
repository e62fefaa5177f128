--------------------------- MODULE AccountsProofs ---------------------------
(***************************************************************************)
(* The store of users, workspaces and conversations stays sound, for any   *)
(* number of browsers, subjects, addresses and overlapping requests.       *)
(***************************************************************************)
EXTENDS Accounts, FiniteSetTheorems, TLAPS

LEMMA Parameters ==
  /\ Browsers # {}
  /\ \E s, t \in Subjects : s # t
  /\ \E e, f \in Emails : e # f
  /\ SessionTTL \in Nat /\ MaxRequests \in Nat
BY AccountsAssumption, Zenon DEF AccountsAssumption

-----------------------------------------------------------------------------
(* The types.                                                               *)

\* The steps of a request; a login has a phase of its own.
LoginSteps == {"exchange", "password", "find", "insert user", "insert identity",
               "commit user"}
Steps == LoginSteps \cup
  {"idle", "over", "issue", "insert workspace", "insert membership", "commit workspace",
   "member", "insert conversation", "conversation", "retrieve", "append", "update",
   "generate"}

Tables == [users : SUBSET [id : Ids, email : Emails],
           user_identity : SUBSET [user : Ids, subject : Subjects],
           workspace : SUBSET Ids,
           user_workspace : SUBSET [user : Ids, workspace : Ids, role : {"owner"}],
           conversations : SUBSET [id : Ids, workspace : Ids]]

Text == Questions \cup Answers
Request == [pc : Steps, browser : Browsers, flow : Nat, subject : Subjects \cup {""},
            email : Emails \cup {""}, user : Ids \cup {0}, workspace : Ids \cup {0},
            conversation : Ids \cup {0}, streams : BOOLEAN, role : {"user", "assistant"},
            text : Text \cup {""}, at : Nat, tx : Tables]

Row == [conversation : Ids, role : {"user", "assistant"}, content : Text,
        created_at : Nat, turn : Numbers, author : Ids]

Session == [user : Ids \cup {0}, email : Emails \cup {""}, expires : Nat]

Typed ==
  /\ tables \in Tables
  /\ requests \in [Numbers -> Request]
  /\ titles \in [Ids -> {""} \cup (Text \ {Blank})]
  /\ messages \in Seq(Row)
  /\ stamps \in Nat /\ day \in Nat
  /\ claimed \in [Subjects -> Emails]
  /\ flows \in Seq([browser : Browsers, used : BOOLEAN])
  /\ cookies \in [Browsers -> [state : Nat, session : Session]]
  /\ \A b \in Browsers : cookies[b].state <= Len(flows)
  /\ person \in [Browsers -> [subject : Subjects \cup {""}, day : Nat]]

-----------------------------------------------------------------------------
(* The inductive invariant.  Where a request is tells what its transaction  *)
(* holds, which ids are still free for it, what it has been let through on, *)
(* and, of a turn, that its question is there when its answer comes.        *)

Holds(i) ==
  LET r == requests[i] IN
  /\ r.tx.users =
       IF r.pc \in {"insert identity", "commit user"} THEN {User(i, r.email)} ELSE {}
  /\ r.tx.user_identity = IF r.pc = "commit user" THEN {Identity(i, r.subject)} ELSE {}
  /\ r.tx.workspace =
       IF r.pc \in {"insert membership", "commit workspace"} THEN {i} ELSE {}
  /\ r.tx.user_workspace =
       IF r.pc = "commit workspace" THEN {Membership(r.user, i)} ELSE {}
  /\ r.tx.conversations = {}

\* No committed row has the id that a row of the request will have.
Fresh(i) ==
  LET pc == requests[i].pc IN
  /\ pc \in LoginSteps \cup {"idle"} =>
       /\ \A u \in tables.users : u.id # i
       /\ \A d \in tables.user_identity : d.user # i
  /\ pc \in {"idle", "insert workspace", "insert membership", "commit workspace"} =>
       /\ i \notin tables.workspace
       /\ \A m \in tables.user_workspace : m.workspace # i
  /\ pc \in {"idle", "member", "insert conversation"} =>
       \A c \in tables.conversations : c.id # i

\* What the request has read or locked is still so: rows are never deleted.
Entitled(i) ==
  LET r == requests[i] IN
  /\ r.pc = "idle" => r.user = 0
  /\ r.pc \in LoginSteps \ {"exchange", "password"} =>
       r.subject \in Subjects /\ r.email \in Emails
  /\ r.pc = "commit user" => \A d \in tables.user_identity : d.subject # r.subject
  /\ r.pc = "issue" => Identity(r.user, r.subject) \in tables.user_identity
  /\ r.pc = "commit workspace" => \E u \in tables.users : u.id = r.user
  /\ r.pc \in {"insert conversation", "conversation", "retrieve", "append", "update",
               "generate"} => IsMember(r.user, r.workspace)
  /\ r.pc \in {"retrieve", "append", "update", "generate"} =>
       ConversationIsIn(r.conversation, r.workspace)

\* The question of the turn is committed, with an earlier stamp.
Answering(i) ==
  \/ requests[i].pc = "generate"
  \/ requests[i].pc \in {"append", "update"} /\ requests[i].role = "assistant"

Asked(i) ==
  LET r == requests[i] IN
  /\ r.pc \in {"member", "conversation", "retrieve"} => r.role = "user"
  /\ r.pc = "member" => r.conversation = 0 \/ r.text \in Text
  /\ r.pc \in {"conversation", "retrieve", "append", "update"} => r.text \in Text
  /\ r.pc = "update" => r.at \in 1..stamps
  /\ Answering(i) =>
       \E k \in DOMAIN messages :
         /\ messages[k].role = "user" /\ messages[k].turn = i
         /\ messages[k].conversation = r.conversation
         /\ r.pc = "update" => messages[k].created_at < r.at

Fits(i) == Holds(i) /\ Fresh(i) /\ Entitled(i) /\ Asked(i)

\* Two requests that are about to commit a user are of two subjects.
Apart ==
  \A i, j \in Numbers :
    i # j /\ requests[i].pc = "commit user" /\ requests[j].pc = "commit user" =>
      requests[i].subject # requests[j].subject

\* The rows: ids are unique, and each row has the rows it needs beside it.
UserRows ==
  /\ \A u, v \in tables.users : u.id = v.id => u = v
  /\ \A u \in tables.users : \E d \in tables.user_identity : d.user = u.id
IdentityRows ==
  /\ \A d \in tables.user_identity : \E u \in tables.users : u.id = d.user
  /\ \A d, e \in tables.user_identity : d.user = e.user => d = e
  /\ \A d, e \in tables.user_identity : d.subject = e.subject => d = e
WorkspaceRows ==
  /\ \A w \in tables.workspace : \E m \in tables.user_workspace : m.workspace = w
  /\ \A m \in tables.user_workspace : \E u \in tables.users : u.id = m.user
  /\ \A m, n \in tables.user_workspace : m.workspace = n.workspace => m = n
ConversationRows == \A c, d \in tables.conversations : c.id = d.id => c = d

Rows == UserRows /\ IdentityRows /\ WorkspaceRows /\ ConversationRows

\* A session is of the user linked to the subject that logged in.
Sessions ==
  \A b \in Browsers : cookies[b].session # NoSession =>
    /\ Identity(cookies[b].session.user, person[b].subject) \in tables.user_identity
    /\ cookies[b].session.expires = person[b].day + SessionTTL

\* A message is by a member of its conversation's workspace, an answer after its
\* question.
Written ==
  \A j \in DOMAIN messages :
    LET m == messages[j] IN
    /\ m.created_at \in 1..stamps
    /\ \E c \in tables.conversations :
         c.id = m.conversation /\ IsMember(m.author, c.workspace)
    /\ m.role = "assistant" =>
         \E k \in DOMAIN messages :
           /\ messages[k].role = "user" /\ messages[k].turn = m.turn
           /\ messages[k].conversation = m.conversation
           /\ messages[k].created_at < m.created_at

Sound ==
  /\ Typed
  /\ \A i \in Numbers : Fits(i)
  /\ Apart /\ Rows /\ Sessions /\ Written /\ TitleOfTheFirstText
-----------------------------------------------------------------------------

LEMMA NumbersAreIds == Numbers \subseteq Ids /\ Ids \subseteq Nat /\ 0 \notin Ids
  BY DEF Numbers, Ids

LEMMA NoRowsTyped == NoRows \in Tables
  BY DEF NoRows, Tables

LEMMA IdleTyped == Idle \in Request /\ Over \in Request
<1>1. (CHOOSE b \in Browsers : TRUE) \in Browsers
  BY Parameters
<1>2. Idle \in Request
  BY <1>1, NoRowsTyped DEF Idle, Request, Steps
<1>3. "over" \in Steps
  BY DEF Steps
<1>4. [Idle EXCEPT !.pc = "over"] \in Request
  BY <1>2, <1>3, Zenon DEF Request
<1> QED
  BY <1>2, <1>4 DEF Over

LEMMA Pair == ASSUME NEW S, \E s, t \in S : s # t
              PROVE Two(S) \in [{1, 2} -> S] /\ Two(S)[1] # Two(S)[2]
<1>1. PICK s \in S, t \in S : s # t
  OBVIOUS
<1> DEFINE f == [k \in {1, 2} |-> IF k = 1 THEN s ELSE t]
<1>2. f \in [{1, 2} -> S]
  BY <1>1
<1>3. \E g \in [{1, 2} -> S] : g[1] # g[2]
  <2>1. 1 \in {1, 2} /\ 2 \in {1, 2} /\ 1 # 2
    OBVIOUS
  <2>2. f[1] = s /\ f[2] = t
    BY <2>1
  <2> QED
    BY <1>1, <1>2, <2>2
<1> QED
  BY <1>3 DEF Two

LEMMA CommittedIs ==
  ASSUME Typed, NEW i \in Numbers
  PROVE  /\ Committed(i) \in Tables
         /\ Committed(i).users = tables.users \cup requests[i].tx.users
         /\ Committed(i).user_identity
              = tables.user_identity \cup requests[i].tx.user_identity
         /\ Committed(i).workspace = tables.workspace \cup requests[i].tx.workspace
         /\ Committed(i).user_workspace
              = tables.user_workspace \cup requests[i].tx.user_workspace
         /\ Committed(i).conversations
              = tables.conversations \cup requests[i].tx.conversations
<1>1. tables \in Tables /\ requests[i].tx \in Tables
  BY DEF Typed, Request
<1>2. DOMAIN tables
        = {"users", "user_identity", "workspace", "user_workspace", "conversations"}
  BY <1>1 DEF Tables
<1> QED
  BY <1>1, <1>2 DEF Tables, Committed

LEMMA InitSound == Init => Sound
<1> SUFFICES ASSUME Init PROVE Sound
  OBVIOUS
<1> DEFINE who == Two(Subjects)
           address == Two(Emails)
           first == CHOOSE b \in Browsers : TRUE
           at == [b \in Browsers |-> IF b = first THEN 1 ELSE 2]
<1>1. /\ who \in [{1, 2} -> Subjects] /\ who[1] # who[2]
      /\ address \in [{1, 2} -> Emails] /\ address[1] # address[2]
  BY Parameters, Pair
<1>2. \A b \in Browsers : at[b] \in {1, 2}
  OBVIOUS
<1>3. 1 \in Ids /\ 2 \in Ids /\ 1 \notin Numbers /\ 2 \notin Numbers
  <2>1. MaxRequests \in Nat
    BY Parameters
  <2> QED
    BY ONLY <2>1 DEF Ids, Numbers
<1>4. /\ messages = <<>> /\ stamps = 0 /\ day = 0 /\ flows = <<>>
      /\ requests = [i \in Numbers |-> Idle]
  BY DEF Init
<1>5. titles = [c \in Ids |-> ""] /\ claimed \in [Subjects -> Emails]
  BY <1>1 DEF Init
<1> DEFINE New == /\ tables = NoRows
                  /\ cookies = [b \in Browsers |-> [state |-> 0, session |-> NoSession]]
                  /\ person = [b \in Browsers |-> [subject |-> "", day |-> 0]]
           Old == /\ tables = [users |-> {User(i, address[i]) : i \in Before},
                               user_identity |-> {Identity(i, who[i]) : i \in Before},
                               workspace |-> Before,
                               user_workspace |-> {Membership(i, i) : i \in Before},
                               conversations |-> {Conversation(i, i) : i \in Before}]
                  /\ cookies = [b \in Browsers |-> [state |-> 0, session |->
                       [user |-> at[b], email |-> address[at[b]], expires |-> SessionTTL]]]
                  /\ person = [b \in Browsers |-> [subject |-> who[at[b]], day |-> 0]]
<1>6. New \/ Old
  BY DEF Init
<1> HIDE DEF who, address, at
<1>7. /\ \A u \in tables.users : u.id \in Before
      /\ \A d \in tables.user_identity : d.user \in Before
      /\ \A w \in tables.workspace : w \in Before
      /\ \A m \in tables.user_workspace : m.workspace \in Before
      /\ \A c \in tables.conversations : c.id \in Before
  <2>1. CASE New
    BY <2>1 DEF NoRows
  <2>2. CASE Old
    BY <2>2 DEF User, Identity, Membership, Conversation
  <2> QED
    BY <1>6, <2>1, <2>2
<1>8. tables \in Tables /\ Rows
  <2>1. CASE New
    BY <2>1, NoRowsTyped
       DEF NoRows, Rows, UserRows, IdentityRows, WorkspaceRows, ConversationRows
  <2>2. CASE Old
    <3>1. /\ tables.users = {User(1, address[1]), User(2, address[2])}
          /\ tables.user_identity = {Identity(1, who[1]), Identity(2, who[2])}
          /\ tables.workspace = {1, 2}
          /\ tables.user_workspace = {Membership(1, 1), Membership(2, 2)}
          /\ tables.conversations = {Conversation(1, 1), Conversation(2, 2)}
      BY <2>2 DEF Before
    <3>2. tables \in Tables
      BY <1>1, <1>3, <2>2 DEF Tables, User, Identity, Membership, Conversation, Before
    <3>3. Rows
      BY <1>1, <3>1 DEF Rows, UserRows, IdentityRows, WorkspaceRows, ConversationRows,
                        User, Identity, Membership, Conversation
    <3> QED
      BY <3>2, <3>3
  <2> QED
    BY <1>6, <2>1, <2>2
<1>9. /\ cookies \in [Browsers -> [state : Nat, session : Session]]
      /\ \A b \in Browsers : cookies[b].state = 0
      /\ person \in [Browsers -> [subject : Subjects \cup {""}, day : Nat]]
      /\ Sessions
  <2>1. CASE New
    <3>1. NoSession \in Session
      BY DEF NoSession, Session
    <3>2. \A b \in Browsers : cookies[b].session = NoSession
      BY <2>1
    <3> QED
      BY <2>1, <3>1, <3>2 DEF Sessions
  <2>2. CASE Old
    <3>1. ASSUME NEW b \in Browsers
          PROVE  /\ [user |-> at[b], email |-> address[at[b]], expires |-> SessionTTL]
                      \in Session
                 /\ who[at[b]] \in Subjects
                 /\ Identity(at[b], who[at[b]]) \in tables.user_identity
      <4>1. at[b] \in Before /\ at[b] \in Ids
        BY <1>2, <1>3 DEF Before
      <4>2. address[at[b]] \in Emails /\ who[at[b]] \in Subjects
        BY <1>1, <1>2
      <4>3. tables.user_identity = {Identity(i, who[i]) : i \in Before}
        BY <2>2
      <4> QED
        BY <4>1, <4>2, <4>3, Parameters DEF Session
    <3>2. \A b \in Browsers : /\ cookies[b].session.user = at[b]
                              /\ cookies[b].session.expires = SessionTTL
                              /\ person[b].subject = who[at[b]] /\ person[b].day = 0
      BY <2>2
    <3>3. Sessions
      <4>1. 0 + SessionTTL = SessionTTL
        BY Parameters
      <4>2. ASSUME NEW b \in Browsers
            PROVE  /\ Identity(cookies[b].session.user, person[b].subject)
                        \in tables.user_identity
                   /\ cookies[b].session.expires = person[b].day + SessionTTL
        BY <3>1, <3>2, <4>1
      <4> QED
        BY <4>2 DEF Sessions
    <3>4. \A b \in Browsers :
            [state |-> 0, session |->
               [user |-> at[b], email |-> address[at[b]], expires |-> SessionTTL]]
              \in [state : Nat, session : Session]
      BY <3>1
    <3>5. cookies \in [Browsers -> [state : Nat, session : Session]]
      BY <2>2, <3>4
    <3>6. person \in [Browsers -> [subject : Subjects \cup {""}, day : Nat]]
      BY <2>2, <3>1
    <3> QED
      BY <2>2, <3>3, <3>5, <3>6
  <2> QED
    BY <1>6, <2>1, <2>2
<1> HIDE DEF New, Old
<1>10. Typed
  <2>1. requests \in [Numbers -> Request]
    BY <1>4, IdleTyped
  <2>2. titles \in [Ids -> {""} \cup (Text \ {Blank})]
    BY <1>5
  <2>3. messages \in Seq(Row) /\ flows \in Seq([browser : Browsers, used : BOOLEAN])
    BY <1>4
  <2>4. stamps \in Nat /\ day \in Nat
    BY <1>4
  <2>5. \A b \in Browsers : cookies[b].state <= Len(flows)
    <3>1. Len(flows) = 0 /\ 0 <= 0
      BY <1>4
    <3> QED
      BY <1>9, <3>1
  <2> QED
    BY <1>5, <1>8, <1>9, <2>1, <2>2, <2>3, <2>4, <2>5 DEF Typed
<1>11. ASSUME NEW i \in Numbers PROVE Fits(i)
  <2>1. requests[i].pc = "idle" /\ requests[i].user = 0 /\ requests[i].tx = NoRows
    BY <1>4 DEF Idle
  <2>2. Holds(i)
    BY <2>1 DEF Holds, NoRows
  <2>3. i \notin Before
    BY <1>3 DEF Before
  <2>4. Fresh(i)
    BY <1>7, <2>3 DEF Fresh
  <2>5. Entitled(i)
    BY <2>1 DEF Entitled, LoginSteps
  <2>6. Asked(i)
    BY <2>1 DEF Asked, Answering
  <2> QED
    BY <2>2, <2>4, <2>5, <2>6 DEF Fits
<1>12. Apart
  BY <1>4 DEF Apart, Idle
<1>13. Written /\ TitleOfTheFirstText
  <2>1. DOMAIN messages = {}
    BY <1>4
  <2>2. \A c \in Ids : titles[c] = ""
    BY <1>5
  <2> QED
    BY <2>1, <2>2 DEF Written, TitleOfTheFirstText
<1> QED
  BY <1>8, <1>9, <1>10, <1>11, <1>12, <1>13 DEF Sound

-----------------------------------------------------------------------------
(* What a request's step may do to the store: add rows that have its number *)
(* and a message after the others.  What the other requests rely on stays.  *)

Grows(i) ==
  /\ tables.users \subseteq tables'.users
  /\ \A u \in tables'.users \ tables.users : u.id = i
  /\ tables.user_identity \subseteq tables'.user_identity
  /\ \A d \in tables'.user_identity \ tables.user_identity : d.user = i
  /\ tables.workspace \subseteq tables'.workspace
  /\ \A w \in tables'.workspace \ tables.workspace : w = i
  /\ tables.user_workspace \subseteq tables'.user_workspace
  /\ \A m \in tables'.user_workspace \ tables.user_workspace : m.workspace = i
  /\ tables.conversations \subseteq tables'.conversations
  /\ \A c \in tables'.conversations \ tables.conversations : c.id = i
  /\ \A k \in DOMAIN messages : k \in DOMAIN messages' /\ messages'[k] = messages[k]
  /\ stamps <= stamps'

\* The subject that another request is about to commit stays free.
LeavesSubjects(i) ==
  \A j \in Numbers \ {i} : requests[j].pc = "commit user" =>
    /\ requests'[i].pc = "commit user" => requests'[i].subject # requests[j].subject
    /\ \A d \in tables'.user_identity \ tables.user_identity :
         d.subject # requests[j].subject

LEMMA OthersFit ==
  ASSUME NEW i \in Numbers, NEW j \in Numbers, i # j, Typed, Typed', Fits(j), Grows(i),
         LeavesSubjects(i), requests'[j] = requests[j]
  PROVE  Fits(j)'
<1>1. Holds(j)'
  BY DEF Fits, Holds
<1>2. Fresh(j)'
  BY DEF Fits, Fresh, Grows
<1>3. Entitled(j)'
  <2>1. \A u, w : IsMember(u, w) => IsMember(u, w)'
    BY DEF IsMember, Grows
  <2>2. \A c, w : ConversationIsIn(c, w) => ConversationIsIn(c, w)'
    BY DEF ConversationIsIn, Grows
  <2> QED
    BY <2>1, <2>2 DEF Fits, Entitled, Grows, LeavesSubjects
<1>4. Asked(j)'
  <2>1. stamps \in Nat /\ stamps' \in Nat
    BY DEF Typed
  <2> QED
    BY <2>1 DEF Fits, Asked, Answering, Grows
<1> QED
  BY <1>1, <1>2, <1>3, <1>4 DEF Fits

LEMMA AllFit ==
  ASSUME Sound, NEW i \in Numbers, Typed', Fits(i)', Grows(i), LeavesSubjects(i),
         \A j \in Numbers \ {i} : requests'[j] = requests[j]
  PROVE  (\A j \in Numbers : Fits(j))' /\ Apart'
<1>1. ASSUME NEW j \in Numbers PROVE Fits(j)'
  <2>1. CASE j = i
    BY <2>1
  <2>2. CASE j # i
    BY <2>2, OthersFit DEF Sound
  <2> QED
    BY <2>1, <2>2
<1>2. Apart'
  <2>1. /\ \A j, k \in Numbers :
             j # k /\ requests[j].pc = "commit user" /\ requests[k].pc = "commit user" =>
               requests[j].subject # requests[k].subject
        /\ \A j \in Numbers \ {i} :
             requests[j].pc = "commit user" /\ requests'[i].pc = "commit user" =>
               requests'[i].subject # requests[j].subject
        /\ \A j \in Numbers \ {i} : requests'[j] = requests[j]
    BY DEF Sound, Apart, LeavesSubjects
  <2>2. ASSUME NEW j \in Numbers, NEW k \in Numbers, j # k,
               requests'[j].pc = "commit user", requests'[k].pc = "commit user"
        PROVE  requests'[j].subject # requests'[k].subject
    <3>1. CASE j # i /\ k # i
      BY <2>1, <2>2, <3>1
    <3>2. CASE j = i
      BY <2>1, <2>2, <3>2
    <3>3. CASE k = i
      BY <2>1, <2>2, <3>3
    <3> QED
      BY <3>1, <3>2, <3>3
  <2> QED
    BY ONLY <2>2 DEF Apart
<1> QED
  BY <1>1, <1>2

LEMMA TitlesStay ==
  ASSUME TitleOfTheFirstText, UNCHANGED <<titles, messages>>
  PROVE  TitleOfTheFirstText'
<1>1. ASSUME NEW d \in Ids
      PROVE  LET Says(j) == /\ messages'[j].conversation = d
                            /\ deriveTitle(messages'[j].content) # ""
             IN  \/ titles'[d] = "" /\ \A j \in DOMAIN messages' : ~Says(j)
                 \/ \E j \in DOMAIN messages' :
                      /\ Says(j) /\ titles'[d] = deriveTitle(messages'[j].content)
                      /\ \A k \in 1..(j - 1) : ~Says(k)
  <2>1. messages' = messages /\ titles' = titles
    OBVIOUS
  <2> DEFINE Said(j) == /\ messages[j].conversation = d
                        /\ deriveTitle(messages[j].content) # ""
  <2>2. \/ titles[d] = "" /\ \A j \in DOMAIN messages : ~Said(j)
        \/ \E j \in DOMAIN messages :
             /\ Said(j) /\ titles[d] = deriveTitle(messages[j].content)
             /\ \A k \in 1..(j - 1) : ~Said(k)
    BY DEF TitleOfTheFirstText
  <2> QED
    BY <2>1, <2>2
<1> QED
  BY <1>1 DEF TitleOfTheFirstText

\* A step of a request that commits nothing.
LEMMA StaySound ==
  ASSUME Sound, NEW i \in Numbers, Typed', Fits(i)', LeavesSubjects(i),
         UNCHANGED <<tables, titles, messages, cookies, person>>, stamps <= stamps',
         \A j \in Numbers \ {i} : requests'[j] = requests[j]
  PROVE  Sound'
<1>1. Grows(i)
  BY DEF Grows
<1>2. (\A j \in Numbers : Fits(j))' /\ Apart'
  BY <1>1, AllFit
<1>3. Rows' /\ Sessions'
  BY DEF Sound, Rows, UserRows, IdentityRows, WorkspaceRows, ConversationRows, Sessions
<1>4. TitleOfTheFirstText'
  BY TitlesStay DEF Sound
<1>5. Written'
  <2>1. stamps \in Nat /\ stamps' \in Nat
    BY DEF Sound, Typed
  <2> QED
    BY <2>1 DEF Sound, Written, IsMember
<1> QED
  BY <1>2, <1>3, <1>4, <1>5 DEF Sound
-----------------------------------------------------------------------------
(* How a request's record changes.                                          *)

LEMMA RequestIs ==
  ASSUME Typed, NEW i \in Numbers, NEW r \in Request, requests' = [requests EXCEPT ![i] = r]
  PROVE  /\ requests' \in [Numbers -> Request]
         /\ requests'[i] = r
         /\ \A j \in Numbers \ {i} : requests'[j] = requests[j]
  BY DEF Typed

LEMMA GotoIs ==
  ASSUME Typed, NEW i \in Numbers, NEW step \in Steps, Goto(i, step)
  PROVE  /\ requests' \in [Numbers -> Request]
         /\ requests'[i] = [requests[i] EXCEPT !.pc = step]
         /\ \A j \in Numbers \ {i} : requests'[j] = requests[j]
<1>1. requests[i] \in Request
  BY DEF Typed
<1>2. [requests[i] EXCEPT !.pc = step] \in Request
  BY <1>1, Zenon DEF Request
<1>3. requests' = [requests EXCEPT ![i] = [requests[i] EXCEPT !.pc = step]]
  BY DEF Goto
<1> QED
  BY <1>2, <1>3, RequestIs

LEMMA EndIs ==
  ASSUME Typed, NEW i \in Numbers, End(i)
  PROVE  /\ requests' \in [Numbers -> Request]
         /\ requests'[i] = Over
         /\ \A j \in Numbers \ {i} : requests'[j] = requests[j]
  BY IdleTyped, RequestIs DEF End

LEMMA OverFits == ASSUME NEW i \in Numbers, requests'[i] = Over
                  PROVE  Fits(i)' /\ requests'[i].pc = "over"
<1>1. requests'[i].pc = "over" /\ requests'[i].tx = NoRows
  BY DEF Over, Idle
<1>2. Holds(i)'
  BY <1>1 DEF Holds, NoRows
<1>3. Fresh(i)' /\ Entitled(i)' /\ Asked(i)'
  BY <1>1 DEF Fresh, Entitled, Asked, Answering, LoginSteps
<1> QED
  BY <1>1, <1>2, <1>3 DEF Fits

LEMMA StampsStay == ASSUME Typed, UNCHANGED stamps PROVE stamps <= stamps'
<1>1. stamps \in Nat
  BY DEF Typed
<1> QED
  BY <1>1

LEMMA BrowsingStays ==
  ASSUME UNCHANGED browsing
  PROVE  UNCHANGED <<day, claimed, flows, cookies, person>>
  BY Zenon DEF browsing

\* The part of the types that a request's steps touch.
LEMMA StepTyped ==
  ASSUME Typed, requests' \in [Numbers -> Request], tables' \in Tables,
         titles' \in [Ids -> {""} \cup (Text \ {Blank})], messages' \in Seq(Row),
         stamps' \in Nat, UNCHANGED browsing
  PROVE  Typed'
  BY DEF Typed, browsing

\* A request goes one step on, or is over, and nothing else happens.
LEMMA GotoSound ==
  ASSUME Sound, NEW i \in Numbers, NEW step \in Steps, Goto(i, step), step # "commit user",
         UNCHANGED <<tables, titles, messages, stamps, browsing>>, Fits(i)'
  PROVE  Sound'
<1>1. Typed
  BY DEF Sound
<1>2. /\ requests' \in [Numbers -> Request]
      /\ requests'[i] = [requests[i] EXCEPT !.pc = step]
      /\ \A j \in Numbers \ {i} : requests'[j] = requests[j]
  BY <1>1, GotoIs
<1>3. Typed'
  BY <1>1, <1>2 DEF Typed, browsing
<1>4. requests'[i].pc = step
  <2>1. requests[i] \in Request
    BY <1>1 DEF Typed
  <2> QED
    BY <1>2, <2>1 DEF Request
<1>5. LeavesSubjects(i)
  BY <1>4 DEF LeavesSubjects
<1>6. stamps <= stamps' /\ UNCHANGED <<cookies, person>>
  BY <1>1, StampsStay, BrowsingStays
<1> QED
  BY <1>2, <1>3, <1>5, <1>6, StaySound

LEMMA EndSound ==
  ASSUME Sound, NEW i \in Numbers, End(i),
         UNCHANGED <<tables, titles, messages, stamps, browsing>>
  PROVE  Sound'
<1>1. Typed
  BY DEF Sound
<1>2. /\ requests' \in [Numbers -> Request] /\ requests'[i] = Over
      /\ \A j \in Numbers \ {i} : requests'[j] = requests[j]
  BY <1>1, EndIs
<1>3. Typed'
  BY <1>1, <1>2 DEF Typed, browsing
<1>4. Fits(i)' /\ LeavesSubjects(i)
  BY <1>2, OverFits DEF LeavesSubjects
<1>5. stamps <= stamps' /\ UNCHANGED <<cookies, person>>
  BY <1>1, StampsStay, BrowsingStays
<1> QED
  BY <1>2, <1>3, <1>4, <1>5, StaySound

-----------------------------------------------------------------------------
(* Steps that only read the store.                                          *)

LEMMA EnsureMemberSound ==
  ASSUME Sound, NEW i \in Numbers,
         EnsureMember(i, IF requests[i].conversation = 0 THEN "insert conversation"
                         ELSE "conversation")
  PROVE  Sound'
<1> DEFINE step == IF requests[i].conversation = 0 THEN "insert conversation"
                   ELSE "conversation"
<1>1. CASE End(i)
  BY <1>1, EndSound DEF EnsureMember, store
<1>2. CASE Goto(i, step) /\ IsMember(requests[i].user, requests[i].workspace)
  <2>1. step \in Steps /\ step # "commit user"
    BY DEF Steps
  <2>2. requests'[i] = [requests[i] EXCEPT !.pc = step] /\ requests[i] \in Request
    BY <1>2, <2>1, GotoIs DEF Sound, Typed
  <2>3. /\ requests'[i].pc = step
        /\ requests'[i].tx = requests[i].tx /\ requests'[i].user = requests[i].user
        /\ requests'[i].workspace = requests[i].workspace
        /\ requests'[i].text = requests[i].text /\ requests'[i].role = requests[i].role
        /\ requests'[i].conversation = requests[i].conversation
        /\ requests[i].pc = "member"
    BY <2>2 DEF Request, EnsureMember, At
  <2>4. Fits(i) /\ UNCHANGED tables
    BY DEF Sound, EnsureMember, store
  <2>5. Fits(i)'
    BY <1>2, <2>3, <2>4
       DEF Fits, Holds, Fresh, Entitled, Asked, Answering, IsMember, LoginSteps
  <2> QED
    BY <1>2, <2>1, <2>5, GotoSound DEF EnsureMember, store
<1> QED
  BY <1>1, <1>2 DEF EnsureMember
LEMMA ConversationSound ==
  ASSUME Sound, NEW i \in Numbers, ensureConversationInWorkspace(i)
  PROVE  Sound'
<1>1. CASE End(i)
  BY <1>1, EndSound DEF ensureConversationInWorkspace, store
<1>2. CASE /\ Goto(i, "retrieve")
           /\ ConversationIsIn(requests[i].conversation, requests[i].workspace)
  <2>1. "retrieve" \in Steps
    BY DEF Steps
  <2>2. requests'[i] = [requests[i] EXCEPT !.pc = "retrieve"] /\ requests[i] \in Request
    BY <1>2, <2>1, GotoIs DEF Sound, Typed
  <2>3. /\ requests'[i].pc = "retrieve"
        /\ requests'[i].tx = requests[i].tx /\ requests'[i].user = requests[i].user
        /\ requests'[i].workspace = requests[i].workspace
        /\ requests'[i].text = requests[i].text /\ requests'[i].role = requests[i].role
        /\ requests'[i].conversation = requests[i].conversation
        /\ requests[i].pc = "conversation"
    BY <2>2 DEF Request, ensureConversationInWorkspace, At
  <2>4. Fits(i) /\ UNCHANGED tables
    BY DEF Sound, ensureConversationInWorkspace, store
  <2>5. Fits(i)'
    BY <1>2, <2>3, <2>4
       DEF Fits, Holds, Fresh, Entitled, Asked, Answering, IsMember, ConversationIsIn,
           LoginSteps
  <2> QED
    BY <1>2, <2>1, <2>5, GotoSound DEF ensureConversationInWorkspace, store
<1> QED
  BY <1>1, <1>2 DEF ensureConversationInWorkspace

LEMMA RetrieveSound ==
  ASSUME Sound, NEW i \in Numbers, Retrieve(i)
  PROVE  Sound'
<1>1. "append" \in Steps /\ Goto(i, "append") /\ requests[i].pc = "retrieve"
  BY DEF Steps, Retrieve, At
<1>2. requests'[i] = [requests[i] EXCEPT !.pc = "append"] /\ requests[i] \in Request
  BY <1>1, GotoIs DEF Sound, Typed
<1>3. /\ requests'[i].pc = "append"
      /\ requests'[i].tx = requests[i].tx /\ requests'[i].user = requests[i].user
      /\ requests'[i].workspace = requests[i].workspace
      /\ requests'[i].text = requests[i].text /\ requests'[i].role = requests[i].role
      /\ requests'[i].conversation = requests[i].conversation
  BY <1>2 DEF Request
<1>4. Fits(i) /\ UNCHANGED <<tables, messages>>
  BY DEF Sound, Retrieve, store
<1>5. Fits(i)'
  BY <1>1, <1>3, <1>4
     DEF Fits, Holds, Fresh, Entitled, Asked, Answering, IsMember, ConversationIsIn,
         LoginSteps
<1> QED
  BY <1>1, <1>5, GotoSound DEF Retrieve, store

-----------------------------------------------------------------------------
(* Logins up to their commit.                                               *)

LEMMA ExchangeSound ==
  ASSUME Sound, NEW i \in Numbers, Exchange(i)
  PROVE  Sound'
<1>1. PICK s \in Subjects :
        requests' = [requests EXCEPT ![i].pc = "find", ![i].subject = s,
                                     ![i].email = claimed[s]]
  BY DEF Exchange
<1> DEFINE r == [requests[i] EXCEPT !.pc = "find", !.subject = s, !.email = claimed[s]]
<1>2. requests[i] \in Request /\ Typed
  BY DEF Sound, Typed
<1>3. claimed[s] \in Emails /\ "find" \in Steps
  <2>1. claimed \in [Subjects -> Emails]
    BY <1>2 DEF Typed
  <2> QED
    BY <2>1 DEF Steps, LoginSteps
<1>4. r \in Request
  BY <1>2, <1>3, Zenon DEF Request
<1>5. requests' = [requests EXCEPT ![i] = r]
  BY <1>1
<1>6. /\ requests' \in [Numbers -> Request] /\ requests'[i] = r
      /\ \A j \in Numbers \ {i} : requests'[j] = requests[j]
  BY <1>2, <1>4, <1>5, RequestIs
<1>7. r.pc = "find" /\ r.subject = s /\ r.email = claimed[s] /\ r.tx = requests[i].tx
  BY <1>2 DEF Request
<1> HIDE DEF r
<1>8. Fits(i)'
  <2>1. requests[i].pc \in {"exchange", "password"} /\ UNCHANGED tables /\ Fits(i)
    BY DEF Exchange, At, store, Sound
  <2> QED
    BY <1>3, <1>6, <1>7, <2>1
       DEF Fits, Holds, Fresh, Entitled, Asked, Answering, LoginSteps
<1>9. Typed'
  <2> DEFINE Flow == [browser : Browsers, used : BOOLEAN]
             f == requests[i].flow
  <2>1. flows \in Seq(Flow) /\ f \in Nat
    BY <1>2 DEF Typed, Request
  <2> DEFINE after == [flows EXCEPT ![f].used = TRUE]
  <2>2. after \in [1..Len(flows) -> Flow]
    <3> HIDE DEF Flow
    <3>1. flows \in [1..Len(flows) -> Flow]
      BY <2>1
    <3>2. \A k \in 1..Len(flows) : [flows[k] EXCEPT !.used = TRUE] \in Flow
      BY <3>1 DEF Flow
    <3> QED
      BY <3>1, <3>2
  <2>3. after \in Seq(Flow) /\ Len(after) = Len(flows)
    BY <2>1, <2>2
  <2>4. flows' \in {flows, [flows EXCEPT ![f].used = TRUE]}
    BY DEF Exchange
  <2>5. flows' \in Seq(Flow) /\ Len(flows') = Len(flows)
    BY <2>1, <2>3, <2>4
  <2> QED
    BY <1>2, <1>6, <2>5 DEF Exchange, Typed, store
<1>10. LeavesSubjects(i) /\ UNCHANGED <<tables, titles, messages, stamps, cookies, person>>
  BY <1>6, <1>7 DEF LeavesSubjects, Exchange, store
<1>11. stamps <= stamps'
  BY <1>2, <1>10, StampsStay
<1> QED
  BY <1>6, <1>8, <1>9, <1>10, <1>11, StaySound

LEMMA resolveUserSound ==
  ASSUME Sound, NEW i \in Numbers, resolveUser(i)
  PROVE  Sound'
<1>1. requests[i] \in Request /\ Typed /\ requests[i].pc = "find" /\ Fits(i)
  BY DEF Sound, Typed, resolveUser, At
<1>2. UNCHANGED <<tables, titles, messages, stamps, browsing>>
  BY DEF resolveUser, store
<1>3. CASE Goto(i, "insert user")
  <2>1. "insert user" \in Steps
    BY DEF Steps, LoginSteps
  <2>2. requests'[i] = [requests[i] EXCEPT !.pc = "insert user"]
    BY <1>1, <1>3, <2>1, GotoIs
  <2>3. /\ requests'[i].pc = "insert user" /\ requests'[i].tx = requests[i].tx
        /\ requests'[i].subject = requests[i].subject
        /\ requests'[i].email = requests[i].email
    BY <1>1, <2>2 DEF Request
  <2>4. Fits(i)'
    BY <1>1, <1>2, <2>3 DEF Fits, Holds, Fresh, Entitled, Asked, Answering, LoginSteps
  <2> QED
    BY <1>2, <1>3, <2>1, <2>4, GotoSound
<1>4. CASE \E u \in Linked(requests[i].subject) :
             requests' = [requests EXCEPT ![i].pc = "issue", ![i].user = u.id,
                                          ![i].email = u.email]
  <2>1. PICK u \in Linked(requests[i].subject) :
          requests' = [requests EXCEPT ![i].pc = "issue", ![i].user = u.id,
                                       ![i].email = u.email]
    BY <1>4
  <2> DEFINE r == [requests[i] EXCEPT !.pc = "issue", !.user = u.id, !.email = u.email]
  <2>2. /\ u \in tables.users
        /\ Identity(u.id, requests[i].subject) \in tables.user_identity
    BY DEF Linked
  <2>3. u.id \in Ids /\ u.email \in Emails /\ "issue" \in Steps
    BY <1>1, <2>2 DEF Typed, Tables, Steps
  <2>4. r \in Request
    BY <1>1, <2>3, Zenon DEF Request
  <2>5. requests' = [requests EXCEPT ![i] = r]
    BY <2>1
  <2>6. /\ requests' \in [Numbers -> Request] /\ requests'[i] = r
        /\ \A j \in Numbers \ {i} : requests'[j] = requests[j]
    BY <1>1, <2>4, <2>5, RequestIs
  <2>7. /\ r.pc = "issue" /\ r.user = u.id /\ r.subject = requests[i].subject
        /\ r.tx = requests[i].tx
    BY <1>1 DEF Request
  <2> HIDE DEF r
  <2>8. Fits(i)'
    BY <1>1, <1>2, <2>2, <2>6, <2>7
       DEF Fits, Holds, Fresh, Entitled, Asked, Answering, LoginSteps
  <2>9. Typed'
    BY <1>1, <1>2, <2>6 DEF Typed, browsing
  <2>10. LeavesSubjects(i)
    BY <1>2, <2>6, <2>7 DEF LeavesSubjects
  <2>11. stamps <= stamps' /\ UNCHANGED <<cookies, person>>
    BY <1>1, <1>2, StampsStay, BrowsingStays
  <2> QED
    BY <1>2, <2>6, <2>8, <2>9, <2>10, <2>11, StaySound
<1> QED
  BY <1>3, <1>4 DEF resolveUser
\* An INSERT inside a transaction.
LEMMA InsertIs ==
  ASSUME Typed, NEW i \in Numbers, NEW table, NEW row, NEW step \in Steps,
         Insert(i, table, row, step),
         [requests[i].tx EXCEPT ![table] = @ \cup {row}] \in Tables
  PROVE  /\ UNCHANGED tables
         /\ requests' \in [Numbers -> Request]
         /\ requests'[i] = [requests[i] EXCEPT !.pc = step,
                              !.tx = [requests[i].tx EXCEPT ![table] = @ \cup {row}]]
         /\ \A j \in Numbers \ {i} : requests'[j] = requests[j]
<1> DEFINE held == [requests[i].tx EXCEPT ![table] = @ \cup {row}]
           r == [requests[i] EXCEPT !.pc = step, !.tx = held]
<1>1. requests[i] \in Request
  BY DEF Typed
<1>2. r \in Request
  <2> HIDE DEF held
  <2>1. held \in Tables
    BY DEF held
  <2> QED
    BY <1>1, <2>1, Zenon DEF Request
<1>3. requests' = [requests EXCEPT ![i] = r]
  BY <1>1 DEF Insert, Request
<1>4. UNCHANGED tables
  BY DEF Insert
<1> QED
  BY <1>2, <1>3, <1>4, RequestIs

LEMMA InsertUserSound ==
  ASSUME Sound, NEW i \in Numbers, At(i, "insert user"),
         Insert(i, "users", User(i, requests[i].email), "insert identity"),
         UNCHANGED <<titles, messages, stamps, browsing>>
  PROVE  Sound'
<1> DEFINE u == User(i, requests[i].email)
           held == [requests[i].tx EXCEPT !.users = @ \cup {u}]
<1>1. /\ requests[i] \in Request /\ Typed /\ requests[i].pc = "insert user" /\ Fits(i)
      /\ requests[i].tx \in Tables
  BY DEF Sound, Typed, At, Request
<1>2. requests[i].email \in Emails /\ requests[i].tx.users = {} /\ i \in Ids
  BY <1>1, NumbersAreIds DEF Fits, Entitled, Holds, LoginSteps
<1>3. /\ held \in Tables /\ held.users = {u}
      /\ held.user_identity = requests[i].tx.user_identity
      /\ held.workspace = requests[i].tx.workspace
      /\ held.user_workspace = requests[i].tx.user_workspace
      /\ held.conversations = requests[i].tx.conversations
  <2>1. u \in [id : Ids, email : Emails]
    BY <1>2 DEF User
  <2> HIDE DEF u
  <2> QED
    BY <1>1, <1>2, <2>1 DEF Tables
<1>4. "insert identity" \in Steps
  BY DEF Steps, LoginSteps
<1>5. /\ UNCHANGED tables
      /\ requests' \in [Numbers -> Request]
      /\ requests'[i] = [requests[i] EXCEPT !.pc = "insert identity", !.tx = held]
      /\ \A j \in Numbers \ {i} : requests'[j] = requests[j]
  BY <1>1, <1>3, <1>4, InsertIs
<1> HIDE DEF held
<1>6. /\ requests'[i].pc = "insert identity" /\ requests'[i].tx = held
      /\ requests'[i].email = requests[i].email
      /\ requests'[i].subject = requests[i].subject
  BY <1>1, <1>5 DEF Request
<1>7. Fits(i)'
  <2>1. Holds(i)'
    BY <1>1, <1>3, <1>6 DEF Fits, Holds
  <2>2. Fresh(i)' /\ Entitled(i)'
    BY <1>1, <1>5, <1>6 DEF Fits, Fresh, Entitled, LoginSteps
  <2>3. Asked(i)'
    BY <1>6 DEF Asked, Answering
  <2> QED
    BY <2>1, <2>2, <2>3 DEF Fits
<1>8. Typed'
  BY <1>1, <1>5 DEF Typed, browsing
<1>9. LeavesSubjects(i)
  BY <1>5, <1>6 DEF LeavesSubjects
<1>10. stamps <= stamps' /\ UNCHANGED <<cookies, person>>
  BY <1>1, StampsStay, BrowsingStays
<1> QED
  BY <1>5, <1>7, <1>8, <1>9, <1>10, StaySound

\* The identity waits for another that holds its subject, and fails if a row has
\* it: no two requests are about to commit the same subject.
LEMMA InsertIdentitySound ==
  ASSUME Sound, NEW i \in Numbers, At(i, "insert identity"),
         \A j \in Begun \ {i} : \A d \in requests[j].tx.user_identity :
           d.subject # requests[i].subject,
         \A d \in tables.user_identity : d.subject # requests[i].subject,
         Insert(i, "user_identity", Identity(i, requests[i].subject), "commit user"),
         UNCHANGED <<titles, messages, stamps, browsing>>
  PROVE  Sound'
<1> DEFINE d == Identity(i, requests[i].subject)
           held == [requests[i].tx EXCEPT !.user_identity = @ \cup {d}]
<1>1. /\ requests[i] \in Request /\ Typed /\ requests[i].pc = "insert identity"
      /\ requests[i].tx \in Tables /\ Fits(i)
  BY DEF Sound, Typed, At, Request
<1>2. requests[i].subject \in Subjects /\ requests[i].tx.user_identity = {} /\ i \in Ids
  BY <1>1, NumbersAreIds DEF Fits, Entitled, Holds, LoginSteps
<1>3. /\ held \in Tables /\ held.user_identity = {d}
      /\ held.users = requests[i].tx.users
      /\ held.workspace = requests[i].tx.workspace
      /\ held.user_workspace = requests[i].tx.user_workspace
      /\ held.conversations = requests[i].tx.conversations
  <2>1. d \in [user : Ids, subject : Subjects]
    BY <1>2 DEF Identity
  <2> HIDE DEF d
  <2> QED
    BY <1>1, <1>2, <2>1 DEF Tables
<1>4. "commit user" \in Steps
  BY DEF Steps, LoginSteps
<1>5. /\ UNCHANGED tables
      /\ requests' \in [Numbers -> Request]
      /\ requests'[i] = [requests[i] EXCEPT !.pc = "commit user", !.tx = held]
      /\ \A j \in Numbers \ {i} : requests'[j] = requests[j]
  BY <1>1, <1>3, <1>4, InsertIs
<1> HIDE DEF held
<1>6. /\ requests'[i].pc = "commit user" /\ requests'[i].tx = held
      /\ requests'[i].email = requests[i].email
      /\ requests'[i].subject = requests[i].subject
  BY <1>1, <1>5 DEF Request
<1>7. Fits(i)'
  <2>1. Holds(i)'
    BY <1>1, <1>3, <1>6 DEF Fits, Holds
  <2>2. Fresh(i)' /\ Entitled(i)'
    BY <1>1, <1>5, <1>6 DEF Fits, Fresh, Entitled, LoginSteps
  <2>3. Asked(i)'
    BY <1>6 DEF Asked, Answering
  <2> QED
    BY <2>1, <2>2, <2>3 DEF Fits
<1>8. Typed'
  BY <1>1, <1>5 DEF Typed, browsing
<1>9. LeavesSubjects(i)
  <2>1. ASSUME NEW j \in Numbers \ {i}, requests[j].pc = "commit user"
        PROVE  requests[i].subject # requests[j].subject
    <3>1. j \in Begun
      BY <2>1 DEF Begun
    <3>2. requests[j].tx.user_identity = {Identity(j, requests[j].subject)}
      BY <2>1 DEF Sound, Fits, Holds
    <3>3. Identity(j, requests[j].subject) \in requests[j].tx.user_identity
      BY <3>2
    <3>4. Identity(j, requests[j].subject).subject = requests[j].subject
      BY DEF Identity
    <3> QED
      BY <3>1, <3>3, <3>4
  <2> QED
    BY <1>5, <1>6, <2>1 DEF LeavesSubjects
<1>10. stamps <= stamps' /\ UNCHANGED <<cookies, person>>
  BY <1>1, StampsStay, BrowsingStays
<1> QED
  BY <1>5, <1>7, <1>8, <1>9, <1>10, StaySound
LEMMA InsertWorkspaceSound ==
  ASSUME Sound, NEW i \in Numbers, At(i, "insert workspace"),
         Insert(i, "workspace", i, "insert membership"),
         UNCHANGED <<titles, messages, stamps, browsing>>
  PROVE  Sound'
<1> DEFINE held == [requests[i].tx EXCEPT !.workspace = @ \cup {i}]
<1>1. /\ requests[i] \in Request /\ Typed /\ requests[i].pc = "insert workspace"
      /\ requests[i].tx \in Tables /\ Fits(i)
  BY DEF Sound, Typed, At, Request
<1>2. requests[i].tx.workspace = {} /\ i \in Ids
  BY <1>1, NumbersAreIds DEF Fits, Holds
<1>3. /\ held \in Tables /\ held.workspace = {i}
      /\ held.users = requests[i].tx.users
      /\ held.user_identity = requests[i].tx.user_identity
      /\ held.user_workspace = requests[i].tx.user_workspace
      /\ held.conversations = requests[i].tx.conversations
  BY <1>1, <1>2 DEF Tables
<1>4. "insert membership" \in Steps
  BY DEF Steps
<1>5. /\ UNCHANGED tables
      /\ requests' \in [Numbers -> Request]
      /\ requests'[i] = [requests[i] EXCEPT !.pc = "insert membership", !.tx = held]
      /\ \A j \in Numbers \ {i} : requests'[j] = requests[j]
  BY <1>1, <1>3, <1>4, InsertIs
<1> HIDE DEF held
<1>6. requests'[i].pc = "insert membership" /\ requests'[i].tx = held
  BY <1>1, <1>5 DEF Request
<1>7. Fits(i)'
  <2>1. Holds(i)'
    BY <1>1, <1>3, <1>6 DEF Fits, Holds
  <2>2. Fresh(i)' /\ Entitled(i)'
    BY <1>1, <1>5, <1>6 DEF Fits, Fresh, Entitled, LoginSteps
  <2>3. Asked(i)'
    BY <1>6 DEF Asked, Answering
  <2> QED
    BY <2>1, <2>2, <2>3 DEF Fits
<1>8. Typed'
  BY <1>1, <1>5 DEF Typed, browsing
<1>9. LeavesSubjects(i)
  BY <1>5, <1>6 DEF LeavesSubjects
<1>10. stamps <= stamps' /\ UNCHANGED <<cookies, person>>
  BY <1>1, StampsStay, BrowsingStays
<1> QED
  BY <1>5, <1>7, <1>8, <1>9, <1>10, StaySound

LEMMA InsertMembershipSound ==
  ASSUME Sound, NEW i \in Numbers, At(i, "insert membership"),
         \E u \in tables.users : u.id = requests[i].user,
         Insert(i, "user_workspace", Membership(requests[i].user, i), "commit workspace"),
         UNCHANGED <<titles, messages, stamps, browsing>>
  PROVE  Sound'
<1> DEFINE m == Membership(requests[i].user, i)
           held == [requests[i].tx EXCEPT !.user_workspace = @ \cup {m}]
<1>1. /\ requests[i] \in Request /\ Typed /\ requests[i].pc = "insert membership"
      /\ requests[i].tx \in Tables /\ Fits(i) /\ tables \in Tables
  BY DEF Sound, Typed, At, Request
<1>2. requests[i].tx.user_workspace = {} /\ i \in Ids /\ requests[i].user \in Ids
  BY <1>1, NumbersAreIds DEF Fits, Holds, Tables
<1>3. /\ held \in Tables /\ held.user_workspace = {m}
      /\ held.users = requests[i].tx.users
      /\ held.user_identity = requests[i].tx.user_identity
      /\ held.workspace = requests[i].tx.workspace
      /\ held.conversations = requests[i].tx.conversations
  <2>1. m \in [user : Ids, workspace : Ids, role : {"owner"}]
    BY <1>2 DEF Membership
  <2> HIDE DEF m
  <2> QED
    BY <1>1, <1>2, <2>1 DEF Tables
<1>4. "commit workspace" \in Steps
  BY DEF Steps
<1>5. /\ UNCHANGED tables
      /\ requests' \in [Numbers -> Request]
      /\ requests'[i] = [requests[i] EXCEPT !.pc = "commit workspace", !.tx = held]
      /\ \A j \in Numbers \ {i} : requests'[j] = requests[j]
  BY <1>1, <1>3, <1>4, InsertIs
<1> HIDE DEF held
<1>6. /\ requests'[i].pc = "commit workspace" /\ requests'[i].tx = held
      /\ requests'[i].user = requests[i].user
  BY <1>1, <1>5 DEF Request
<1>7. Fits(i)'
  <2>1. Holds(i)'
    BY <1>1, <1>3, <1>6 DEF Fits, Holds
  <2>2. Fresh(i)' /\ Entitled(i)'
    BY <1>1, <1>5, <1>6 DEF Fits, Fresh, Entitled, LoginSteps
  <2>3. Asked(i)'
    BY <1>6 DEF Asked, Answering
  <2> QED
    BY <2>1, <2>2, <2>3 DEF Fits
<1>8. Typed'
  BY <1>1, <1>5 DEF Typed, browsing
<1>9. LeavesSubjects(i)
  BY <1>5, <1>6 DEF LeavesSubjects
<1>10. stamps <= stamps' /\ UNCHANGED <<cookies, person>>
  BY <1>1, StampsStay, BrowsingStays
<1> QED
  BY <1>5, <1>7, <1>8, <1>9, <1>10, StaySound

-----------------------------------------------------------------------------
(* Steps that add rows.                                                     *)

LEMMA GrowSound ==
  ASSUME Sound, NEW i \in Numbers, Typed', Fits(i)', Grows(i), LeavesSubjects(i), Rows',
         UNCHANGED <<titles, messages, stamps>>, Sessions',
         \A j \in Numbers \ {i} : requests'[j] = requests[j]
  PROVE  Sound'
<1>1. (\A j \in Numbers : Fits(j))' /\ Apart'
  BY AllFit
<1>2. TitleOfTheFirstText'
  BY TitlesStay DEF Sound
<1>3. Written'
  <2>1. \A u, w : IsMember(u, w) => IsMember(u, w)'
    BY DEF IsMember, Grows
  <2>2. tables.conversations \subseteq tables'.conversations
    BY DEF Grows
  <2> QED
    BY <2>1, <2>2 DEF Sound, Written
<1> QED
  BY <1>1, <1>2, <1>3 DEF Sound

LEMMA SessionsStay ==
  ASSUME Sessions, \A b \in Browsers : cookies'[b].session = cookies[b].session,
         UNCHANGED person, tables.user_identity \subseteq tables'.user_identity
  PROVE  Sessions'
  BY DEF Sessions

\* What the commit of a login adds to the store.
LEMMA UserCommitted ==
  ASSUME Sound, NEW i \in Numbers, requests[i].pc = "commit user", tables' = Committed(i),
         UNCHANGED <<messages, stamps>>, requests'[i].pc # "commit user"
  PROVE  /\ tables' \in Tables /\ Grows(i) /\ LeavesSubjects(i) /\ Rows'
         /\ Identity(i, requests[i].subject) \in tables'.user_identity
<1> DEFINE u == User(i, requests[i].email)
           d == Identity(i, requests[i].subject)
<1>1. Typed /\ Fits(i) /\ Rows /\ Apart
  BY DEF Sound
<1>2. /\ requests[i].tx.users = {u} /\ requests[i].tx.user_identity = {d}
      /\ requests[i].tx.workspace = {} /\ requests[i].tx.user_workspace = {}
      /\ requests[i].tx.conversations = {}
  BY <1>1 DEF Fits, Holds
<1>3. /\ tables' \in Tables
      /\ tables'.users = tables.users \cup {u}
      /\ tables'.user_identity = tables.user_identity \cup {d}
      /\ tables'.workspace = tables.workspace
      /\ tables'.user_workspace = tables.user_workspace
      /\ tables'.conversations = tables.conversations
  BY <1>1, <1>2, CommittedIs
<1>4. u.id = i /\ d.user = i /\ d.subject = requests[i].subject
  BY DEF User, Identity
<1> HIDE DEF u, d
<1>5. /\ \A v \in tables.users : v.id # i
      /\ \A e \in tables.user_identity : e.user # i /\ e.subject # requests[i].subject
  BY <1>1 DEF Fits, Fresh, Entitled, LoginSteps
<1>6. stamps <= stamps'
  BY <1>1, StampsStay
<1>7. Grows(i)
  BY <1>3, <1>4, <1>6 DEF Grows
<1>8. LeavesSubjects(i)
  BY <1>1, <1>3, <1>4 DEF LeavesSubjects, Apart
<1>9. Rows'
  <2> DEFINE U == tables.users
             V == tables'.users
             D == tables.user_identity
             E == tables'.user_identity
  <2>1. V = U \cup {u} /\ E = D \cup {d}
    BY <1>3
  <2>2. /\ \A v \in U : v.id # i
        /\ \A e \in D : e.user # i /\ e.subject # requests[i].subject
    BY <1>5
  <2>3. /\ \A v, w \in U : v.id = w.id => v = w
        /\ \A v \in U : \E e \in D : e.user = v.id
        /\ \A e \in D : \E v \in U : v.id = e.user
        /\ \A e, f \in D : e.user = f.user => e = f
        /\ \A e, f \in D : e.subject = f.subject => e = f
    BY <1>1 DEF Rows, UserRows, IdentityRows
  <2> HIDE DEF U, V, D, E
  <2>4. \A v, w \in V : v.id = w.id => v = w
    BY ONLY <1>4, <2>1, <2>2, <2>3
  <2>5. \A v \in V : \E e \in E : e.user = v.id
    BY ONLY <1>4, <2>1, <2>3
  <2>6. \A e \in E : \E v \in V : v.id = e.user
    BY ONLY <1>4, <2>1, <2>3
  <2>7. \A e, f \in E : e.user = f.user => e = f
    BY ONLY <1>4, <2>1, <2>2, <2>3
  <2>8. \A e, f \in E : e.subject = f.subject => e = f
    BY ONLY <1>4, <2>1, <2>2, <2>3
  <2>9. UserRows' /\ IdentityRows'
    BY <2>4, <2>5, <2>6, <2>7, <2>8 DEF UserRows, IdentityRows, V, E
  <2>10. WorkspaceRows' /\ ConversationRows'
    <3>1. \A m \in tables.user_workspace : \E v \in V : v.id = m.user
      BY <1>1, <2>1 DEF Rows, WorkspaceRows, U
    <3> QED
      BY <1>1, <1>3, <3>1 DEF Rows, WorkspaceRows, ConversationRows, V
  <2> QED
    BY <2>9, <2>10 DEF Rows
<1> QED
  BY <1>3, <1>7, <1>8, <1>9 DEF d

LEMMA CommitUserSound ==
  ASSUME Sound, NEW i \in Numbers, At(i, "commit user"), tables' = Committed(i),
         requests' = [requests EXCEPT ![i].pc = "issue", ![i].user = i, ![i].tx = NoRows],
         UNCHANGED <<titles, messages, stamps, browsing>>
  PROVE  Sound'
<1> DEFINE r == [requests[i] EXCEPT !.pc = "issue", !.user = i, !.tx = NoRows]
<1>1. requests[i] \in Request /\ Typed /\ requests[i].pc = "commit user"
  BY DEF Sound, Typed, At
<1>2. "issue" \in Steps /\ i \in Ids
  BY NumbersAreIds DEF Steps
<1>3. r \in Request
  BY <1>1, <1>2, NoRowsTyped, Zenon DEF Request
<1>4. requests' = [requests EXCEPT ![i] = r]
  OBVIOUS
<1>5. /\ requests' \in [Numbers -> Request] /\ requests'[i] = r
      /\ \A j \in Numbers \ {i} : requests'[j] = requests[j]
  BY <1>1, <1>3, <1>4, RequestIs
<1>6. /\ r.pc = "issue" /\ r.user = i /\ r.tx = NoRows
      /\ r.subject = requests[i].subject
  BY <1>1 DEF Request
<1> HIDE DEF r
<1>7. requests'[i].pc # "commit user"
  BY <1>5, <1>6
<1>8. /\ tables' \in Tables /\ Grows(i) /\ LeavesSubjects(i) /\ Rows'
      /\ Identity(i, requests[i].subject) \in tables'.user_identity
  BY <1>1, <1>7, UserCommitted
<1>9. Fits(i)'
  <2>1. Holds(i)'
    <3>1. requests'[i].pc = "issue" /\ requests'[i].tx = NoRows
      BY <1>5, <1>6
    <3> QED
      BY ONLY <3>1 DEF Holds, NoRows
  <2>2. Fresh(i)' /\ Entitled(i)' /\ Asked(i)'
    BY <1>5, <1>6, <1>8 DEF Fresh, Entitled, Asked, Answering, LoginSteps
  <2> QED
    BY <2>1, <2>2 DEF Fits
<1>10. Typed'
  BY <1>1, <1>5, <1>8 DEF Typed, browsing
<1>11. Sessions'
  BY <1>8, SessionsStay, BrowsingStays DEF Sound, Grows
<1> QED
  BY <1>5, <1>8, <1>9, <1>10, <1>11, GrowSound

LEMMA provisionUserSound ==
  ASSUME Sound, NEW i \in Numbers, provisionUser(i)
  PROVE  Sound'
<1>1. UNCHANGED <<titles, messages, stamps, browsing>>
  BY DEF provisionUser
<1>2. CASE /\ At(i, "insert user")
           /\ Insert(i, "users", User(i, requests[i].email), "insert identity")
  BY <1>1, <1>2, InsertUserSound
<1>3. CASE /\ At(i, "insert identity")
           /\ LET Same(row) == row.subject = requests[i].subject
              IN  ~Waits(i, "user_identity", Same)
           /\ IdentityIsUnique(i)
           /\ Insert(i, "user_identity", Identity(i, requests[i].subject), "commit user")
  <2>1. \A j \in Begun \ {i} : \A d \in requests[j].tx.user_identity :
          d.subject # requests[i].subject
    BY <1>3 DEF Waits
  <2>2. \A d \in tables.user_identity : d.subject # requests[i].subject
    BY <1>3 DEF IdentityIsUnique, Conflicts
  <2> QED
    BY <1>1, <1>3, <2>1, <2>2, InsertIdentitySound
<1>4. CASE /\ At(i, "commit user") /\ tables' = Committed(i)
           /\ requests' = [requests EXCEPT ![i].pc = "issue", ![i].user = i,
                                           ![i].tx = NoRows]
  BY <1>1, <1>4, CommitUserSound
<1> QED
  BY <1>2, <1>3, <1>4 DEF provisionUser
LEMMA SameGrows ==
  ASSUME Typed, UNCHANGED <<tables, messages, stamps>>, NEW i
  PROVE  Grows(i)
<1>1. stamps <= stamps'
  BY StampsStay
<1> QED
  BY <1>1 DEF Grows

LEMMA LenTyped == Typed => Len(flows) \in Nat /\ 0 <= Len(flows)
<1> SUFFICES ASSUME Typed PROVE Len(flows) \in Nat /\ 0 <= Len(flows)
  OBVIOUS
<1> DEFINE F == [browser : Browsers, used : BOOLEAN]
<1>1. flows \in Seq(F)
  BY DEF Typed
<1> HIDE DEF F
<1> QED
  BY <1>1

LEMMA issueSessionSound ==
  ASSUME Sound, NEW i \in Numbers, issueSession(i)
  PROVE  Sound'
<1> DEFINE r == requests[i]
           s == [user |-> r.user, email |-> r.email, expires |-> day + SessionTTL]
           c == [state |-> IF r.flow = 0 THEN cookies[r.browser].state ELSE 0, session |-> s]
           p == [subject |-> r.subject, day |-> day]
<1>1. r \in Request /\ Typed /\ r.pc = "issue" /\ End(i)
  BY DEF Sound, Typed, issueSession, At
<1>2. UNCHANGED <<tables, titles, messages, stamps, day, claimed, flows>>
  BY DEF issueSession, store
<1>3. /\ requests' \in [Numbers -> Request] /\ requests'[i] = Over
      /\ \A j \in Numbers \ {i} : requests'[j] = requests[j]
  BY <1>1, EndIs
<1>4. cookies' = [cookies EXCEPT ![r.browser] = c]
  BY DEF issueSession
<1>5. person' = [person EXCEPT ![r.browser] = p]
  BY DEF issueSession
<1>6. /\ cookies \in [Browsers -> [state : Nat, session : Session]]
      /\ person \in [Browsers -> [subject : Subjects \cup {""}, day : Nat]]
      /\ \A b \in Browsers : cookies[b].state <= Len(flows)
      /\ day \in Nat /\ r.browser \in Browsers
      /\ r.user \in Ids \cup {0} /\ r.email \in Emails \cup {""}
      /\ r.subject \in Subjects \cup {""} /\ flows \in Seq([browser : Browsers, used : BOOLEAN])
  BY <1>1 DEF Typed, Request
<1>7. Identity(r.user, r.subject) \in tables.user_identity
  BY <1>1 DEF Sound, Fits, Entitled
<1> HIDE DEF r
<1>8. day + SessionTTL \in Nat
  <2>1. day \in Nat /\ SessionTTL \in Nat
    BY <1>6, Parameters
  <2> QED
    BY ONLY <2>1
<1>9. s \in Session
  BY <1>6, <1>8 DEF Session
<1>10. /\ s.user = r.user /\ s.expires = day + SessionTTL /\ p.day = day
       /\ p.subject = r.subject
  OBVIOUS
<1> HIDE DEF s
<1>11. c \in [state : Nat, session : Session] /\ c.state <= Len(flows) /\ c.session = s
  <2>1. cookies[r.browser].state \in Nat /\ cookies[r.browser].state <= Len(flows)
    BY <1>6
  <2>2. 0 <= Len(flows)
    BY <1>1, LenTyped
  <2> QED
    BY <1>9, <2>1, <2>2
<1>12. p \in [subject : Subjects \cup {""}, day : Nat]
  BY <1>6
<1> HIDE DEF c, p
<1>13. /\ cookies' \in [Browsers -> [state : Nat, session : Session]]
       /\ \A b \in Browsers : cookies'[b] = IF b = r.browser THEN c ELSE cookies[b]
  BY <1>4, <1>6, <1>11
<1>14. /\ person' \in [Browsers -> [subject : Subjects \cup {""}, day : Nat]]
       /\ \A b \in Browsers : person'[b] = IF b = r.browser THEN p ELSE person[b]
  BY <1>5, <1>6, <1>12
<1>15. \A b \in Browsers : cookies'[b].state <= Len(flows)
  BY <1>6, <1>11, <1>13
<1>16. Typed'
  BY <1>1, <1>2, <1>3, <1>13, <1>14, <1>15 DEF Typed
<1>17. Sessions'
  <2>1. ASSUME NEW b \in Browsers, cookies'[b].session # NoSession
        PROVE  /\ Identity(cookies'[b].session.user, person'[b].subject)
                    \in tables.user_identity
               /\ cookies'[b].session.expires = person'[b].day + SessionTTL
    <3>1. CASE b = r.browser
      BY <1>7, <1>10, <1>11, <1>13, <1>14, <3>1
    <3>2. CASE b # r.browser
      BY <1>13, <1>14, <2>1, <3>2 DEF Sound, Sessions
    <3> QED
      BY <3>1, <3>2
  <2> QED
    BY <1>2, <2>1 DEF Sessions
<1>18. Rows'
  BY <1>2 DEF Sound, Rows, UserRows, IdentityRows, WorkspaceRows, ConversationRows
<1>19. Grows(i)
  BY <1>1, <1>2, SameGrows
<1>20. Fits(i)' /\ LeavesSubjects(i)
  BY <1>2, <1>3, OverFits DEF LeavesSubjects
<1> QED
  BY <1>2, <1>3, <1>16, <1>17, <1>18, <1>19, <1>20, GrowSound

LEMMA LoginFailsSound ==
  ASSUME Sound, NEW i \in Numbers, LoginFails(i)
  PROVE  Sound'
<1>1. requests[i] \in Request /\ Typed /\ End(i)
  BY DEF Sound, Typed, LoginFails
<1>2. UNCHANGED <<titles, messages, stamps, day, claimed, flows, person>>
  BY DEF LoginFails
<1>3. /\ requests' \in [Numbers -> Request] /\ requests'[i] = Over
      /\ \A j \in Numbers \ {i} : requests'[j] = requests[j]
  BY <1>1, EndIs
<1>4. Fits(i)' /\ requests'[i].pc = "over"
  BY <1>3, OverFits
<1>5. tables' \in Tables /\ Grows(i) /\ LeavesSubjects(i) /\ Rows'
  <2>1. CASE tables' = tables
    <3>1. Grows(i) /\ tables' \in Tables
      BY <1>1, <1>2, <2>1, SameGrows DEF Typed
    <3>2. LeavesSubjects(i)
      BY <1>4, <2>1 DEF LeavesSubjects
    <3> QED
      BY <2>1, <3>1, <3>2
         DEF Sound, Rows, UserRows, IdentityRows, WorkspaceRows, ConversationRows
  <2>2. CASE At(i, "commit user") /\ tables' = Committed(i)
    BY <1>2, <1>4, <2>2, UserCommitted DEF At
  <2> QED
    BY <2>1, <2>2 DEF LoginFails
<1>6. /\ cookies' \in [Browsers -> [state : Nat, session : Session]]
      /\ \A b \in Browsers : cookies'[b].state <= Len(flows)
      /\ \A b \in Browsers : cookies'[b].session = cookies[b].session
  <2>1. /\ cookies \in [Browsers -> [state : Nat, session : Session]]
        /\ \A b \in Browsers : cookies[b].state <= Len(flows)
        /\ flows \in Seq([browser : Browsers, used : BOOLEAN])
        /\ requests[i].browser \in Browsers
    BY <1>1 DEF Typed, Request
  <2>2. CASE cookies' = cookies
    BY <2>1, <2>2
  <2>3. CASE cookies' = [cookies EXCEPT ![requests[i].browser].state = 0]
    <3>1. 0 <= Len(flows)
      BY <1>1, LenTyped
    <3>2. \A b \in Browsers :
            cookies'[b] = IF b = requests[i].browser THEN [cookies[b] EXCEPT !.state = 0]
                          ELSE cookies[b]
      BY <2>1, <2>3
    <3> QED
      BY <2>1, <2>3, <3>1, <3>2
  <2> QED
    BY <2>2, <2>3 DEF LoginFails
<1>7. Typed'
  BY <1>1, <1>2, <1>3, <1>5, <1>6 DEF Typed
<1>8. Sessions'
  BY <1>2, <1>5, <1>6, SessionsStay DEF Sound, Grows
<1> QED
  BY <1>2, <1>3, <1>4, <1>5, <1>7, <1>8, GrowSound
-----------------------------------------------------------------------------
(* Work behind RequireUser.                                                 *)

LEMMA WorkspaceCommitted ==
  ASSUME Sound, NEW i \in Numbers, requests[i].pc = "commit workspace",
         tables' = Committed(i), UNCHANGED <<messages, stamps>>, requests'[i].pc = "over"
  PROVE  tables' \in Tables /\ Grows(i) /\ LeavesSubjects(i) /\ Rows'
<1> DEFINE m == Membership(requests[i].user, i)
<1>1. Typed /\ Fits(i) /\ Rows
  BY DEF Sound
<1>2. /\ requests[i].tx.users = {} /\ requests[i].tx.user_identity = {}
      /\ requests[i].tx.workspace = {i} /\ requests[i].tx.user_workspace = {m}
      /\ requests[i].tx.conversations = {}
  BY <1>1 DEF Fits, Holds
<1>3. /\ tables' \in Tables
      /\ tables'.users = tables.users /\ tables'.user_identity = tables.user_identity
      /\ tables'.workspace = tables.workspace \cup {i}
      /\ tables'.user_workspace = tables.user_workspace \cup {m}
      /\ tables'.conversations = tables.conversations
  BY <1>1, <1>2, CommittedIs
<1>4. m.workspace = i /\ m.user = requests[i].user
  BY DEF Membership
<1> HIDE DEF m
<1>5. /\ \A n \in tables.user_workspace : n.workspace # i
      /\ \E u \in tables.users : u.id = requests[i].user
  BY <1>1 DEF Fits, Fresh, Entitled
<1>6. stamps <= stamps'
  BY <1>1, StampsStay
<1>7. Grows(i)
  BY <1>3, <1>4, <1>6 DEF Grows
<1>8. LeavesSubjects(i)
  BY <1>3 DEF LeavesSubjects
<1>9. Rows'
  <2> DEFINE W == tables.workspace
             X == tables'.workspace
             M == tables.user_workspace
             N == tables'.user_workspace
             U == tables.users
  <2>1. X = W \cup {i} /\ N = M \cup {m}
    BY <1>3
  <2>2. \A n \in M : n.workspace # i
    BY <1>5
  <2>3. \E u \in U : u.id = requests[i].user
    BY <1>5
  <2>4. /\ \A w \in W : \E n \in M : n.workspace = w
        /\ \A n \in M : \E u \in U : u.id = n.user
        /\ \A n, o \in M : n.workspace = o.workspace => n = o
    BY <1>1 DEF Rows, WorkspaceRows
  <2> HIDE DEF W, X, M, N, U
  <2>5. \A w \in X : \E n \in N : n.workspace = w
    BY ONLY <1>4, <2>1, <2>4
  <2>6. \A n \in N : \E u \in U : u.id = n.user
    BY ONLY <1>4, <2>1, <2>3, <2>4
  <2>7. \A n, o \in N : n.workspace = o.workspace => n = o
    BY ONLY <1>4, <2>1, <2>2, <2>4
  <2>8. WorkspaceRows'
    BY <1>3, <2>5, <2>6, <2>7 DEF WorkspaceRows, X, N, U
  <2>9. UserRows' /\ IdentityRows' /\ ConversationRows'
    BY <1>1, <1>3 DEF Rows, UserRows, IdentityRows, ConversationRows
  <2> QED
    BY <2>8, <2>9 DEF Rows
<1> QED
  BY <1>3, <1>7, <1>8, <1>9

\* A request is over, and what it commits is in the store.
LEMMA LastStepSound ==
  ASSUME Sound, NEW i \in Numbers, End(i), tables' \in Tables, Grows(i),
         LeavesSubjects(i), Rows', UNCHANGED <<titles, messages, stamps, browsing>>
  PROVE  Sound'
<1>1. Typed
  BY DEF Sound
<1>2. /\ requests' \in [Numbers -> Request] /\ requests'[i] = Over
      /\ \A j \in Numbers \ {i} : requests'[j] = requests[j]
  BY <1>1, EndIs
<1>3. Fits(i)'
  BY <1>2, OverFits
<1>4. Typed'
  BY <1>1, <1>2 DEF Typed, browsing
<1>5. Sessions'
  BY SessionsStay, BrowsingStays DEF Sound, Grows
<1> QED
  BY <1>2, <1>3, <1>4, <1>5, GrowSound

LEMMA CommitWorkspaceSound ==
  ASSUME Sound, NEW i \in Numbers, At(i, "commit workspace"), tables' = Committed(i),
         End(i), UNCHANGED <<titles, messages, stamps, browsing>>
  PROVE  Sound'
<1>1. requests'[i].pc = "over"
  BY EndIs, OverFits DEF Sound
<1>2. tables' \in Tables /\ Grows(i) /\ LeavesSubjects(i) /\ Rows'
  BY <1>1, WorkspaceCommitted DEF At
<1> QED
  BY <1>2, LastStepSound

LEMMA CreateWorkspaceSound ==
  ASSUME Sound, NEW i \in Numbers, CreateWorkspace(i)
  PROVE  Sound'
<1>1. UNCHANGED <<titles, messages, stamps, browsing>>
  BY DEF CreateWorkspace
<1> QED
  BY <1>1, InsertWorkspaceSound, InsertMembershipSound, CommitWorkspaceSound
     DEF CreateWorkspace

LEMMA CreateConversationSound ==
  ASSUME Sound, NEW i \in Numbers, CreateConversation(i)
  PROVE  Sound'
<1> DEFINE c == Conversation(i, requests[i].workspace)
<1>1. /\ requests[i].pc = "insert conversation" /\ requests[i] \in Request /\ Typed
      /\ Fits(i) /\ Rows /\ tables \in Tables
      /\ tables' = [tables EXCEPT !.conversations = @ \cup {c}]
      /\ End(i) /\ UNCHANGED <<titles, messages, stamps, browsing>>
  BY DEF CreateConversation, At, Sound, Typed
<1>2. requests[i].workspace \in Ids
  <2>1. IsMember(requests[i].user, requests[i].workspace)
    BY <1>1 DEF Fits, Entitled
  <2> QED
    BY <1>1, <2>1 DEF IsMember, Tables
<1>3. /\ tables' \in Tables
      /\ tables'.users = tables.users /\ tables'.user_identity = tables.user_identity
      /\ tables'.workspace = tables.workspace
      /\ tables'.user_workspace = tables.user_workspace
      /\ tables'.conversations = tables.conversations \cup {c}
  <2>1. c \in [id : Ids, workspace : Ids]
    BY <1>2, NumbersAreIds DEF Conversation
  <2> HIDE DEF c
  <2> QED
    BY <1>1, <2>1 DEF Tables
<1>4. c.id = i
  BY DEF Conversation
<1> HIDE DEF c
<1>5. \A d \in tables.conversations : d.id # i
  BY <1>1 DEF Fits, Fresh
<1>6. stamps <= stamps'
  BY <1>1, StampsStay
<1>7. Grows(i)
  BY <1>1, <1>3, <1>4, <1>6 DEF Grows
<1>8. requests'[i].pc = "over"
  BY <1>1, EndIs, OverFits
<1>9. LeavesSubjects(i)
  BY <1>3, <1>8 DEF LeavesSubjects
<1>10. Rows'
  <2>1. ConversationRows'
    <3>1. ConversationRows
      BY <1>1 DEF Rows
    <3>2. tables'.conversations = tables.conversations \cup {c}
      BY <1>3
    <3> QED
      BY ONLY <1>4, <1>5, <3>1, <3>2 DEF ConversationRows
  <2>2. UserRows' /\ IdentityRows' /\ WorkspaceRows'
    <3>1. UserRows /\ IdentityRows /\ WorkspaceRows
      BY <1>1 DEF Rows
    <3> QED
      BY ONLY <1>3, <3>1 DEF UserRows, IdentityRows, WorkspaceRows
  <2> QED
    BY <2>1, <2>2 DEF Rows
<1> QED
  BY <1>1, <1>3, <1>7, <1>9, <1>10, LastStepSound
-----------------------------------------------------------------------------
(* Turns.                                                                   *)

LEMMA BeginAppendSound ==
  ASSUME Sound, NEW i \in Numbers, BeginAppend(i)
  PROVE  Sound'
<1> DEFINE r == [requests[i] EXCEPT !.pc = "update", !.at = stamps + 1]
<1>1. /\ requests[i] \in Request /\ Typed /\ requests[i].pc = "append" /\ Fits(i)
      /\ UNCHANGED <<tables, titles, messages, browsing>> /\ stamps' = stamps + 1
  BY DEF BeginAppend, At, Sound, Typed
<1>2. stamps \in Nat
  BY <1>1 DEF Typed
<1>3. stamps + 1 \in Nat /\ stamps <= stamps + 1 /\ "update" \in Steps
  BY <1>2 DEF Steps
<1>4. r \in Request
  BY <1>1, <1>3, Zenon DEF Request
<1>5. requests' = [requests EXCEPT ![i] = r]
  BY DEF BeginAppend, Stamp
<1>6. /\ requests' \in [Numbers -> Request] /\ requests'[i] = r
      /\ \A j \in Numbers \ {i} : requests'[j] = requests[j]
  BY <1>1, <1>4, <1>5, RequestIs
<1>7. /\ r.pc = "update" /\ r.at = stamps + 1 /\ r.tx = requests[i].tx
      /\ r.user = requests[i].user /\ r.workspace = requests[i].workspace
      /\ r.conversation = requests[i].conversation /\ r.text = requests[i].text
      /\ r.role = requests[i].role
  BY <1>1 DEF Request
<1> HIDE DEF r
<1>8. Fits(i)'
  <2>1. Holds(i)' /\ Fresh(i)' /\ Entitled(i)'
    BY <1>1, <1>6, <1>7
       DEF Fits, Holds, Fresh, Entitled, IsMember, ConversationIsIn, LoginSteps
  <2>2. r.at \in 1..(stamps + 1)
    BY <1>2, <1>7
  <2>3. r.text \in Text
    BY <1>1, <1>7 DEF Fits, Asked
  <2>4. ASSUME Answering(i)'
        PROVE  \E k \in DOMAIN messages :
                 /\ messages[k].role = "user" /\ messages[k].turn = i
                 /\ messages[k].conversation = r.conversation
                 /\ messages[k].created_at < r.at
    <3>1. Answering(i)
      BY <1>1, <1>6, <1>7, <2>4 DEF Answering
    <3>2. PICK k \in DOMAIN messages :
            /\ messages[k].role = "user" /\ messages[k].turn = i
            /\ messages[k].conversation = requests[i].conversation
      BY <1>1, <3>1 DEF Fits, Asked
    <3>3. messages[k].created_at \in 1..stamps
      BY DEF Sound, Written
    <3>4. messages[k].created_at < stamps + 1
      BY ONLY <1>2, <3>3
    <3> QED
      BY <1>7, <3>2, <3>4
  <2>5. Asked(i)'
    BY <1>1, <1>6, <1>7, <2>2, <2>3, <2>4 DEF Asked
  <2> QED
    BY <2>1, <2>5 DEF Fits
<1>9. Typed'
  BY <1>1, <1>3, <1>6 DEF Typed, browsing
<1>10. LeavesSubjects(i)
  BY <1>1, <1>6, <1>7 DEF LeavesSubjects
<1>11. UNCHANGED <<cookies, person>>
  BY <1>1, BrowsingStays
<1> QED
  BY <1>1, <1>3, <1>6, <1>8, <1>9, <1>10, <1>11, StaySound

LEMMA GenerateSound ==
  ASSUME Sound, NEW i \in Numbers, Generate(i)
  PROVE  Sound'
<1>1. PICK a \in Answers :
        requests' = [requests EXCEPT ![i].pc = "append", ![i].role = "assistant",
                                     ![i].text = a]
  BY DEF Generate
<1> DEFINE r == [requests[i] EXCEPT !.pc = "append", !.role = "assistant", !.text = a]
<1>2. /\ requests[i] \in Request /\ Typed /\ requests[i].pc = "generate" /\ Fits(i)
      /\ UNCHANGED <<tables, titles, messages, stamps, browsing>>
  BY DEF Generate, At, Sound, Typed, store
<1>3. "append" \in Steps /\ a \in Text
  BY DEF Steps, Text
<1>4. r \in Request
  BY <1>2, <1>3, Zenon DEF Request
<1>5. requests' = [requests EXCEPT ![i] = r]
  BY <1>1
<1>6. /\ requests' \in [Numbers -> Request] /\ requests'[i] = r
      /\ \A j \in Numbers \ {i} : requests'[j] = requests[j]
  BY <1>2, <1>4, <1>5, RequestIs
<1>7. /\ r.pc = "append" /\ r.tx = requests[i].tx
      /\ r.user = requests[i].user /\ r.workspace = requests[i].workspace
      /\ r.conversation = requests[i].conversation /\ r.text = a /\ r.role = "assistant"
  BY <1>2 DEF Request
<1> HIDE DEF r
<1>8. Fits(i)'
  BY <1>2, <1>3, <1>6, <1>7
     DEF Fits, Holds, Fresh, Entitled, Asked, Answering, IsMember, ConversationIsIn,
         LoginSteps
<1>9. Typed'
  BY <1>2, <1>6 DEF Typed, browsing
<1>10. LeavesSubjects(i)
  BY <1>2, <1>6, <1>7 DEF LeavesSubjects
<1>11. stamps <= stamps' /\ UNCHANGED <<cookies, person>>
  BY <1>2, StampsStay, BrowsingStays
<1> QED
  BY <1>2, <1>6, <1>8, <1>9, <1>10, <1>11, StaySound

\* What the commit of AppendMessage adds.
LEMMA Appended ==
  ASSUME Sound, NEW i \in Numbers, requests[i].pc = "update",
         messages' = Append(messages, Message(i)),
         titles' = [titles EXCEPT ![requests[i].conversation] =
                                    Titled(@, requests[i].text)],
         UNCHANGED <<tables, stamps>>
  PROVE  /\ messages' \in Seq(Row) /\ titles' \in [Ids -> {""} \cup (Text \ {Blank})]
         /\ Len(messages) + 1 \in DOMAIN messages'
         /\ messages'[Len(messages) + 1] = Message(i)
         /\ Grows(i) /\ Written' /\ TitleOfTheFirstText'
<1> DEFINE n == Len(messages) + 1
           m == Message(i)
           c == requests[i].conversation
           t == requests[i].text
<1>1. /\ requests[i] \in Request /\ Typed /\ tables \in Tables /\ messages \in Seq(Row)
      /\ titles \in [Ids -> {""} \cup (Text \ {Blank})] /\ Fits(i) /\ stamps \in Nat
  BY DEF Sound, Typed
<1>2. /\ ConversationIsIn(c, requests[i].workspace)
      /\ IsMember(requests[i].user, requests[i].workspace)
      /\ t \in Text /\ requests[i].at \in 1..stamps
  BY <1>1 DEF Fits, Entitled, Asked
<1>3. c \in Ids /\ requests[i].user \in Ids
  BY <1>1, <1>2 DEF ConversationIsIn, IsMember, Conversation, Tables
<1>4. /\ m.conversation = c /\ m.role = requests[i].role /\ m.content = t
      /\ m.created_at = requests[i].at /\ m.turn = i /\ m.author = requests[i].user
  BY DEF Message
<1>5. m \in Row
  <2>1. requests[i].at \in Nat /\ requests[i].role \in {"user", "assistant"}
    BY <1>1 DEF Request
  <2> QED
    BY <1>2, <1>3, <2>1 DEF Message, Row
<1> HIDE DEF m
<1>6. messages' = Append(messages, m)
  BY DEF m
<1>7. /\ messages' \in Seq(Row) /\ n \in DOMAIN messages' /\ messages'[n] = m
      /\ DOMAIN messages' = DOMAIN messages \cup {n}
      /\ \A k \in DOMAIN messages : messages'[k] = messages[k] /\ k \in 1..Len(messages)
      /\ DOMAIN messages = 1..Len(messages) /\ Len(messages) \in Nat
  <2>1. messages \in Seq(Row) /\ m \in Row
    BY <1>1, <1>5
  <2> HIDE DEF Row
  <2>2. /\ messages' \in Seq(Row) /\ Len(messages) \in Nat /\ Len(messages') = n
        /\ DOMAIN messages = 1..Len(messages) /\ DOMAIN messages' = 1..n
    BY <1>6, <2>1
  <2>3. messages'[n] = m
    BY <1>6, <2>1
  <2>4. \A k \in 1..Len(messages) : messages'[k] = messages[k]
    BY <1>6, <2>1
  <2>5. 1..n = 1..Len(messages) \cup {n}
    BY <2>2
  <2> QED
    BY <2>2, <2>3, <2>4, <2>5
<1>8. Titled(titles[c], t) \in {""} \cup (Text \ {Blank})
  BY <1>1, <1>2, <1>3 DEF Titled, deriveTitle
<1>9. titles' \in [Ids -> {""} \cup (Text \ {Blank})]
  BY <1>1, <1>3, <1>8
<1>10. /\ titles'[c] = Titled(titles[c], t)
       /\ \A d \in Ids \ {c} : titles'[d] = titles[d]
  BY <1>1, <1>3
<1>11. stamps <= stamps'
  BY <1>1, StampsStay
<1>12. Grows(i)
  BY <1>7, <1>11 DEF Grows
<1>13. Written'
  <2> HIDE DEF n, c, t
  <2> DEFINE Follows(a) == \E k \in DOMAIN messages' :
               /\ messages'[k].role = "user" /\ messages'[k].turn = a.turn
               /\ messages'[k].conversation = a.conversation
               /\ messages'[k].created_at < a.created_at
             InPlace(a) == \E d \in tables.conversations :
               d.id = a.conversation /\ IsMember(a.author, d.workspace)
  <2>1. /\ m.created_at \in 1..stamps /\ InPlace(m)
        /\ m.role = "assistant" => Follows(m)
    <3>1. InPlace(m)
      BY <1>2, <1>4 DEF ConversationIsIn, Conversation, c
    <3>2. ASSUME m.role = "assistant" PROVE Follows(m)
      <4>1. Answering(i)
        BY <1>4, <3>2 DEF Answering
      <4>2. PICK k \in DOMAIN messages :
              /\ messages[k].role = "user" /\ messages[k].turn = i
              /\ messages[k].conversation = requests[i].conversation
              /\ messages[k].created_at < requests[i].at
        BY <1>1, <4>1 DEF Fits, Asked
      <4>3. k \in DOMAIN messages' /\ messages'[k] = messages[k]
        BY <1>7
      <4> QED
        BY <1>4, <4>2, <4>3 DEF c
    <3> QED
      BY <1>2, <1>4, <3>1, <3>2
  <2>2. ASSUME NEW j \in DOMAIN messages
        PROVE  /\ messages[j].created_at \in 1..stamps /\ InPlace(messages[j])
               /\ messages[j].role = "assistant" => Follows(messages[j])
    BY <1>7 DEF Sound, Written
  <2>3. \A j \in DOMAIN messages' :
          /\ messages'[j].created_at \in 1..stamps /\ InPlace(messages'[j])
          /\ messages'[j].role = "assistant" => Follows(messages'[j])
    <3> HIDE DEF Follows, InPlace
    <3>1. ASSUME NEW j \in DOMAIN messages, messages'[j] = messages[j]
          PROVE  /\ messages'[j].created_at \in 1..stamps /\ InPlace(messages'[j])
                 /\ messages'[j].role = "assistant" => Follows(messages'[j])
      BY <2>2, <3>1
    <3>2. /\ messages'[n].created_at \in 1..stamps /\ InPlace(messages'[n])
          /\ messages'[n].role = "assistant" => Follows(messages'[n])
      BY <1>7, <2>1
    <3> QED
      BY <1>7, <3>1, <3>2
  <2>4. \A u, w : IsMember(u, w)' <=> IsMember(u, w)
    BY DEF IsMember
  <2> QED
    BY <2>3, <2>4 DEF Written
<1>14. TitleOfTheFirstText'
  <2> HIDE DEF n, c, t
  <2>1. ASSUME NEW d \in Ids
        PROVE  LET Says(j) == /\ messages'[j].conversation = d
                              /\ deriveTitle(messages'[j].content) # ""
               IN  \/ titles'[d] = "" /\ \A j \in DOMAIN messages' : ~Says(j)
                   \/ \E j \in DOMAIN messages' :
                        /\ Says(j) /\ titles'[d] = deriveTitle(messages'[j].content)
                        /\ \A k \in 1..(j - 1) : ~Says(k)
    <3> DEFINE Said(j) == /\ messages[j].conversation = d
                          /\ deriveTitle(messages[j].content) # ""
               Says(j) == /\ messages'[j].conversation = d
                          /\ deriveTitle(messages'[j].content) # ""
    <3>1. \A j \in DOMAIN messages : Says(j) <=> Said(j)
      BY <1>7
    <3>2. Says(n) <=> d = c /\ deriveTitle(t) # ""
      BY <1>4, <1>7
    <3>3. \/ titles[d] = "" /\ \A j \in DOMAIN messages : ~Said(j)
          \/ \E j \in DOMAIN messages :
               /\ Said(j) /\ titles[d] = deriveTitle(messages[j].content)
               /\ \A k \in 1..(j - 1) : ~Said(k)
      BY DEF Sound, TitleOfTheFirstText
    <3>4. CASE titles[d] = "" /\ \A j \in DOMAIN messages : ~Said(j)
      <4>1. CASE Says(n)
        <5>1. titles'[d] = deriveTitle(messages'[n].content)
          BY <1>4, <1>7, <1>10, <3>2, <3>4, <4>1 DEF Titled
        <5>2. \A k \in 1..(n - 1) : ~Says(k)
          <6>1. 1..(n - 1) = DOMAIN messages
            BY <1>7 DEF n
          <6> QED
            BY <3>1, <3>4, <6>1
        <5> QED
          BY <1>7, <4>1, <5>1, <5>2
      <4>2. CASE ~Says(n)
        <5>1. titles'[d] = ""
          BY <1>10, <3>2, <3>4, <4>2 DEF Titled
        <5> QED
          BY <1>7, <3>1, <3>4, <4>2, <5>1
      <4> QED
        BY <4>1, <4>2
    <3>5. CASE \E j \in DOMAIN messages :
                 /\ Said(j) /\ titles[d] = deriveTitle(messages[j].content)
                 /\ \A k \in 1..(j - 1) : ~Said(k)
      <4>1. PICK j \in DOMAIN messages :
              /\ Said(j) /\ titles[d] = deriveTitle(messages[j].content)
              /\ \A k \in 1..(j - 1) : ~Said(k)
        BY <3>5
      <4>2. titles'[d] = titles[d]
        BY <1>10, <4>1 DEF Titled
      <4>3. j \in DOMAIN messages' /\ messages'[j] = messages[j]
        BY <1>7
      <4>4. \A k \in 1..(j - 1) : k \in DOMAIN messages
        BY <1>7
      <4> QED
        BY <3>1, <4>1, <4>2, <4>3, <4>4
    <3> QED
      BY <3>3, <3>4, <3>5
  <2> QED
    BY <2>1 DEF TitleOfTheFirstText
<1> QED
  BY <1>7, <1>9, <1>12, <1>13, <1>14 DEF m
LEMMA AppendSound ==
  ASSUME Sound, NEW i \in Numbers, requests[i].pc = "update",
         messages' = Append(messages, Message(i)),
         titles' = [titles EXCEPT ![requests[i].conversation] =
                                    Titled(@, requests[i].text)],
         UNCHANGED <<tables, stamps, browsing>>, requests' \in [Numbers -> Request],
         \A j \in Numbers \ {i} : requests'[j] = requests[j],
         Fits(i)', requests'[i].pc # "commit user"
  PROVE  Sound'
<1>1. /\ messages' \in Seq(Row) /\ titles' \in [Ids -> {""} \cup (Text \ {Blank})]
      /\ Grows(i) /\ Written' /\ TitleOfTheFirstText'
  BY Appended
<1>2. Typed'
  BY <1>1 DEF Sound, Typed, browsing
<1>3. LeavesSubjects(i)
  BY DEF LeavesSubjects
<1>4. (\A j \in Numbers : Fits(j))' /\ Apart'
  BY <1>1, <1>2, <1>3, AllFit
<1>5. Rows'
  BY DEF Sound, Rows, UserRows, IdentityRows, WorkspaceRows, ConversationRows
<1>6. Sessions'
  BY SessionsStay, BrowsingStays DEF Sound
<1> QED
  BY <1>1, <1>2, <1>4, <1>5, <1>6 DEF Sound

LEMMA AppendMessageSound ==
  ASSUME Sound, NEW i \in Numbers, AppendMessage(i)
  PROVE  Sound'
<1>1. /\ requests[i] \in Request /\ Typed /\ requests[i].pc = "update" /\ Fits(i)
      /\ messages' = Append(messages, Message(i))
      /\ titles' = [titles EXCEPT ![requests[i].conversation] =
                                    Titled(@, requests[i].text)]
      /\ UNCHANGED <<tables, stamps, browsing>>
  BY DEF AppendMessage, At, Sound, Typed
<1>2. CASE End(i)
  <2>1. /\ requests' \in [Numbers -> Request] /\ requests'[i] = Over
        /\ \A j \in Numbers \ {i} : requests'[j] = requests[j]
    BY <1>1, <1>2, EndIs
  <2>2. Fits(i)' /\ requests'[i].pc = "over"
    BY <2>1, OverFits
  <2> QED
    BY <1>1, <2>1, <2>2, AppendSound
<1>3. CASE requests[i].role = "user" /\ Goto(i, "generate")
  <2>1. "generate" \in Steps
    BY DEF Steps
  <2>2. /\ requests' \in [Numbers -> Request]
        /\ requests'[i] = [requests[i] EXCEPT !.pc = "generate"]
        /\ \A j \in Numbers \ {i} : requests'[j] = requests[j]
    BY <1>1, <1>3, <2>1, GotoIs
  <2>3. /\ requests'[i].pc = "generate" /\ requests'[i].tx = requests[i].tx
        /\ requests'[i].user = requests[i].user
        /\ requests'[i].workspace = requests[i].workspace
        /\ requests'[i].conversation = requests[i].conversation
    BY <1>1, <2>2 DEF Request
  <2>4. Holds(i)' /\ Fresh(i)' /\ Entitled(i)'
    BY <1>1, <2>3 DEF Fits, Holds, Fresh, Entitled, IsMember, ConversationIsIn, LoginSteps
  <2>5. Asked(i)'
    <3>1. /\ Len(messages) + 1 \in DOMAIN messages'
          /\ messages'[Len(messages) + 1] = Message(i)
      BY <1>1, Appended
    <3>2. /\ Message(i).role = "user" /\ Message(i).turn = i
          /\ Message(i).conversation = requests[i].conversation
      BY <1>3 DEF Message
    <3> QED
      BY <2>3, <3>1, <3>2 DEF Asked
  <2>6. Fits(i)' /\ requests'[i].pc # "commit user"
    BY <2>3, <2>4, <2>5 DEF Fits
  <2> QED
    BY <1>1, <2>2, <2>6, AppendSound
<1> QED
  BY <1>2, <1>3 DEF AppendMessage

LEMMA FailsSound ==
  ASSUME Sound, NEW i \in Numbers, Fails(i)
  PROVE  Sound'
<1>1. Typed /\ End(i) /\ UNCHANGED <<stamps, browsing>>
  BY DEF Sound, Fails
<1>2. CASE UNCHANGED <<tables, titles, messages>>
  BY <1>1, <1>2, EndSound
<1>3. CASE /\ At(i, "commit workspace") /\ tables' = Committed(i)
           /\ UNCHANGED <<titles, messages>>
  BY <1>1, <1>3, CommitWorkspaceSound
<1>4. CASE /\ At(i, "update") /\ messages' = Append(messages, Message(i))
           /\ titles' = [titles EXCEPT ![requests[i].conversation] =
                                         Titled(@, requests[i].text)]
           /\ UNCHANGED tables
  <2>1. /\ requests' \in [Numbers -> Request] /\ requests'[i] = Over
        /\ \A j \in Numbers \ {i} : requests'[j] = requests[j]
    BY <1>1, EndIs
  <2>2. Fits(i)' /\ requests'[i].pc = "over"
    BY <2>1, OverFits
  <2> QED
    BY <1>1, <1>4, <2>1, <2>2, AppendSound DEF At
<1> QED
  BY <1>2, <1>3, <1>4 DEF Fails

-----------------------------------------------------------------------------
(* A request arrives.                                                       *)

LEMMA ArriveSound ==
  ASSUME Sound, NEW i \in Numbers, NEW r \in Request, Arrive(i, r),
         UNCHANGED <<tables, titles, messages, stamps, browsing>>,
         r.tx = NoRows, r.role = "user",
         r.pc \in {"exchange", "password", "insert workspace", "member"},
         r.pc = "member" => r.conversation = 0 \/ r.text \in Text
  PROVE  Sound'
<1>1. Typed /\ requests[i].pc = "idle" /\ Fits(i)
  BY DEF Sound, Arrive
<1>2. /\ requests' \in [Numbers -> Request] /\ requests'[i] = r
      /\ \A j \in Numbers \ {i} : requests'[j] = requests[j]
  BY <1>1, RequestIs DEF Arrive
<1>3. Fits(i)'
  <2>1. Holds(i)'
    <3>1. /\ requests'[i].tx = NoRows
          /\ requests'[i].pc \notin {"insert identity", "commit user", "insert membership",
                                     "commit workspace"}
      BY <1>2
    <3>2. /\ NoRows.users = {} /\ NoRows.user_identity = {} /\ NoRows.workspace = {}
          /\ NoRows.user_workspace = {} /\ NoRows.conversations = {}
      BY DEF NoRows
    <3> QED
      BY ONLY <3>1, <3>2 DEF Holds
  <2>2. Fresh(i)'
    BY <1>1, <1>2 DEF Fits, Fresh
  <2>3. Entitled(i)' /\ Asked(i)'
    BY <1>2 DEF Entitled, Asked, Answering, LoginSteps
  <2> QED
    BY <2>1, <2>2, <2>3 DEF Fits
<1>4. Typed'
  BY <1>1, <1>2 DEF Typed, browsing
<1>5. LeavesSubjects(i)
  BY <1>2 DEF LeavesSubjects
<1>6. stamps <= stamps' /\ UNCHANGED <<cookies, person>>
  BY <1>1, StampsStay, BrowsingStays
<1> QED
  BY <1>2, <1>3, <1>4, <1>5, <1>6, StaySound

LEMMA IdleIs ==
  /\ Idle.tx = NoRows /\ Idle.role = "user" /\ Idle.conversation = 0 /\ Idle.user = 0
  BY DEF Idle

LEMMA CallbackSound ==
  ASSUME Sound, NEW i \in Numbers, NEW b \in Browsers, Callback(i, b)
  PROVE  Sound' /\ requests'[i].user = 0
<1>1. PICK f \in 1..Len(flows) :
        Arrive(i, [Idle EXCEPT !.pc = "exchange", !.browser = b, !.flow = f])
  BY DEF Callback
<1> DEFINE r == [Idle EXCEPT !.pc = "exchange", !.browser = b, !.flow = f]
<1>2. f \in Nat /\ "exchange" \in Steps
  <2>1. Len(flows) \in Nat
    BY LenTyped DEF Sound
  <2>2. f \in Nat
    BY ONLY <2>1
  <2> QED
    BY <2>2 DEF Steps, LoginSteps
<1>3. r \in Request
  BY <1>2, IdleTyped, Zenon DEF Request
<1>4. r.tx = NoRows /\ r.role = "user" /\ r.pc = "exchange" /\ r.user = 0
  BY IdleTyped, IdleIs DEF Request
<1> HIDE DEF r
<1>5. Arrive(i, r)
  BY <1>1 DEF r
<1>6. Sound'
  BY <1>3, <1>4, <1>5, ArriveSound DEF Callback, store
<1>7. requests'[i] = r
  BY <1>3, <1>5, RequestIs DEF Sound, Arrive
<1> QED
  BY <1>4, <1>6, <1>7

LEMMA TokenSound ==
  ASSUME Sound, NEW i \in Numbers, NEW b \in Browsers, Token(i, b)
  PROVE  Sound' /\ requests'[i].user = 0
<1> DEFINE r == [Idle EXCEPT !.pc = "password", !.browser = b]
<1>1. Arrive(i, r)
  BY DEF Token
<1>2. "password" \in Steps
  BY DEF Steps, LoginSteps
<1>3. r \in Request
  BY <1>2, IdleTyped, Zenon DEF Request
<1>4. r.tx = NoRows /\ r.role = "user" /\ r.pc = "password" /\ r.user = 0
  BY IdleTyped, IdleIs DEF Request
<1> HIDE DEF r
<1>5. Sound'
  BY <1>1, <1>3, <1>4, ArriveSound DEF Token, store
<1>6. requests'[i] = r
  BY <1>1, <1>3, RequestIs DEF Sound, Arrive
<1> QED
  BY <1>4, <1>5, <1>6

\* The user and the subject of an admitted request are those of the session.
LEMMA AdmitSound ==
  ASSUME Sound, NEW i \in Numbers, NEW b \in Browsers, NEW a \in Request, Admit(i, b, a),
         a.tx = NoRows, a.role = "user", a.pc \in {"insert workspace", "member"},
         a.pc = "member" => a.conversation = 0 \/ a.text \in Text
  PROVE  /\ Sound'
         /\ requests'[i].browser = b /\ requests'[i].user = cookies[b].session.user
         /\ Verify(cookies[b].session)
<1> DEFINE r == [a EXCEPT !.browser = b, !.user = cookies[b].session.user,
                          !.subject = person[b].subject]
<1>1. /\ cookies \in [Browsers -> [state : Nat, session : Session]]
      /\ person \in [Browsers -> [subject : Subjects \cup {""}, day : Nat]]
  BY DEF Sound, Typed
<1>2. cookies[b].session.user \in Ids \cup {0} /\ person[b].subject \in Subjects \cup {""}
  BY <1>1 DEF Session
<1>3. r \in Request
  BY <1>2, Zenon DEF Request
<1>4. /\ r.tx = NoRows /\ r.role = "user" /\ r.pc = a.pc /\ r.conversation = a.conversation
      /\ r.text = a.text /\ r.browser = b /\ r.user = cookies[b].session.user
  BY DEF Request
<1>5. Arrive(i, r) /\ Verify(cookies[b].session)
  BY DEF Admit
<1> HIDE DEF r
<1>6. Sound'
  BY <1>3, <1>4, <1>5, ArriveSound DEF Admit, store
<1>7. requests'[i] = r
  BY <1>3, <1>5, RequestIs DEF Sound, Arrive
<1> QED
  BY <1>4, <1>5, <1>6, <1>7
Admitted(i, b) ==
  /\ requests'[i].browser = b /\ requests'[i].user = cookies[b].session.user
  /\ Verify(cookies[b].session)

LEMMA AskForWorkspaceSound ==
  ASSUME Sound, NEW i \in Numbers, NEW b \in Browsers, AskForWorkspace(i, b)
  PROVE  Sound' /\ Admitted(i, b)
<1> DEFINE a == [Idle EXCEPT !.pc = "insert workspace"]
<1>1. "insert workspace" \in Steps
  BY DEF Steps
<1>2. a \in Request
  BY <1>1, IdleTyped, Zenon DEF Request
<1>3. a.tx = NoRows /\ a.role = "user" /\ a.pc = "insert workspace"
  BY IdleTyped, IdleIs DEF Request
<1>4. Admit(i, b, a)
  BY DEF AskForWorkspace
<1> HIDE DEF a
<1> QED
  BY <1>2, <1>3, <1>4, AdmitSound DEF Admitted

LEMMA AskForConversationSound ==
  ASSUME Sound, NEW i \in Numbers, NEW b \in Browsers, AskForConversation(i, b)
  PROVE  Sound' /\ Admitted(i, b)
<1>1. PICK w \in tables.workspace :
        Admit(i, b, [Idle EXCEPT !.pc = "member", !.workspace = w])
  BY DEF AskForConversation
<1> DEFINE a == [Idle EXCEPT !.pc = "member", !.workspace = w]
<1>2. "member" \in Steps /\ w \in Ids
  BY DEF Steps, Sound, Typed, Tables
<1>3. a \in Request
  BY <1>2, IdleTyped, Zenon DEF Request
<1>4. a.tx = NoRows /\ a.role = "user" /\ a.pc = "member" /\ a.conversation = 0
  BY IdleTyped, IdleIs DEF Request
<1>5. Admit(i, b, a)
  BY <1>1
<1> HIDE DEF a
<1> QED
  BY <1>3, <1>4, <1>5, AdmitSound DEF Admitted

LEMMA AskSound ==
  ASSUME Sound, NEW i \in Numbers, NEW b \in Browsers, Ask(i, b)
  PROVE  Sound' /\ Admitted(i, b)
<1>1. PICK w \in tables.workspace, c \in tables.conversations, q \in Questions,
           s \in BOOLEAN :
        Admit(i, b, [Idle EXCEPT !.pc = "member", !.workspace = w, !.conversation = c.id,
                                 !.streams = s, !.text = q])
  BY DEF Ask
<1> DEFINE a == [Idle EXCEPT !.pc = "member", !.workspace = w, !.conversation = c.id,
                             !.streams = s, !.text = q]
<1>2. "member" \in Steps /\ w \in Ids /\ c.id \in Ids /\ q \in Text
  BY DEF Steps, Sound, Typed, Tables, Text
<1>3. a \in Request
  BY <1>2, IdleTyped, Zenon DEF Request
<1>4. a.tx = NoRows /\ a.role = "user" /\ a.pc = "member" /\ a.text = q
  BY IdleTyped, IdleIs DEF Request
<1>5. Admit(i, b, a)
  BY <1>1
<1> HIDE DEF a
<1> QED
  BY <1>2, <1>3, <1>4, <1>5, AdmitSound DEF Admitted

-----------------------------------------------------------------------------
(* What happens at a browser, at the provider or by time alone.             *)

LEMMA BrowserSound ==
  ASSUME Sound, UNCHANGED <<store, requests>>, Typed', Sessions'
  PROVE  Sound'
<1>1. UNCHANGED <<tables, titles, messages, stamps, requests>>
  BY DEF store
<1>2. ASSUME NEW i \in Numbers PROVE Fits(i)'
  <2>1. Fits(i)
    BY DEF Sound
  <2>2. Holds(i)' /\ Fresh(i)'
    BY <1>1, <2>1 DEF Fits, Holds, Fresh
  <2>3. Entitled(i)'
    BY <1>1, <2>1 DEF Fits, Entitled, IsMember, ConversationIsIn
  <2>4. Asked(i)'
    BY <1>1, <2>1 DEF Fits, Asked, Answering
  <2> QED
    BY <2>2, <2>3, <2>4 DEF Fits
<1>3. Apart'
  BY <1>1 DEF Sound, Apart
<1>4. TitleOfTheFirstText'
  BY <1>1, TitlesStay DEF Sound
<1>5. Rows'
  BY <1>1 DEF Sound, Rows, UserRows, IdentityRows, WorkspaceRows, ConversationRows
<1>6. Written'
  BY <1>1 DEF Sound, Written, IsMember
<1> QED
  BY <1>2, <1>3, <1>4, <1>5, <1>6 DEF Sound

LEMMA LoginSound == ASSUME Sound, NEW b \in Browsers, Login(b) PROVE Sound'
<1> DEFINE F == [browser : Browsers, used : BOOLEAN]
           f == [browser |-> b, used |-> FALSE]
<1>1. /\ Typed /\ UNCHANGED <<tables, titles, messages, stamps, day, claimed, person, requests>>
      /\ flows' = Append(flows, f)
      /\ cookies' = [cookies EXCEPT ![b].state = Len(flows) + 1]
  BY DEF Sound, Login, store
<1>2. /\ flows \in Seq(F) /\ f \in F
      /\ cookies \in [Browsers -> [state : Nat, session : Session]]
      /\ \A c \in Browsers : cookies[c].state <= Len(flows)
  BY <1>1 DEF Typed
<1>3. flows' \in Seq(F) /\ Len(flows') = Len(flows) + 1 /\ Len(flows) \in Nat
  <2> HIDE DEF F, f
  <2> QED
    BY <1>1, <1>2
<1>4. \A c \in Browsers :
        cookies'[c] = IF c = b THEN [cookies[c] EXCEPT !.state = Len(flows) + 1]
                      ELSE cookies[c]
  BY <1>1, <1>2
<1>5. /\ cookies' \in [Browsers -> [state : Nat, session : Session]]
      /\ \A c \in Browsers : cookies'[c].session = cookies[c].session
  BY <1>1, <1>2, <1>3, <1>4
<1>6. ASSUME NEW c \in Browsers PROVE cookies'[c].state <= Len(flows')
  <2>1. /\ cookies[c].state \in Nat /\ cookies[c].state <= Len(flows)
        /\ cookies'[c].state \in {cookies[c].state, Len(flows) + 1}
    BY <1>2, <1>4
  <2> QED
    BY ONLY <1>3, <2>1
<1>7. Typed'
  BY <1>1, <1>3, <1>5, <1>6 DEF Typed
<1>8. Sessions'
  BY <1>1, <1>5, SessionsStay DEF Sound
<1> QED
  BY <1>7, <1>8, BrowserSound DEF Login

LEMMA LogoutSound == ASSUME Sound, NEW b \in Browsers, Logout(b) PROVE Sound'
<1> DEFINE p == [subject |-> "", day |-> 0]
<1>1. /\ Typed /\ UNCHANGED <<tables, titles, messages, stamps, day, claimed, flows, requests>>
      /\ cookies' = [cookies EXCEPT ![b].session = NoSession]
      /\ person' = [person EXCEPT ![b] = p]
  BY DEF Sound, Logout, store
<1>2. /\ cookies \in [Browsers -> [state : Nat, session : Session]]
      /\ person \in [Browsers -> [subject : Subjects \cup {""}, day : Nat]]
      /\ \A c \in Browsers : cookies[c].state <= Len(flows)
  BY <1>1 DEF Typed
<1>3. NoSession \in Session /\ p \in [subject : Subjects \cup {""}, day : Nat]
  BY DEF NoSession, Session
<1>4. \A c \in Browsers :
        /\ cookies'[c] = IF c = b THEN [cookies[c] EXCEPT !.session = NoSession]
                         ELSE cookies[c]
        /\ person'[c] = IF c = b THEN p ELSE person[c]
  BY <1>1, <1>2
<1>5. /\ cookies' \in [Browsers -> [state : Nat, session : Session]]
      /\ person' \in [Browsers -> [subject : Subjects \cup {""}, day : Nat]]
      /\ \A c \in Browsers : cookies'[c].state <= Len(flows)
  <2> HIDE DEF p
  <2>1. \A c \in Browsers : [cookies[c] EXCEPT !.session = NoSession]
                             \in [state : Nat, session : Session]
    BY <1>2, <1>3
  <2>2. \A c \in Browsers : cookies'[c] \in [state : Nat, session : Session]
    BY <1>2, <1>4, <2>1
  <2>3. \A c \in Browsers : cookies'[c].state = cookies[c].state
    BY <1>2, <1>4
  <2>4. cookies' \in [Browsers -> [state : Nat, session : Session]]
    BY <1>1, <1>2, <2>2
  <2>5. person' \in [Browsers -> [subject : Subjects \cup {""}, day : Nat]]
    BY <1>1, <1>2, <1>3
  <2> QED
    BY <1>2, <2>3, <2>4, <2>5
<1>6. Typed'
  BY <1>1, <1>5 DEF Typed
<1>7. Sessions'
  <2>1. cookies'[b].session = NoSession
    BY <1>2, <1>4
  <2>2. \A c \in Browsers \ {b} :
          cookies'[c].session = cookies[c].session /\ person'[c] = person[c]
    BY <1>4
  <2>3. Sessions /\ tables' = tables
    BY <1>1 DEF Sound
  <2> QED
    BY ONLY <2>1, <2>2, <2>3 DEF Sessions
<1> QED
  BY <1>6, <1>7, BrowserSound DEF Logout

LEMMA OutsideSound ==
  ASSUME Sound, (\E s \in Subjects : ChangeEmail(s)) \/ Tomorrow \/ UNCHANGED vars
  PROVE  Sound'
<1>1. /\ UNCHANGED <<tables, titles, messages, stamps, flows, cookies, person, requests>>
      /\ Typed
  BY DEF ChangeEmail, Tomorrow, vars, store, Sound
<1>2. claimed' \in [Subjects -> Emails] /\ day' \in Nat
  <2>1. claimed \in [Subjects -> Emails] /\ day \in Nat
    BY <1>1 DEF Typed
  <2>2. CASE \E s \in Subjects : ChangeEmail(s)
    BY <2>1, <2>2 DEF ChangeEmail
  <2>3. CASE Tomorrow
    BY <2>1, <2>3 DEF Tomorrow
  <2>4. CASE UNCHANGED vars
    BY <2>1, <2>4 DEF vars
  <2> QED
    BY <2>2, <2>3, <2>4
<1>3. Typed'
  BY <1>1, <1>2 DEF Typed
<1>4. Sessions'
  BY <1>1 DEF Sound, Sessions
<1> QED
  BY <1>1, <1>3, <1>4, BrowserSound DEF store

LEMMA NextSound == Sound /\ [Next]_vars => Sound'
<1> SUFFICES ASSUME Sound, [Next]_vars PROVE Sound'
  OBVIOUS
<1>1. CASE \E b \in Browsers : Login(b) \/ Logout(b)
  BY <1>1, LoginSound, LogoutSound
<1>2. ASSUME NEW i \in Numbers, NEW b \in Browsers,
             \/ Callback(i, b) \/ Token(i, b)
             \/ AskForWorkspace(i, b) \/ AskForConversation(i, b) \/ Ask(i, b)
      PROVE  Sound'
  BY <1>2, CallbackSound, TokenSound, AskForWorkspaceSound, AskForConversationSound,
     AskSound
<1>3. ASSUME NEW i \in Numbers,
             \/ Exchange(i) \/ resolveUser(i) \/ provisionUser(i) \/ issueSession(i)
             \/ LoginFails(i)
      PROVE  Sound'
  BY <1>3, ExchangeSound, resolveUserSound, provisionUserSound, issueSessionSound,
     LoginFailsSound
<1>4. ASSUME NEW i \in Numbers,
             \/ CreateWorkspace(i)
             \/ EnsureMember(i, IF requests[i].conversation = 0 THEN "insert conversation"
                                ELSE "conversation")
             \/ CreateConversation(i) \/ ensureConversationInWorkspace(i) \/ Retrieve(i)
      PROVE  Sound'
  BY <1>4, CreateWorkspaceSound, EnsureMemberSound, CreateConversationSound,
     ConversationSound, RetrieveSound
<1>5. ASSUME NEW i \in Numbers,
             BeginAppend(i) \/ AppendMessage(i) \/ Generate(i) \/ Fails(i)
      PROVE  Sound'
  BY <1>5, BeginAppendSound, AppendMessageSound, GenerateSound, FailsSound
<1>6. CASE (\E s \in Subjects : ChangeEmail(s)) \/ Tomorrow \/ UNCHANGED vars
  BY <1>6, OutsideSound
<1> QED
  BY <1>1, <1>2, <1>3, <1>4, <1>5, <1>6 DEF Next

THEOREM StoreIsSound == Spec => []Sound
<1>1. Init => Sound
  BY InitSound
<1>2. Sound /\ [Next]_vars => Sound'
  BY NextSound
<1> QED
  BY <1>1, <1>2, PTL DEF Spec
-----------------------------------------------------------------------------
(* The properties.                                                          *)

LEMMA SoundTypes == Sound => TypeOK
<1> SUFFICES ASSUME Sound PROVE TypeOK
  OBVIOUS
<1>1. Typed /\ tables \in Tables
  BY DEF Sound, Typed
<1>2. /\ tables.users \subseteq [id: Ids, email: Emails]
      /\ tables.user_identity \subseteq [user: Ids, subject: Subjects]
      /\ tables.workspace \subseteq Ids
      /\ tables.user_workspace \subseteq [user: Ids, workspace: Ids, role: {"owner"}]
      /\ tables.conversations \subseteq [id: Ids, workspace: Ids]
  BY <1>1 DEF Tables
<1>3. \A m \in ToSet(messages) : m.conversation \in Ids /\ m.created_at \in 1..stamps
  <2>1. messages \in Seq(Row)
    BY <1>1 DEF Typed
  <2>2. ASSUME NEW k \in DOMAIN messages
        PROVE  messages[k].conversation \in Ids /\ messages[k].created_at \in 1..stamps
    <3>1. messages[k] \in Row
      <4> HIDE DEF Row
      <4> QED
        BY <2>1
    <3> QED
      BY <3>1 DEF Row, Sound, Written
  <2> QED
    BY <2>2 DEF ToSet
<1>4. ASSUME NEW b \in Browsers
      PROVE  cookies[b].state \in 0..Len(flows) /\ cookies[b].session.user \in Ids \cup {0}
  <2>1. cookies[b] \in [state : Nat, session : Session] /\ cookies[b].state <= Len(flows)
    BY <1>1 DEF Typed
  <2>2. cookies[b].state \in Nat /\ cookies[b].session.user \in Ids \cup {0}
    BY <2>1 DEF Session
  <2>3. Len(flows) \in Nat
    BY <1>1, LenTyped
  <2> QED
    BY ONLY <2>1, <2>2, <2>3
<1>5. /\ titles \in [Ids -> {""} \cup ((Questions \cup Answers) \ {Blank})]
      /\ stamps \in Nat /\ day \in Nat
      /\ claimed \in [Subjects -> Emails]
      /\ flows \in Seq([browser: Browsers, used: BOOLEAN])
      /\ person \in [Browsers -> [day: Nat, subject: Subjects \cup {""}]]
  BY <1>1 DEF Typed, Text
<1> QED
  BY <1>2, <1>3, <1>4, <1>5 DEF TypeOK

\* The tables, the clocks, the cookies and the titles have their types.
THEOREM TypesAreKept == Spec => []TypeOK
  BY StoreIsSound, SoundTypes, PTL

\* However many first logins overlap, whichever subjects and addresses they
\* claim: a subject has one user and a user one subject.
THEOREM SubjectsAndUsersMatch == Spec => []OneUserPerSubject
<1>1. Sound => OneUserPerSubject
  <2> SUFFICES ASSUME Sound PROVE OneUserPerSubject
    OBVIOUS
  <2>1. UserRows /\ IdentityRows
    BY DEF Sound, Rows
  <2>2. ASSUME NEW u \in tables.users
        PROVE  Cardinality({d \in tables.user_identity : d.user = u.id}) = 1
    <3>1. PICK d \in tables.user_identity : d.user = u.id
      BY <2>1 DEF UserRows
    <3>2. {e \in tables.user_identity : e.user = u.id} = {d}
      BY <2>1, <3>1 DEF IdentityRows
    <3> QED
      BY <3>2, FS_Singleton
  <2>3. \A d \in tables.user_identity :
          /\ \E u \in tables.users : u.id = d.user
          /\ \A e \in tables.user_identity : e.subject = d.subject => e = d
    BY <2>1 DEF IdentityRows
  <2> QED
    BY <2>2, <2>3 DEF OneUserPerSubject
<1> QED
  BY <1>1, StoreIsSound, PTL

\* Every committed workspace is in the list of exactly one user.
THEOREM WorkspacesAreOwned == Spec => []OwnedWorkspaces
<1>1. Sound => OwnedWorkspaces
  <2> SUFFICES ASSUME Sound, NEW w \in tables.workspace
               PROVE  Cardinality({u \in tables.users : w \in List(u.id)}) = 1
    BY DEF OwnedWorkspaces
  <2>1. UserRows /\ WorkspaceRows
    BY DEF Sound, Rows
  <2>2. PICK m \in tables.user_workspace : m.workspace = w
    BY <2>1 DEF WorkspaceRows
  <2>3. PICK u \in tables.users : u.id = m.user
    BY <2>1 DEF WorkspaceRows
  <2>4. \A v \in tables.users : w \in List(v.id) <=> v.id = m.user
    BY <2>1, <2>2 DEF List, IsMember, WorkspaceRows
  <2>5. {v \in tables.users : w \in List(v.id)} = {u}
    BY <2>1, <2>3, <2>4 DEF UserRows
  <2> QED
    BY <2>5, FS_Singleton
<1> QED
  BY <1>1, StoreIsSound, PTL

\* All that a conversation lists was written by members of its workspace.
THEOREM TenantsStayApart == Spec => []TenantsApart
<1>1. Sound => TenantsApart
  <2> SUFFICES ASSUME Sound, NEW row \in tables.conversations, NEW m \in ListMessages(row.id)
               PROVE  IsMember(m.author, row.workspace)
    BY DEF TenantsApart
  <2>1. PICK j \in DOMAIN messages : m = messages[j] /\ m.conversation = row.id
    BY DEF ListMessages, ToSet
  <2>2. PICK c \in tables.conversations :
          c.id = m.conversation /\ IsMember(m.author, c.workspace)
    BY <2>1 DEF Sound, Written
  <2>3. c = row
    BY <2>1, <2>2 DEF Sound, Rows, ConversationRows
  <2> QED
    BY <2>2, <2>3
<1> QED
  BY <1>1, StoreIsSound, PTL

\* A conversation has the title of its first message that gives one, for good.
THEOREM TitleIsOfTheFirstText == Spec => []TitleOfTheFirstText
  BY StoreIsSound, PTL DEF Sound

\* An answer is listed after the question of its turn.
THEOREM AnswersComeAfter == Spec => []AnswersFollowQuestions
<1>1. Sound => AnswersFollowQuestions
  <2> SUFFICES ASSUME Sound, NEW c \in Ids, NEW n \in ListMessages(c), n.role = "assistant"
               PROVE  \E m \in ListMessages(c) :
                        m.role = "user" /\ m.turn = n.turn /\ ListedBefore(m, n)
    BY DEF AnswersFollowQuestions
  <2>1. PICK j \in DOMAIN messages : n = messages[j] /\ n.conversation = c
    BY DEF ListMessages, ToSet
  <2>2. PICK k \in DOMAIN messages :
          /\ messages[k].role = "user" /\ messages[k].turn = n.turn
          /\ messages[k].conversation = n.conversation
          /\ messages[k].created_at < n.created_at
    BY <2>1 DEF Sound, Written
  <2>3. messages[k] \in ListMessages(c)
    BY <2>1, <2>2 DEF ListMessages, ToSet
  <2> QED
    BY <2>2, <2>3 DEF ListedBefore
<1> QED
  BY <1>1, StoreIsSound, PTL

-----------------------------------------------------------------------------
(* RequireUser: whoever a request acts as logged in at its browser.         *)

LEMMA AdmittedActs ==
  ASSUME Sound, NEW i \in Numbers, NEW b \in Browsers, Admitted(i, b)
  PROVE  LET p == person[requests'[i].browser] IN
         /\ Identity(requests'[i].user, p.subject) \in tables.user_identity
         /\ day < p.day + SessionTTL
  BY DEF Sound, Sessions, Admitted, Verify

\* The steps of requests in progress leave alone those that have not arrived.
LEMMA IdleStays ==
  ASSUME Typed, NEW i \in Numbers, requests[i].pc = "idle", NEW j \in Numbers,
         \/ Exchange(j) \/ resolveUser(j) \/ provisionUser(j) \/ issueSession(j)
         \/ LoginFails(j) \/ CreateWorkspace(j)
         \/ EnsureMember(j, IF requests[j].conversation = 0 THEN "insert conversation"
                            ELSE "conversation")
         \/ CreateConversation(j) \/ ensureConversationInWorkspace(j) \/ Retrieve(j)
         \/ BeginAppend(j) \/ AppendMessage(j) \/ Generate(j) \/ Fails(j)
  PROVE  requests'[i] = requests[i]
<1>1. \A step : (Goto(j, step) \/ End(j)) /\ i # j => requests'[i] = requests[i]
  BY DEF Goto, End, Typed
<1>2. CASE \/ Exchange(j) \/ resolveUser(j) \/ issueSession(j) \/ LoginFails(j)
  BY <1>1, <1>2 DEF Exchange, resolveUser, issueSession, LoginFails, At, Typed
<1>3. CASE provisionUser(j)
  BY <1>3 DEF provisionUser, Insert, At, Typed
<1>4. CASE CreateWorkspace(j)
  BY <1>1, <1>4 DEF CreateWorkspace, Insert, At, Typed
<1>5. CASE \/ EnsureMember(j, IF requests[j].conversation = 0 THEN "insert conversation"
                              ELSE "conversation")
           \/ CreateConversation(j) \/ ensureConversationInWorkspace(j) \/ Retrieve(j)
  BY <1>1, <1>5
     DEF EnsureMember, CreateConversation, ensureConversationInWorkspace, Retrieve, At
<1>6. CASE BeginAppend(j) \/ AppendMessage(j) \/ Generate(j) \/ Fails(j)
  BY <1>1, <1>6 DEF BeginAppend, AppendMessage, Generate, Fails, At, Typed
<1> QED
  BY <1>2, <1>3, <1>4, <1>5, <1>6

LEMMA OnlyAdmitted ==
  ASSUME Sound, [Next]_vars, NEW i \in Numbers, At(i, "idle"), requests'[i].user # 0
  PROVE  \E b \in Browsers : Admitted(i, b)
<1>1. requests[i].user = 0 /\ requests[i].pc = "idle" /\ Typed
  BY DEF At, Sound, Fits, Entitled
<1>2. requests'[i] # requests[i]
  BY <1>1
<1>3. ASSUME NEW j \in Numbers, NEW r, Arrive(j, r) PROVE j = i
  BY <1>1, <1>2, <1>3 DEF Arrive, Typed
<1>4. PICK j \in Numbers, b \in Browsers :
        \/ Callback(j, b) \/ Token(j, b)
        \/ AskForWorkspace(j, b) \/ AskForConversation(j, b) \/ Ask(j, b)
  <2>1. ~ \E c \in Browsers : Login(c) \/ Logout(c)
    BY <1>2 DEF Login, Logout
  <2>2. ~ ((\E s \in Subjects : ChangeEmail(s)) \/ Tomorrow \/ UNCHANGED vars)
    BY <1>2 DEF ChangeEmail, Tomorrow, vars
  <2> QED
    BY <1>1, <1>2, <2>1, <2>2, IdleStays DEF Next
<1>5. j = i
  BY <1>3, <1>4 DEF Callback, Token, AskForWorkspace, AskForConversation, Ask, Admit
<1>6. ~ Callback(i, b) /\ ~ Token(i, b)
  BY CallbackSound, TokenSound
<1> QED
  BY <1>4, <1>5, <1>6, AskForWorkspaceSound, AskForConversationSound, AskSound

\* A request never acts as a user who is not linked to the subject that logged
\* in at its browser, nor longer than SessionTTL after that login.
THEOREM RequestsActAsTheirLogin == Spec => ActsAsItsLogin
<1> DEFINE Acts ==
      \A i \in Numbers :
        At(i, "idle") /\ requests'[i].user # 0 =>
          LET p == person[requests'[i].browser] IN
          /\ Identity(requests'[i].user, p.subject) \in tables.user_identity
          /\ day < p.day + SessionTTL
<1>1. Sound /\ [Next]_vars => Acts
  BY AdmittedActs, OnlyAdmitted
<1>2. Spec => [][Acts]_vars
  BY <1>1, StoreIsSound, PTL DEF Spec
<1> QED
  BY <1>2 DEF ActsAsItsLogin
=============================================================================

------------------------------ MODULE Accounts ------------------------------
(***************************************************************************)
(* Accounts, tokens and sharing: the routes of the gateway that need the   *)
(* user service (gateway/handler/handler.go), the user service itself      *)
(* (user-service/service/user.go) and the tokens (pkg/auth/jwt.go).        *)
(* Requests run concurrently.  A step is one statement on the users table, *)
(* or one command on the collection of documents; ShareDoc is the route    *)
(* that needs two services, one after the other, and ListDocs counts before*)
(* it reads.                                                               *)
(*                                                                         *)
(* An account is named by its position in users.  A password stands for    *)
(* itself and for its bcrypt hash.                                         *)
(***************************************************************************)
EXTENDS Integers, Sequences, FiniteSets

CONSTANTS
  Requests,  \* HTTP requests, each made once
  Emails, Names, Passwords, DocIds,
  Paging,    \* <<page, page_size>> as the browser writes them
  IntBound,  \* an int32 is in -IntBound .. IntBound - 1 (2^31 in the code)
  NoForm, NoToken, NoList,
  Faults     \* TRUE: commands may fail and replies get lost

ASSUME AccountsAssumption ==
  /\ Paging \subseteq Int \X Int /\ IntBound \in Nat \ {0}
  /\ Faults \in BOOLEAN
  /\ NoList \notin [total : Nat, docs : SUBSET DocIds, short : BOOLEAN]

VARIABLES
  users,    \* the table: [email, name, password]
  owner,    \* owner[d]: the account that created d, or 0
  shared,   \* shared[d]: collaborators of d
  pc,       \* pc[r]: the command request r leads to next
  form,     \* form[r]: what the browser sent
  target,   \* target[r]: the account LookupByUsername found, or 0
  reply,    \* reply[r]: the token in the answer
  list,     \* list[r]: what ListDocs has, and then the answer; "short" says that
            \* its cursor or a decoding failed (history)
  bore      \* every <<account, username>> there has been (history)

vars == <<users, owner, shared, pc, form, target, reply, list, bore>>

UserIds == 1 .. Len(users)
User == [email : Emails, name : Names, password : Passwords]
Token == [user : UserIds, name : Names]
Tokens == {reply[r] : r \in Requests} \ {NoToken}

RegisterForm == [op : {"register"}, email : Emails, name : Names, password : Passwords]
LoginForm == [op : {"login"}, email : Emails, password : Passwords]
CreateForm == [op : {"create"}, token : Tokens, doc : DocIds]
ShareForm == [op : {"share"}, token : Tokens, doc : DocIds, name : Names]
ListForm == {[op |-> "list", token |-> t, page |-> g[1], size |-> g[2]] : t \in Tokens, g \in Paging}
Forms == RegisterForm \cup LoginForm \cup CreateForm \cup ShareForm \cup ListForm

Init ==
  /\ users = <<>>
  /\ owner = [d \in DocIds |-> 0] /\ shared = [d \in DocIds |-> {}]
  /\ pc = [r \in Requests |-> "new"] /\ form = [r \in Requests |-> NoForm]
  /\ target = [r \in Requests |-> 0] /\ reply = [r \in Requests |-> NoToken]
  /\ list = [r \in Requests |-> NoList]
  /\ bore = {}

Step(r, from, to) == pc[r] = from /\ pc' = [pc EXCEPT ![r] = to]

\* The answer of a command that was carried out reaches the browser, or not:
\* the gateway waits 5s.
Answer(r, token) ==
  \/ reply' = [reply EXCEPT ![r] = token]
  \/ Faults /\ UNCHANGED reply

-----------------------------------------------------------------------------
\* JWTAuth: a token is of the gateway's making and younger than 24 hours.  As
\* time is left out, any token may be too old by now.
JWTAuth(r, f) ==
  \/ Step(r, "new", IF f.op = "share" THEN "lookup" ELSE f.op)
  \/ Step(r, "new", "done")

Begin(r, f) ==
  /\ IF f.op \in {"register", "login"} THEN Step(r, "new", f.op) ELSE JWTAuth(r, f)
  /\ form' = [form EXCEPT ![r] = f]
  /\ UNCHANGED <<users, owner, shared, target, reply, list, bore>>

GenerateToken(u, name) == [user |-> u, name |-> name]

\* Mutant of Register: ON CONFLICT (email), the row there is is returned.
RegisterOrGet(r) ==
  LET f == form[r]
      known == {u \in UserIds : users[u].email = f.email}
      u == IF known = {} THEN Len(users) + 1 ELSE CHOOSE v \in known : TRUE
  IN  /\ Step(r, "register", "done")
      /\ users' = IF known = {}
                    THEN Append(users, [email |-> f.email, name |-> f.name,
                                        password |-> f.password])
                    ELSE users
      /\ bore' = bore \cup {<<u, f.name>>}
      /\ Answer(r, GenerateToken(u, f.name))
      /\ UNCHANGED <<owner, shared, form, target, list>>

\* INSERT, which the UNIQUE constraint on email may refuse.  Every error is
\* reported as "email already registered".
Register(r) ==
  LET f == form[r] IN
  /\ Step(r, "register", "done")
  /\ \/ /\ \A u \in UserIds : users[u].email # f.email
        /\ users' = Append(users, [email |-> f.email, name |-> f.name,
                                   password |-> f.password])
        /\ bore' = bore \cup {<<Len(users) + 1, f.name>>}
        /\ Answer(r, GenerateToken(Len(users) + 1, f.name))
     \/ /\ Faults \/ \E u \in UserIds : users[u].email = f.email
        /\ UNCHANGED <<users, bore, reply>>
  /\ UNCHANGED <<owner, shared, form, target, list>>

\* SELECT by email, then the password is compared.
Login(r) ==
  LET f == form[r] IN
  /\ Step(r, "login", "done")
  /\ \/ \E u \in UserIds :
          /\ users[u].email = f.email /\ users[u].password = f.password
          /\ Answer(r, GenerateToken(u, users[u].name))
     \/ /\ Faults \/ ~\E u \in UserIds : users[u].email = f.email
                                         /\ users[u].password = f.password
        /\ UNCHANGED reply
  /\ UNCHANGED <<users, owner, shared, form, target, list, bore>>

\* UpdateUser, which the gateway has no route to.
UpdateUser(u, name) ==
  /\ users' = [users EXCEPT ![u].name = name]
  /\ bore' = bore \cup {<<u, name>>}
  /\ UNCHANGED <<owner, shared, pc, form, target, reply, list>>

\* CreateDoc, for the account the token names.
CreateDoc(r) ==
  LET f == form[r] IN
  /\ Step(r, "create", "done")
  /\ \/ owner[f.doc] = 0 /\ owner' = [owner EXCEPT ![f.doc] = f.token.user]
     \/ (Faults \/ owner[f.doc] # 0) /\ UNCHANGED owner
  /\ UNCHANGED <<users, shared, form, target, reply, list, bore>>

-----------------------------------------------------------------------------
\* Mutant of LookupByUsername: the error is logged, and the share goes on.
LookupGoesOn(r) ==
  /\ Step(r, "lookup", "share")
  /\ \/ \E u \in UserIds :
          users[u].name = form[r].name /\ target' = [target EXCEPT ![r] = u]
     \/ (\A u \in UserIds : users[u].name # form[r].name) /\ UNCHANGED target
  /\ UNCHANGED <<users, owner, shared, form, reply, list, bore>>

\* SELECT by username, which need not be unique: some row of it.
LookupByUsername(r) ==
  /\ \/ /\ Step(r, "lookup", "share")
        /\ \E u \in UserIds :
             users[u].name = form[r].name /\ target' = [target EXCEPT ![r] = u]
     \/ /\ Step(r, "lookup", "done")
        /\ Faults \/ \A u \in UserIds : users[u].name # form[r].name
        /\ UNCHANGED target
  /\ UNCHANGED <<users, owner, shared, form, reply, list, bore>>

\* Mutant of ShareDoc: the filter is the id alone.
ShareAny(r) ==
  /\ Step(r, "share", "done")
  /\ shared' = [shared EXCEPT ![form[r].doc] =
                  IF owner[form[r].doc] = 0 THEN @ ELSE @ \cup {target[r]}]
  /\ UNCHANGED <<users, owner, form, target, reply, list, bore>>

\* UpdateOne by id and owner; the error that nothing matched changes nothing,
\* and neither does a second share with the same account ($addToSet).
ShareDoc(r) ==
  LET f == form[r] IN
  /\ Step(r, "share", "done")
  /\ \/ owner[f.doc] = f.token.user
        /\ shared' = [shared EXCEPT ![f.doc] = @ \cup {target[r]}]
     \/ (Faults \/ owner[f.doc] # f.token.user) /\ UNCHANGED shared
  /\ UNCHANGED <<users, owner, form, target, reply, list, bore>>

-----------------------------------------------------------------------------
\* int32: the gateway cuts the numbers off, and the service multiplies them.
Int32(n) == ((n + IntBound) % (2 * IntBound)) - IntBound

\* Mutant of Skip: the pages are counted from 0.
SkipFromZero(page, size) == Int32(Int32(page) * Int32(size))

Skip(page, size) == Int32((Int32(page) - 1) * Int32(size))

\* How many of n documents a limit leaves after the skip: 0 is no limit, and
\* of a negative one the sign is dropped.
Returned(n, skip, limit) ==
  LET rest == IF n > skip THEN n - skip ELSE 0
      most == IF limit < 0 THEN -limit ELSE limit
  IN  IF most = 0 \/ rest < most THEN rest ELSE most

\* The filter of ListDocs.
Visible(u) == {d \in DocIds : owner[d] # 0 /\ (owner[d] = u \/ u \in shared[d])}

Found(r, docs, short) ==
  list' = [list EXCEPT ![r].docs = docs, ![r].short = short]
NotListed(r) == list' = [list EXCEPT ![r] = NoList]

\* CountDocuments.
CountDocs(r) ==
  /\ \/ /\ Step(r, "list", "find")
        /\ list' = [list EXCEPT ![r] = [total |-> Cardinality(Visible(form[r].token.user)),
                                        docs |-> {}, short |-> FALSE]]
     \/ Faults /\ Step(r, "list", "done") /\ UNCHANGED list
  /\ UNCHANGED <<users, owner, shared, form, target, reply, bore>>

\* Find, by updated_at, which saves change all the time: which documents a page
\* holds is open, but not how many.  A negative skip is an error.  One of the
\* cursor after its first batch ends the list, as if there were no more; a
\* document that cannot be decoded is left out, and its error dropped.
FindDocs(r) ==
  LET f == form[r]
      visible == Visible(f.token.user)
      skip == Skip(f.page, f.size)
      k == Returned(Cardinality(visible), skip, Int32(f.size))
  IN  /\ Step(r, "find", "done")
      /\ \/ (Faults \/ skip < 0) /\ NotListed(r)
         \/ skip >= 0 /\ \E docs \in SUBSET visible :
              \/ Cardinality(docs) = k /\ Found(r, docs, FALSE)
              \/ Faults /\ Cardinality(docs) < k /\ Found(r, docs, TRUE)
      /\ UNCHANGED <<users, owner, shared, form, target, reply, bore>>

ListDocs(r) == CountDocs(r) \/ FindDocs(r)

Serve(r) ==
  \/ Register(r) \/ Login(r) \/ CreateDoc(r) \/ LookupByUsername(r) \/ ShareDoc(r)
  \/ ListDocs(r)

\* Every request was answered; the services wait for ever.
Served == (\A r \in Requests : pc[r] = "done") /\ UNCHANGED vars

Next ==
  \/ Served
  \/ \E r \in Requests : Serve(r) \/ \E f \in Forms : Begin(r, f)
  \/ \E u \in UserIds, name \in Names : UpdateUser(u, name)

Spec == Init /\ [][Next]_vars

-----------------------------------------------------------------------------
(***************************************************************************)
(* Properties.                                                             *)
(***************************************************************************)

\* Every variable keeps its type: owners, collaborators and tokens name
\* accounts in the table.
TypeOK ==
  /\ users \in Seq(User)
  /\ owner \in [DocIds -> UserIds \cup {0}] /\ shared \in [DocIds -> SUBSET UserIds]
  /\ pc \in [Requests -> {"new", "register", "login", "create", "lookup", "share",
                          "list", "find", "done"}]
  /\ form \in [Requests -> Forms \cup {NoForm}]
  /\ target \in [Requests -> UserIds \cup {0}]
  /\ reply \in [Requests -> Token \cup {NoToken}]
  /\ \A r \in Requests : list[r] # NoList =>
       form[r].op = "list" /\ list[r].docs \subseteq DocIds /\ list[r].total >= 0
  /\ bore \subseteq UserIds \X Names

\* A token is handed only to a browser that gave the email and the password
\* of the account the token names, and two registrations never get the same
\* account, however they race for one email.
TokensEarned ==
  \A r \in Requests : reply[r] # NoToken =>
    LET u == reply[r].user IN
    /\ users[u].email = form[r].email /\ users[u].password = form[r].password
    /\ <<u, reply[r].name>> \in bore
    /\ form[r].op = "register" =>
         \A q \in Requests \ {r} :
           reply[q] # NoToken /\ form[q].op = "register" => reply[q].user # u

\* A document is shared only with accounts its owner named: by a username the
\* account bore, perhaps no longer when the share reaches the document.
SharedAsNamed ==
  \A d \in DocIds : \A u \in shared[d] :
    \E r \in Requests :
      /\ pc[r] = "done" /\ form[r].op = "share" /\ form[r].doc = d
      /\ form[r].token.user = owner[d] /\ <<u, form[r].name>> \in bore

\* A list that is answered shows documents of the account only, its own and
\* those shared with it, and as many as its page should have of those that
\* were counted: whatever is created and shared between the count and the read,
\* there are fewer only if the cursor failed or a document could not be decoded,
\* which the answer does not tell.  For pages below 1, sizes below 1 and numbers
\* that do not fit, the first part is all that is promised.
ListsFaithful ==
  \A r \in Requests : pc[r] = "done" /\ list[r] # NoList =>
    LET l == list[r]
        before == (form[r].page - 1) * form[r].size
        due == IF l.total - before < form[r].size THEN l.total - before ELSE form[r].size
    IN  /\ l.docs \subseteq Visible(form[r].token.user)
        /\ l.total <= Cardinality(Visible(form[r].token.user))
        /\ form[r].page > 0 /\ form[r].size > 0 /\ before + form[r].size < IntBound
             => /\ Cardinality(l.docs) <= form[r].size
                /\ l.short \/ Cardinality(l.docs) >= due
=============================================================================

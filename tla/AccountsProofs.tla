--------------------------- MODULE AccountsProofs ---------------------------
(***************************************************************************)
(* What TLAPS proves of accounts, tokens and sharing, for any requests,    *)
(* emails, usernames, passwords and documents, with and without failures.  *)
(***************************************************************************)
EXTENDS Accounts, FiniteSetTheorems, SequenceTheorems, TLAPS

-----------------------------------------------------------------------------
(***************************************************************************)
(* Types: what a form asks, and how far a request may be for that.         *)
(***************************************************************************)

PCs == {"new", "register", "login", "create", "lookup", "share", "list", "find", "done"}
Listing == [total : Nat, docs : SUBSET DocIds, short : BOOLEAN]

Formed(r) ==
  /\ pc[r] # "new" => form[r] \in Forms
  /\ pc[r] \in {"register", "login", "create"} => form[r].op = pc[r]
  /\ pc[r] \in {"lookup", "share"} => form[r].op = "share"
  /\ pc[r] \in {"list", "find"} => form[r].op = "list"
  /\ pc[r] # "done" => reply[r] = NoToken
  /\ pc[r] \notin {"find", "done"} => list[r] = NoList
  /\ pc[r] = "find" => list[r] \in Listing
  /\ list[r] # NoList => form[r].op = "list"
  /\ pc[r] = "share" => target[r] \in UserIds /\ <<target[r], form[r].name>> \in bore

\* The documents there are are finitely many, whatever DocIds is.
Created == {d \in DocIds : owner[d] # 0}

\* Accounts, documents and what is said of them; then each request.
TableOK ==
  /\ users \in Seq(User)
  /\ owner \in [DocIds -> UserIds \cup {0}] /\ shared \in [DocIds -> SUBSET UserIds]
  /\ bore \subseteq UserIds \X Names /\ \A u \in UserIds : <<u, users[u].name>> \in bore
  /\ IsFiniteSet(Created)

RequestsOK ==
  /\ pc \in [Requests -> PCs] /\ form \in [Requests -> Forms \cup {NoForm}]
  /\ target \in [Requests -> UserIds \cup {0}] /\ reply \in [Requests -> Token \cup {NoToken}]
  /\ list \in [Requests -> Listing \cup {NoList}]
  /\ \A r \in Requests : Formed(r)

TypeInv == TableOK /\ RequestsOK

LEMMA FormIs ==
  ASSUME NEW f \in Forms
  PROVE  /\ f.op \in {"register", "login", "create", "share", "list"}
         /\ f.op = "register" => f.email \in Emails /\ f.name \in Names /\ f.password \in Passwords
         /\ f.op = "login" => f.email \in Emails /\ f.password \in Passwords
         /\ f.op = "create" => f.token \in Tokens /\ f.doc \in DocIds
         /\ f.op = "share" => f.token \in Tokens /\ f.doc \in DocIds /\ f.name \in Names
         /\ f.op = "list" => f.token \in Tokens /\ f.page \in Int /\ f.size \in Int
<1>1. CASE f \in RegisterForm
  BY <1>1 DEF RegisterForm
<1>2. CASE f \in LoginForm
  BY <1>2 DEF LoginForm
<1>3. CASE f \in CreateForm
  BY <1>3 DEF CreateForm
<1>4. CASE f \in ShareForm
  BY <1>4 DEF ShareForm
<1>5. CASE f \in ListForm
  <2>1. PICK t \in Tokens, g \in Paging : f = [op |-> "list", token |-> t, page |-> g[1], size |-> g[2]]
    BY <1>5 DEF ListForm
  <2>2. g[1] \in Int /\ g[2] \in Int
    BY AccountsAssumption
  <2>3. QED
    BY <2>1, <2>2
<1>6. QED
  BY <1>1, <1>2, <1>3, <1>4, <1>5 DEF Forms

LEMMA TokensAre == ASSUME TypeInv, NEW t \in Tokens PROVE t.user \in UserIds /\ t.name \in Names
BY DEF TypeInv, RequestsOK, Tokens, Token

\* With more tokens there are more forms.
LEMMA FormsGrow == ASSUME Tokens \subseteq Tokens' PROVE Forms \subseteq Forms'
BY DEF Forms, RegisterForm, LoginForm, CreateForm, ShareForm, ListForm

LEMMA TokensGrow ==
  ASSUME NEW r \in Requests, reply[r] = NoToken, \A q \in Requests \ {r} : reply'[q] = reply[q]
  PROVE  Tokens \subseteq Tokens'
BY DEF Tokens

-----------------------------------------------------------------------------
(***************************************************************************)
(* The table of users: rows are added, and of those there are only the     *)
(* username changes.                                                       *)
(***************************************************************************)

LEMMA UserAdded ==
  ASSUME TableOK, NEW u \in User, users' = Append(users, u)
  PROVE  /\ users' \in Seq(User) /\ Len(users) \in Nat /\ Len(users') = Len(users) + 1
         /\ UserIds' = UserIds \cup {Len(users) + 1} /\ users'[Len(users) + 1] = u
         /\ \A v \in UserIds : users'[v] = users[v]
<1>1. users \in Seq(User) /\ Len(users) \in Nat
  BY DEF TableOK
<1>2. /\ users' \in Seq(User) /\ Len(users') = Len(users) + 1
      /\ users'[Len(users) + 1] = u /\ \A v \in 1 .. Len(users) : users'[v] = users[v]
  BY <1>1
<1>3. QED
  BY <1>1, <1>2 DEF UserIds

LEMMA UserRenamed ==
  ASSUME TableOK, NEW u \in UserIds, NEW name \in Names, UpdateUser(u, name)
  PROVE  /\ users' \in Seq(User) /\ UserIds' = UserIds
         /\ \A v \in UserIds : /\ users'[v].email = users[v].email
                               /\ users'[v].password = users[v].password
                               /\ users'[v].name = IF v = u THEN name ELSE users[v].name
<1>1. users \in Seq(User) /\ u \in 1 .. Len(users)
  BY DEF TableOK, UserIds
<1>2. users[u] \in User
  BY <1>1, ElementOfSeq
<1> DEFINE renamed == [users[u] EXCEPT !.name = name]
<1>3. renamed \in User /\ renamed.email = users[u].email /\ renamed.password = users[u].password
      /\ renamed.name = name
  BY <1>2 DEF User
<1>4. users' = [users EXCEPT ![u] = renamed]
  BY DEF UpdateUser
<1> HIDE DEF renamed
<1>5. /\ users' \in Seq(User) /\ Len(users') = Len(users)
      /\ \A v \in 1 .. Len(users) : users'[v] = IF v = u THEN renamed ELSE users[v]
  BY <1>1, <1>3, <1>4, ExceptSeq
<1>6. QED
  BY <1>3, <1>5 DEF UserIds

-----------------------------------------------------------------------------
(***************************************************************************)
(* Nothing is taken back: accounts, tokens, documents and shares stay.     *)
(***************************************************************************)

Grows ==
  /\ UserIds \subseteq UserIds' /\ bore \subseteq bore' /\ Tokens \subseteq Tokens'
  /\ \A u \in UserIds : users'[u].email = users[u].email /\ users'[u].password = users[u].password
  /\ \A d \in DocIds : (owner[d] # 0 => owner'[d] = owner[d]) /\ shared[d] \subseteq shared'[d]

\* What a step of request r leaves alone.
Frame(r) ==
  /\ UNCHANGED form /\ pc[r] \notin {"new", "done"} /\ pc'[r] \in {"share", "find", "done"}
  /\ pc' \in [Requests -> PCs]
  /\ target' \in [Requests -> UserIds' \cup {0}] /\ list' \in [Requests -> Listing \cup {NoList}]
  /\ \A q \in Requests \ {r} : /\ pc'[q] = pc[q] /\ target'[q] = target[q]
                               /\ reply'[q] = reply[q] /\ list'[q] = list[q]

LEMMA RegisterFacts ==
  ASSUME TypeInv, NEW r \in Requests, Register(r)
  PROVE  Frame(r) /\ Grows /\ TableOK' /\ reply' \in [Requests -> Token' \cup {NoToken}]
         /\ UNCHANGED list /\ pc'[r] = "done"
<1>t. TableOK /\ RequestsOK /\ Formed(r)
  BY DEF TypeInv, RequestsOK
<1>f. pc[r] = "register" /\ form[r] \in Forms /\ form[r].op = "register" /\ reply[r] = NoToken
  BY <1>t DEF Register, Step, Formed
<1>u. form[r].email \in Emails /\ form[r].name \in Names /\ form[r].password \in Passwords
  BY <1>f, FormIs
<1>p. pc' = [pc EXCEPT ![r] = "done"] /\ UNCHANGED <<owner, shared, form, target, list>>
  BY DEF Register, Step
<1>r. \A q \in Requests \ {r} : reply'[q] = reply[q]
  BY <1>t DEF Register, Answer, RequestsOK
<1>g. Tokens \subseteq Tokens'
  BY <1>f, <1>r, TokensGrow
<1>1. CASE UNCHANGED <<users, bore, reply>>
  <2>1. UserIds' = UserIds /\ Token' = Token /\ Created' = Created
    BY <1>1, <1>p DEF UserIds, Token, Created
  <2>2. Frame(r)
    BY <1>t, <1>f, <1>p, <1>1, <2>1 DEF Frame, RequestsOK, PCs
  <2>3. Grows
    BY <1>g, <1>p, <1>1, <2>1 DEF Grows
  <2>4. TableOK'
    BY <1>t, <1>p, <1>1, <2>1 DEF TableOK
  <2>5. QED
    BY <1>t, <1>p, <1>1, <2>1, <2>2, <2>3, <2>4 DEF RequestsOK
<1>2. ASSUME users' = Append(users, [email |-> form[r].email, name |-> form[r].name,
                                     password |-> form[r].password]),
             bore' = bore \cup {<<Len(users) + 1, form[r].name>>},
             Answer(r, GenerateToken(Len(users) + 1, form[r].name))
      PROVE  Frame(r) /\ Grows /\ TableOK' /\ reply' \in [Requests -> Token' \cup {NoToken}]
  <2> DEFINE row == [email |-> form[r].email, name |-> form[r].name, password |-> form[r].password]
  <2>0. row \in User /\ row.name = form[r].name /\ users' = Append(users, row)
    BY <1>u, <1>2 DEF User
  <2> HIDE DEF row
  <2>1. /\ users' \in Seq(User) /\ Len(users) \in Nat /\ UserIds' = UserIds \cup {Len(users) + 1}
        /\ \A v \in UserIds : users'[v] = users[v]
        /\ users'[Len(users) + 1].name = form[r].name
    BY <1>t, <2>0, UserAdded
  <2>2. Frame(r)
    BY <1>t, <1>f, <1>p, <1>r, <2>1 DEF Frame, RequestsOK, PCs
  <2>3. Grows
    BY <1>g, <1>p, <1>2, <2>1 DEF Grows
  <2>4. Created' = Created
    BY <1>p DEF Created
  <2>5. TableOK'
    <3>1. \A u \in UserIds' : <<u, users'[u].name>> \in bore'
      BY <1>t, <1>2, <2>1 DEF TableOK
    <3>2. bore' \subseteq UserIds' \X Names
      BY <1>t, <1>u, <1>2, <2>1 DEF TableOK
    <3>3. QED
      BY <1>t, <1>p, <2>1, <2>4, <3>1, <3>2 DEF TableOK
  <2>6. GenerateToken(Len(users) + 1, form[r].name) \in Token' /\ Token \subseteq Token'
    BY <1>u, <2>1 DEF GenerateToken, Token
  <2>7. reply' \in [Requests -> Token' \cup {NoToken}]
    BY <1>t, <1>2, <2>6 DEF Answer, RequestsOK
  <2>8. QED
    BY <2>2, <2>3, <2>5, <2>7
<1>3. QED
  BY <1>p, <1>t, <1>1, <1>2 DEF Register, RequestsOK

\* The other steps of a request leave the accounts alone.
LEMMA ServeFacts ==
  ASSUME TypeInv, NEW r \in Requests, Serve(r), ~Register(r)
  PROVE  Frame(r) /\ Grows /\ TableOK' /\ reply' \in [Requests -> Token' \cup {NoToken}]
         /\ UNCHANGED <<users, bore>>
<1>t. TableOK /\ RequestsOK /\ Formed(r)
  BY DEF TypeInv, RequestsOK
<1>s. UNCHANGED <<users, bore, form>>
  BY DEF Serve, Login, CreateDoc, LookupByUsername, ShareDoc, ListDocs, CountDocs, FindDocs
<1>u. UserIds' = UserIds /\ Token' = Token
  BY <1>s DEF UserIds, Token
<1>1. CASE Login(r)
  <2>1. UNCHANGED <<owner, shared, target, list>> /\ Created' = Created
    BY <1>1 DEF Login, Created
  <2>2. pc[r] = "login" /\ pc' = [pc EXCEPT ![r] = "done"] /\ reply[r] = NoToken
    BY <1>1, <1>t DEF Login, Step, Formed
  <2>3. reply' \in [Requests -> Token \cup {NoToken}] /\ \A q \in Requests \ {r} : reply'[q] = reply[q]
    <3>1. CASE UNCHANGED reply
      BY <1>t, <3>1 DEF RequestsOK
    <3>2. ASSUME NEW u \in UserIds, Answer(r, GenerateToken(u, users[u].name))
          PROVE  reply' \in [Requests -> Token \cup {NoToken}]
                 /\ \A q \in Requests \ {r} : reply'[q] = reply[q]
      <4>1. users[u] \in User
        BY <1>t, ElementOfSeq DEF TableOK, UserIds
      <4>2. GenerateToken(u, users[u].name) \in Token
        BY <4>1 DEF GenerateToken, Token, User
      <4>3. QED
        BY <1>t, <3>2, <4>2 DEF Answer, RequestsOK
    <3>3. QED
      BY <1>1, <3>1, <3>2 DEF Login
  <2>4. Tokens \subseteq Tokens'
    BY <2>2, <2>3, TokensGrow
  <2>5. Frame(r) /\ Grows
    BY <1>t, <1>s, <1>u, <2>1, <2>2, <2>3, <2>4 DEF Frame, Grows, RequestsOK, PCs
  <2>6. QED
    BY <1>t, <1>s, <1>u, <2>1, <2>3, <2>5 DEF TableOK
<1>2. CASE ~Login(r)
  <2>1. UNCHANGED reply
    BY <1>2 DEF Serve, CreateDoc, LookupByUsername, ShareDoc, ListDocs, CountDocs, FindDocs
  <2>2. Tokens' = Tokens /\ reply' \in [Requests -> Token' \cup {NoToken}]
    BY <1>t, <1>u, <2>1 DEF Tokens, RequestsOK
  <2>3. CASE CreateDoc(r)
    <3>1. pc[r] = "create" /\ pc' = [pc EXCEPT ![r] = "done"] /\ UNCHANGED <<shared, target, list>>
      BY <2>3 DEF CreateDoc, Step
    <3>2. form[r].doc \in DocIds /\ form[r].token.user \in UserIds
      BY <1>t, <3>1, FormIs, TokensAre DEF Formed
    <3>3. /\ owner' \in [DocIds -> UserIds \cup {0}]
          /\ \A d \in DocIds : owner[d] # 0 => owner'[d] = owner[d]
          /\ \A d \in DocIds : d # form[r].doc => owner'[d] = owner[d]
      BY <1>t, <2>3, <3>2 DEF CreateDoc, TableOK
    <3>4. IsFiniteSet(Created')
      <4>1. IsFiniteSet(Created \cup {form[r].doc})
        BY <1>t, FS_AddElement DEF TableOK
      <4>2. Created' \subseteq Created \cup {form[r].doc}
        BY <3>3 DEF Created
      <4>3. QED
        BY <4>1, <4>2, FS_Subset
    <3>5. Frame(r) /\ Grows
      BY <1>t, <1>s, <1>u, <2>1, <2>2, <3>1, <3>3 DEF Frame, Grows, RequestsOK, PCs
    <3>6. QED
      BY <1>t, <1>s, <1>u, <2>2, <3>1, <3>3, <3>4, <3>5 DEF TableOK
  <2>4. CASE LookupByUsername(r)
    <3>1. /\ pc[r] = "lookup" /\ pc'[r] \in {"share", "done"} /\ pc' = [pc EXCEPT ![r] = pc'[r]]
          /\ UNCHANGED <<owner, shared, list>> /\ Created' = Created
      BY <1>t, <2>4 DEF LookupByUsername, Step, Created, RequestsOK
    <3>2. /\ target' \in [Requests -> UserIds \cup {0}]
          /\ \A q \in Requests \ {r} : target'[q] = target[q]
      BY <1>t, <2>4 DEF LookupByUsername, RequestsOK
    <3>3. Frame(r) /\ Grows
      BY <1>t, <1>s, <1>u, <2>1, <2>2, <3>1, <3>2 DEF Frame, Grows, RequestsOK, PCs
    <3>4. QED
      BY <1>t, <1>s, <1>u, <2>2, <3>1, <3>3 DEF TableOK
  <2>5. CASE ShareDoc(r)
    <3>1. pc[r] = "share" /\ pc' = [pc EXCEPT ![r] = "done"] /\ UNCHANGED <<owner, target, list>>
      BY <2>5 DEF ShareDoc, Step
    <3>2. form[r].doc \in DocIds /\ target[r] \in UserIds
      BY <1>t, <3>1, FormIs DEF Formed
    <3>3. /\ shared' \in [DocIds -> SUBSET UserIds] /\ \A d \in DocIds : shared[d] \subseteq shared'[d]
      BY <1>t, <2>5, <3>2 DEF ShareDoc, TableOK
    <3>4. Created' = Created
      BY <3>1 DEF Created
    <3>5. Frame(r) /\ Grows
      BY <1>t, <1>s, <1>u, <2>1, <2>2, <3>1, <3>3 DEF Frame, Grows, RequestsOK, PCs
    <3>6. QED
      BY <1>t, <1>s, <1>u, <2>2, <3>1, <3>3, <3>4, <3>5 DEF TableOK
  <2>6. CASE ListDocs(r)
    <3>1. /\ UNCHANGED <<owner, shared, target>> /\ Created' = Created
          /\ pc[r] \in {"list", "find"} /\ pc'[r] \in {"find", "done"} /\ pc' = [pc EXCEPT ![r] = pc'[r]]
      BY <1>t, <2>6 DEF ListDocs, CountDocs, FindDocs, Step, Created, RequestsOK
    <3>2. /\ list' \in [Requests -> Listing \cup {NoList}]
          /\ \A q \in Requests \ {r} : list'[q] = list[q]
      <4>1. CASE CountDocs(r)
        <5>1. Cardinality(Visible(form[r].token.user)) \in Nat
          <6>1. Visible(form[r].token.user) \subseteq Created
            BY DEF Visible, Created
          <6>2. QED
            BY <1>t, <6>1, FS_Subset, FS_CardinalityType DEF TableOK
        <5>2. [total |-> Cardinality(Visible(form[r].token.user)), docs |-> {}, short |-> FALSE] \in Listing
          BY <5>1 DEF Listing
        <5>3. QED
          BY <1>t, <4>1, <5>2 DEF CountDocs, RequestsOK
      <4>2. CASE FindDocs(r)
        <5>1. list[r] \in Listing
          BY <1>t, <4>2 DEF FindDocs, Step, Formed
        <5>2. CASE NotListed(r)
          BY <1>t, <5>2 DEF NotListed, RequestsOK
        <5>3. ASSUME NEW docs \in SUBSET Visible(form[r].token.user), NEW short \in BOOLEAN,
                     Found(r, docs, short)
              PROVE  /\ list' \in [Requests -> Listing \cup {NoList}]
                     /\ \A q \in Requests \ {r} : list'[q] = list[q]
          <6>1. docs \in SUBSET DocIds
            BY DEF Visible
          <6>2. [list[r] EXCEPT !.docs = docs, !.short = short] \in Listing
            BY <5>1, <6>1 DEF Listing
          <6>3. list' = [list EXCEPT ![r] = [list[r] EXCEPT !.docs = docs, !.short = short]]
            BY <1>t, <5>3 DEF Found, RequestsOK
          <6>4. QED
            BY <1>t, <6>2, <6>3 DEF RequestsOK
        <5>4. QED
          BY <4>2, <5>2, <5>3 DEF FindDocs
      <4>3. QED
        BY <2>6, <4>1, <4>2 DEF ListDocs
    <3>3. Frame(r) /\ Grows
      BY <1>t, <1>s, <1>u, <2>1, <2>2, <3>1, <3>2 DEF Frame, Grows, RequestsOK, PCs
    <3>4. QED
      BY <1>t, <1>s, <1>u, <2>2, <3>1, <3>3 DEF TableOK
  <2>7. QED
    BY <1>2, <2>3, <2>4, <2>5, <2>6 DEF Serve
<1>3. QED
  BY <1>1, <1>2

\* A request that does nothing in a step stays as it was.
LEMMA FormedKept ==
  ASSUME TypeInv, Grows, NEW q \in Requests, pc'[q] = pc[q], form'[q] = form[q],
         target'[q] = target[q], reply'[q] = reply[q], list'[q] = list[q]
  PROVE  Formed(q)'
<1>1. Formed(q) /\ Forms \subseteq Forms'
  BY FormsGrow DEF TypeInv, RequestsOK, Grows
<1>2. QED
  BY <1>1 DEF Formed, Grows

LEMMA ServeFormed == ASSUME TypeInv, NEW r \in Requests, Serve(r), Frame(r), Grows PROVE Formed(r)'
<1>t. TableOK /\ RequestsOK /\ Formed(r)
  BY DEF TypeInv, RequestsOK
<1>1. /\ form'[r] = form[r] /\ form[r] \in Forms' /\ pc[r] \notin {"new", "done"}
      /\ pc'[r] \in {"share", "find", "done"}
      /\ list' \in [Requests -> Listing \cup {NoList}]
  BY <1>t, FormsGrow DEF Frame, Formed, Grows
<1>2. pc'[r] = "share" =>
        /\ pc[r] = "lookup" /\ target'[r] \in UserIds' /\ <<target'[r], form[r].name>> \in bore'
        /\ UNCHANGED list
  <2>1. SUFFICES ASSUME pc'[r] = "share" PROVE LookupByUsername(r)
    BY <1>t, <2>1 DEF LookupByUsername, Step, RequestsOK, TableOK, Grows
  <2>2. QED
    BY <1>t, <2>1 DEF Serve, Register, Login, CreateDoc, ShareDoc, ListDocs, CountDocs, FindDocs, Step,
         RequestsOK
<1>3. pc'[r] = "find" => CountDocs(r)
  BY <1>t DEF Serve, Register, Login, CreateDoc, LookupByUsername, ShareDoc, ListDocs, FindDocs, Step,
     RequestsOK
<1>4. CountDocs(r) /\ pc'[r] = "find" => list'[r] \in Listing /\ pc[r] = "list"
  <2>1. SUFFICES ASSUME CountDocs(r), pc'[r] = "find"
                 PROVE  list'[r] \in Listing /\ pc[r] = "list"
    OBVIOUS
  <2>2. Cardinality(Visible(form[r].token.user)) \in Nat
    <3>1. Visible(form[r].token.user) \subseteq Created
      BY DEF Visible, Created
    <3>2. QED
      BY <1>t, <3>1, FS_Subset, FS_CardinalityType DEF TableOK
  <2> DEFINE counted == [total |-> Cardinality(Visible(form[r].token.user)),
                         docs |-> {}, short |-> FALSE]
  <2>3. counted \in Listing
    BY <2>2 DEF Listing
  <2>4. pc[r] = "list" /\ list' = [list EXCEPT ![r] = counted]
    BY <1>t, <2>1 DEF CountDocs, Step, RequestsOK
  <2> HIDE DEF counted
  <2>5. QED
    BY <1>t, <2>3, <2>4 DEF RequestsOK
<1>5. pc[r] \notin {"list", "find"} => UNCHANGED list /\ list[r] = NoList
  BY <1>t, <1>1 DEF Serve, Register, Login, CreateDoc, LookupByUsername, ShareDoc, ListDocs,
     CountDocs, FindDocs, Step, Formed
<1>6. pc'[r] # "done" => UNCHANGED reply /\ reply[r] = NoToken
  BY <1>t, <1>1 DEF Serve, Register, Login, CreateDoc, LookupByUsername, ShareDoc, ListDocs,
     CountDocs, FindDocs, Step, Formed, RequestsOK
<1>7. pc[r] \in {"list", "find"} => form[r].op = "list"
  BY <1>t DEF Formed
<1>8. pc[r] = "lookup" => form[r].op = "share"
  BY <1>t DEF Formed
<1>9. QED
  BY <1>1, <1>2, <1>3, <1>4, <1>5, <1>6, <1>7, <1>8 DEF Formed

LEMMA InitType == Init => TypeInv
<1> SUFFICES ASSUME Init PROVE TypeInv
  OBVIOUS
<1>1. <<>> \in Seq(User) /\ UserIds = {} /\ Created = {}
  BY DEF Init, UserIds, Created
<1>2. QED
  BY <1>1, FS_EmptySet DEF Init, TypeInv, TableOK, RequestsOK, Formed, PCs

\* A step is of one request, or changes no more than a username.
LEMMA StepFacts ==
  ASSUME TypeInv, [Next]_vars
  PROVE  /\ TypeInv' /\ Grows
         /\ \/ \E r \in Requests : Serve(r) /\ Frame(r)
            \/ /\ UNCHANGED <<owner, shared, reply, list>>
               /\ \A q \in Requests : pc[q] # "new" => pc'[q] = pc[q] /\ form'[q] = form[q]
<1>t. TableOK /\ RequestsOK
  BY DEF TypeInv
<1>1. ASSUME NEW r \in Requests, Serve(r) PROVE TypeInv' /\ Grows /\ Frame(r)
  <2>1. /\ Frame(r) /\ Grows /\ TableOK' /\ reply' \in [Requests -> Token' \cup {NoToken}]
    BY <1>1, RegisterFacts, ServeFacts
  <2>2. \A q \in Requests \ {r} : Formed(q)'
    BY <2>1, FormedKept DEF Frame
  <2>3. Formed(r)'
    BY <1>1, <2>1, ServeFormed
  <2>4. form' \in [Requests -> Forms' \cup {NoForm}]
    BY <1>t, <2>1, FormsGrow DEF Frame, Grows, RequestsOK
  <2>5. RequestsOK'
    BY <2>1, <2>2, <2>3, <2>4 DEF RequestsOK, Frame
  <2>6. QED
    BY <2>1, <2>5 DEF TypeInv
<1>2. ASSUME NEW r \in Requests, NEW f \in Forms, Begin(r, f)
      PROVE  /\ TypeInv' /\ Grows /\ UNCHANGED <<owner, shared, reply, list>>
             /\ \A q \in Requests : pc[q] # "new" => pc'[q] = pc[q] /\ form'[q] = form[q]
  <2>1. /\ UNCHANGED <<users, owner, shared, target, reply, list, bore>>
        /\ pc[r] = "new" /\ pc' = [pc EXCEPT ![r] = pc'[r]] /\ form' = [form EXCEPT ![r] = f]
        /\ \/ f.op \in {"register", "login"} /\ pc'[r] = f.op
           \/ /\ f.op \in {"create", "share", "list"}
              /\ pc'[r] \in {IF f.op = "share" THEN "lookup" ELSE f.op, "done"}
    BY <1>2, <1>t, FormIs DEF Begin, JWTAuth, Step, RequestsOK
  <2>2. UserIds' = UserIds /\ Token' = Token /\ Tokens' = Tokens /\ Created' = Created /\ Forms' = Forms
    BY <2>1 DEF UserIds, Token, Tokens, Created, Forms, CreateForm, ShareForm, ListForm
  <2>3. Grows
    BY <2>1, <2>2 DEF Grows
  <2>4. \A q \in Requests \ {r} : Formed(q)'
    BY <1>t, <2>1, <2>3, FormedKept DEF RequestsOK
  <2>5. Formed(r)'
    <3>1. Formed(r) /\ pc'[r] \in PCs \ {"new", "share", "find"} /\ form'[r] = f
      BY <1>t, <2>1 DEF RequestsOK, PCs
    <3>2. QED
      BY <2>1, <2>2, <3>1 DEF Formed
  <2>6. pc' \in [Requests -> PCs] /\ form' \in [Requests -> Forms' \cup {NoForm}]
    BY <1>t, <2>1, <2>2 DEF RequestsOK, PCs
  <2>7. TableOK' /\ RequestsOK'
    BY <1>t, <2>1, <2>2, <2>4, <2>5, <2>6 DEF TableOK, RequestsOK
  <2>8. QED
    BY <1>t, <2>1, <2>3, <2>7 DEF TypeInv, RequestsOK
<1>3. ASSUME NEW u \in UserIds, NEW name \in Names, UpdateUser(u, name)
      PROVE  TypeInv' /\ Grows /\ UNCHANGED <<owner, shared, reply, list, pc, form>>
  <2>1. /\ users' \in Seq(User) /\ UserIds' = UserIds
        /\ \A v \in UserIds : /\ users'[v].email = users[v].email
                              /\ users'[v].password = users[v].password
                              /\ users'[v].name = IF v = u THEN name ELSE users[v].name
    BY <1>3, <1>t, UserRenamed
  <2>2. UNCHANGED <<owner, shared, pc, form, target, reply, list>> /\ bore' = bore \cup {<<u, name>>}
    BY <1>3 DEF UpdateUser
  <2>3. Token' = Token /\ Tokens' = Tokens /\ Created' = Created /\ Forms' = Forms
    BY <2>1, <2>2 DEF Token, Tokens, Created, Forms, CreateForm, ShareForm, ListForm
  <2>4. Grows
    BY <2>1, <2>2, <2>3 DEF Grows
  <2>5. \A q \in Requests : Formed(q)'
    BY <2>2, <2>4, FormedKept
  <2>6. TableOK'
    BY <1>t, <2>1, <2>2, <2>3 DEF TableOK
  <2>7. RequestsOK'
    BY <1>t, <2>1, <2>2, <2>3, <2>5 DEF RequestsOK
  <2>8. QED
    BY <2>2, <2>4, <2>6, <2>7 DEF TypeInv
<1>4. CASE Served \/ UNCHANGED vars
  <2>1. UNCHANGED vars
    BY <1>4 DEF Served
  <2>2. /\ UserIds' = UserIds /\ Token' = Token /\ Tokens' = Tokens /\ Created' = Created
        /\ Forms' = Forms
    BY <2>1 DEF vars, UserIds, Token, Tokens, Created, Forms, CreateForm, ShareForm, ListForm
  <2>3. Grows
    BY <2>1, <2>2 DEF Grows, vars
  <2>4. \A q \in Requests : Formed(q)'
    BY <2>1, <2>3, FormedKept DEF vars
  <2>5. QED
    BY <1>t, <2>1, <2>2, <2>3, <2>4 DEF vars, TypeInv, TableOK, RequestsOK
<1>5. QED
  BY <1>1, <1>2, <1>3, <1>4 DEF Next

LEMMA Typed == Spec => []TypeInv
BY InitType, StepFacts, PTL DEF Spec

\* Every variable keeps its type: owners, collaborators and tokens name
\* accounts in the table, and only a request for a list has one.
THEOREM TypeCorrect == Spec => []TypeOK
<1>1. TypeInv => TypeOK
  <2> SUFFICES ASSUME TypeInv PROVE TypeOK
    OBVIOUS
  <2>1. \A l \in Listing : l.docs \subseteq DocIds /\ l.total >= 0
    BY DEF Listing
  <2>2. \A r \in Requests : list[r] # NoList =>
          form[r].op = "list" /\ list[r].docs \subseteq DocIds /\ list[r].total >= 0
    BY <2>1 DEF TypeInv, RequestsOK, Formed
  <2>3. QED
    BY <2>2 DEF TypeInv, TableOK, RequestsOK, TypeOK, PCs
<1>2. QED
  BY <1>1, Typed, PTL

-----------------------------------------------------------------------------
(***************************************************************************)
(* Tokens.                                                                 *)
(***************************************************************************)

Earned(q) == reply[q] # NoToken =>
  /\ users[reply[q].user].email = form[q].email /\ users[reply[q].user].password = form[q].password
  /\ <<reply[q].user, reply[q].name>> \in bore

\* Who registered has an account of its own.
Registered(q) == reply[q] # NoToken /\ form[q].op = "register"
OwnAccount == \A p, q \in Requests : Registered(p) /\ Registered(q) /\ p # q =>
                reply[p].user # reply[q].user

TokenInv == (\A q \in Requests : Earned(q)) /\ OwnAccount

\* A token that was there before the step.
LEMMA EarnedKept ==
  ASSUME TypeInv, [Next]_vars, NEW q \in Requests, reply'[q] = reply[q], Earned(q)
  PROVE  Earned(q)' /\ (Registered(q)' => Registered(q))
<1> SUFFICES ASSUME reply[q] # NoToken PROVE Earned(q)' /\ (Registered(q)' => Registered(q))
  BY DEF Earned, Registered
<1>1. reply[q].user \in UserIds /\ pc[q] = "done"
  BY DEF TypeInv, RequestsOK, Formed, Token
<1>2. Grows /\ form'[q] = form[q]
  BY <1>1, StepFacts DEF Frame
<1>3. QED
  BY <1>1, <1>2 DEF Earned, Registered, Grows

LEMMA StepTokens == TypeInv /\ TokenInv /\ [Next]_vars => TokenInv'
<1> SUFFICES ASSUME TypeInv, TokenInv, [Next]_vars PROVE TokenInv'
  OBVIOUS
<1>t. TableOK /\ RequestsOK
  BY DEF TypeInv
<1>k. \A q \in Requests : reply'[q] = reply[q] => Earned(q)' /\ (Registered(q)' => Registered(q))
  BY EarnedKept DEF TokenInv
<1>1. CASE UNCHANGED reply
  BY <1>1, <1>k DEF TokenInv, OwnAccount
<1>2. ASSUME NEW r \in Requests, Serve(r), Frame(r), reply'[r] # reply[r] PROVE TokenInv'
  <2>1. /\ \A q \in Requests \ {r} : reply'[q] = reply[q]
        /\ form'[r] = form[r] /\ Grows /\ reply[r] = NoToken
    BY <1>2, <1>t, StepFacts DEF Frame, RequestsOK, Formed
  <2>2. CASE Register(r)
    <3> DEFINE n == Len(users) + 1
    <3>1. /\ users' = Append(users, [email |-> form[r].email, name |-> form[r].name,
                                     password |-> form[r].password])
          /\ bore' = bore \cup {<<n, form[r].name>>}
          /\ reply'[r] = GenerateToken(n, form[r].name)
      BY <1>2, <1>t, <2>2 DEF Register, Answer, RequestsOK
    <3>2. /\ form[r].email \in Emails /\ form[r].name \in Names /\ form[r].password \in Passwords
      BY <1>t, <2>2, FormIs DEF Register, Step, RequestsOK, Formed
    <3> DEFINE row == [email |-> form[r].email, name |-> form[r].name, password |-> form[r].password]
    <3>3. row \in User /\ row.email = form[r].email /\ row.password = form[r].password
          /\ users' = Append(users, row)
      BY <3>1, <3>2 DEF User
    <3> HIDE DEF row
    <3>4. users'[n] = row /\ n \notin UserIds
      BY <1>t, <3>3, UserAdded DEF UserIds
    <3>5. reply'[r].user = n /\ reply'[r].name = form[r].name
      BY <3>1 DEF GenerateToken
    <3> HIDE DEF n
    <3>6. Earned(r)'
      BY <2>1, <3>1, <3>3, <3>4, <3>5 DEF Earned
    <3>7. \A q \in Requests \ {r} : Registered(q)' => reply'[q].user # n
      <4>1. \A q \in Requests : reply[q] # NoToken => reply[q].user \in UserIds
        BY <1>t DEF RequestsOK, Token
      <4>2. QED
        BY <1>k, <2>1, <3>4, <4>1 DEF Registered
    <3>8. OwnAccount'
      BY <1>k, <2>1, <3>5, <3>7 DEF OwnAccount, TokenInv
    <3>9. QED
      BY <1>k, <2>1, <3>6, <3>8 DEF TokenInv
  <2>3. CASE ~Register(r)
    <3>1. Login(r)
      BY <1>2, <2>3 DEF Serve, CreateDoc, LookupByUsername, ShareDoc, ListDocs, CountDocs, FindDocs
    <3>2. form[r].op = "login" /\ UNCHANGED <<users, bore>>
      BY <1>t, <3>1 DEF Login, Step, RequestsOK, Formed
    <3>3. PICK u \in UserIds : /\ users[u].email = form[r].email /\ users[u].password = form[r].password
                               /\ reply'[r] = GenerateToken(u, users[u].name)
      BY <1>2, <1>t, <3>1 DEF Login, Answer, RequestsOK
    <3>4. Earned(r)'
      BY <1>t, <2>1, <3>2, <3>3 DEF Earned, GenerateToken, TableOK
    <3>5. ~Registered(r)'
      BY <2>1, <3>2 DEF Registered
    <3>6. QED
      BY <1>k, <2>1, <3>4, <3>5 DEF TokenInv, OwnAccount
  <2>4. QED
    BY <2>2, <2>3
<1>3. ASSUME NEW r \in Requests, Frame(r), reply'[r] = reply[r] PROVE TokenInv'
  <2>1. \A q \in Requests : reply'[q] = reply[q]
    BY <1>3 DEF Frame
  <2>2. QED
    BY <1>k, <2>1 DEF TokenInv, OwnAccount
<1>4. QED
  BY <1>1, <1>2, <1>3, StepFacts

\* A token is handed only to a browser that gave the email and the password
\* of its account, and two registrations never get the same account.
THEOREM TokensAreEarned == Spec => []TokensEarned
<1>1. Init => TokenInv
  BY DEF Init, TokenInv, Earned, OwnAccount, Registered
<1>2. TokenInv => TokensEarned
  BY DEF TokenInv, Earned, OwnAccount, Registered, TokensEarned
<1>3. QED
  BY <1>1, <1>2, Typed, StepTokens, PTL DEF Spec

-----------------------------------------------------------------------------
(***************************************************************************)
(* Shares.  The owner of a document that is shared stays its owner.        *)
(***************************************************************************)

Named(d, u) ==
  \E r \in Requests :
    /\ pc[r] = "done" /\ form[r].op = "share" /\ form[r].doc = d
    /\ form[r].token.user = owner[d] /\ <<u, form[r].name>> \in bore

ShareInv == \A d \in DocIds : \A u \in shared[d] : owner[d] # 0 /\ Named(d, u)

LEMMA NamedKept ==
  ASSUME TypeInv, [Next]_vars, NEW d \in DocIds, NEW u, owner[d] # 0, Named(d, u)
  PROVE  owner'[d] # 0 /\ Named(d, u)'
<1>1. PICK r \in Requests : /\ pc[r] = "done" /\ form[r].op = "share" /\ form[r].doc = d
                            /\ form[r].token.user = owner[d] /\ <<u, form[r].name>> \in bore
  BY DEF Named
<1>2. Grows /\ pc'[r] = "done" /\ form'[r] = form[r]
  BY <1>1, StepFacts DEF Frame
<1>3. QED
  BY <1>1, <1>2 DEF Named, Grows

LEMMA StepShare == TypeInv /\ ShareInv /\ [Next]_vars => ShareInv'
<1> SUFFICES ASSUME TypeInv, ShareInv, [Next]_vars, NEW d \in DocIds, NEW u \in shared'[d]
             PROVE  owner'[d] # 0 /\ Named(d, u)'
  BY DEF ShareInv
<1>t. TableOK /\ RequestsOK
  BY DEF TypeInv
<1>1. CASE u \in shared[d]
  BY <1>1, NamedKept DEF ShareInv
<1>2. CASE u \notin shared[d]
  <2>1. PICK r \in Requests : Serve(r) /\ Frame(r)
    BY <1>2, StepFacts
  <2>2. ShareDoc(r)
    BY <1>2, <2>1 DEF Serve, Register, Login, CreateDoc, LookupByUsername, ListDocs, CountDocs, FindDocs
  <2>3. /\ form[r].op = "share" /\ form[r].token \in Tokens
        /\ target[r] \in UserIds /\ <<target[r], form[r].name>> \in bore
    BY <1>t, <2>2, FormIs DEF ShareDoc, Step, RequestsOK, Formed
  <2>4. /\ owner[form[r].doc] = form[r].token.user /\ d = form[r].doc /\ u = target[r]
        /\ UNCHANGED owner /\ pc'[r] = "done" /\ UNCHANGED <<form, bore>>
    BY <1>2, <1>t, <2>2 DEF ShareDoc, Step, TableOK, RequestsOK
  <2>5. owner[d] # 0
    BY <2>3, <2>4, TokensAre DEF UserIds
  <2>6. QED
    BY <2>3, <2>4, <2>5 DEF Named
<1>3. QED
  BY <1>1, <1>2

\* A document is shared only with accounts that its owner named in a request
\* that was carried out, by a username the account bore.
THEOREM SharesAreNamed == Spec => []SharedAsNamed
<1>1. Init => ShareInv
  BY DEF Init, ShareInv
<1>2. ShareInv => SharedAsNamed
  BY DEF ShareInv, Named, SharedAsNamed
<1>3. QED
  BY <1>1, <1>2, Typed, StepShare, PTL DEF Spec

-----------------------------------------------------------------------------
(***************************************************************************)
(* Lists.                                                                  *)
(***************************************************************************)

LEMMA Int32Fits == ASSUME NEW n \in Nat, n < IntBound PROVE Int32(n) = n
<1>1. IntBound \in Nat /\ IntBound > 0
  BY AccountsAssumption
<1>2. \A x, m \in Nat : x < m => x % m = x
  OBVIOUS
<1>3. (n + IntBound) % (2 * IntBound) = n + IntBound
  BY <1>1, <1>2
<1>4. QED
  BY <1>1, <1>3 DEF Int32

\* A page whose end fits in an int32 is skipped to as it was meant.
LEMMA PageFits ==
  ASSUME NEW page \in Int, NEW size \in Int, page > 0, size > 0,
         (page - 1) * size + size < IntBound
  PROVE  Skip(page, size) = (page - 1) * size /\ Int32(size) = size /\ (page - 1) * size \in Nat
<1> DEFINE before == (page - 1) * size
<1>0. IntBound \in Nat
  BY AccountsAssumption
<1>1. \A a, b \in Nat : b > 0 => a * b \in Nat /\ a <= a * b
  OBVIOUS
<1>2. before \in Nat /\ page - 1 <= before
  BY <1>1
<1> HIDE DEF before
<1>3. page \in Nat /\ page < IntBound /\ size \in Nat /\ size < IntBound /\ before < IntBound
  BY <1>0, <1>2 DEF before
<1>4. Int32(page) = page /\ Int32(size) = size /\ Int32(before) = before
  BY <1>2, <1>3, Int32Fits
<1>5. Skip(page, size) = Int32(before)
  BY <1>4 DEF Skip, before
<1>6. QED
  BY <1>2, <1>4, <1>5 DEF before

\* A page holds what is left of it after the skip.
LEMMA ReturnedIs ==
  ASSUME NEW n \in Nat, NEW total \in Nat, total <= n, NEW skip \in Nat, NEW size \in Nat, size > 0
  PROVE  /\ Returned(n, skip, size) \in Nat /\ Returned(n, skip, size) <= size
         /\ Returned(n, skip, size) >= IF total - skip < size THEN total - skip ELSE size
BY DEF Returned

LEMMA VisibleFinite ==
  ASSUME TypeInv, NEW u
  PROVE  IsFiniteSet(Visible(u)) /\ Cardinality(Visible(u)) \in Nat
<1>1. Visible(u) \subseteq Created /\ IsFiniteSet(Created)
  BY DEF Visible, Created, TypeInv, TableOK
<1>2. QED
  BY <1>1, FS_Subset, FS_CardinalityType

LEMMA VisibleGrows ==
  ASSUME TypeInv, [Next]_vars, NEW u
  PROVE  Visible(u) \subseteq Visible(u)' /\ Cardinality(Visible(u)) <= Cardinality(Visible(u))'
<1>1. Visible(u) \subseteq Visible(u)'
  BY StepFacts DEF Grows, Visible
<1>2. IsFiniteSet(Visible(u))'
  <2>1. TypeInv' => (IsFiniteSet(Visible(u)) /\ Cardinality(Visible(u)) \in Nat)'
    BY VisibleFinite, PTL
  <2>2. QED
    BY <2>1, StepFacts
<1>3. QED
  BY <1>1, <1>2, FS_Subset

\* What request r has of its list: only what its account may see, and, when it
\* is answered, a full page of what was counted.
Seen(r) ==
  list[r] # NoList => \A u : u = form[r].token.user =>
    list[r].docs \subseteq Visible(u) /\ list[r].total <= Cardinality(Visible(u))

FullPage(r) ==
  LET l == list[r]
      before == (form[r].page - 1) * form[r].size
      due == IF l.total - before < form[r].size THEN l.total - before ELSE form[r].size
  IN  pc[r] = "done" /\ list[r] # NoList
        /\ form[r].page > 0 /\ form[r].size > 0 /\ before + form[r].size < IntBound
      => Cardinality(l.docs) <= form[r].size /\ (l.short \/ Cardinality(l.docs) >= due)

ListInv == \A r \in Requests : Seen(r) /\ FullPage(r)

LEMMA ListKept ==
  ASSUME TypeInv, [Next]_vars, NEW q \in Requests, list'[q] = list[q], Seen(q), FullPage(q),
         list[q] # NoList => pc'[q] = pc[q] /\ form'[q] = form[q]
  PROVE  Seen(q)' /\ FullPage(q)'
<1> SUFFICES ASSUME list[q] # NoList PROVE Seen(q)' /\ FullPage(q)'
  BY DEF Seen, FullPage
<1>1. FullPage(q)'
  BY DEF FullPage
<1>2. ASSUME NEW u, u = form'[q].token.user
      PROVE  list'[q].docs \subseteq Visible(u)' /\ list'[q].total <= Cardinality(Visible(u)')
  <2>1. list[q].docs \subseteq Visible(u) /\ list[q].total <= Cardinality(Visible(u))
    BY <1>2 DEF Seen
  <2>2. /\ Visible(u) \subseteq Visible(u)' /\ Cardinality(Visible(u)) <= Cardinality(Visible(u)')
        /\ Cardinality(Visible(u)) \in Nat /\ Cardinality(Visible(u)') \in Nat
    <3>1. TypeInv' => (IsFiniteSet(Visible(u)) /\ Cardinality(Visible(u)) \in Nat)'
      BY VisibleFinite, PTL
    <3>2. QED
      BY <3>1, VisibleFinite, VisibleGrows, StepFacts
  <2>3. list[q].total \in Nat
    BY DEF TypeInv, RequestsOK, Listing
  <2>4. QED
    BY <2>1, <2>2, <2>3
<1>3. QED
  BY <1>1, <1>2 DEF Seen

LEMMA StepList == TypeInv /\ ListInv /\ [Next]_vars => ListInv'
<1> SUFFICES ASSUME TypeInv, ListInv, [Next]_vars PROVE ListInv'
  OBVIOUS
<1>t. TableOK /\ RequestsOK
  BY DEF TypeInv
<1>l. \A q \in Requests : list[q] # NoList => pc[q] \in {"find", "done"}
  BY <1>t DEF RequestsOK, Formed
<1>1. ASSUME NEW r \in Requests, Serve(r), Frame(r) PROVE ListInv'
  <2>1. \A q \in Requests \ {r} : Seen(q)' /\ FullPage(q)'
    BY <1>1, ListKept DEF ListInv, Frame
  <2>2. Seen(r)' /\ FullPage(r)'
    <3> DEFINE visible == Visible(form[r].token.user)
               n == Cardinality(visible)
    <3>f. IsFiniteSet(visible) /\ n \in Nat /\ n <= n
      BY VisibleFinite
    <3>g. ListDocs(r) => \A u : Visible(u)' = Visible(u)
      BY DEF ListDocs, CountDocs, FindDocs, Visible
    <3>1. CASE CountDocs(r)
      <4>1. /\ form'[r] = form[r] /\ pc'[r] \in {"find", "done"}
            /\ \/ list'[r] = [total |-> n, docs |-> {}, short |-> FALSE] /\ pc'[r] = "find"
               \/ list'[r] = list[r] /\ list[r] = NoList
        BY <1>t, <1>l, <3>1 DEF CountDocs, Step, RequestsOK
      <4> HIDE DEF n
      <4>2. FullPage(r)'
        BY <4>1 DEF FullPage
      <4>3. \A u : u = form[r].token.user => Visible(u) = visible /\ Cardinality(Visible(u)) = n
        BY DEF n
      <4> HIDE DEF visible
      <4>4. Seen(r)'
        BY <3>1, <3>f, <3>g, <4>1, <4>3 DEF Seen, ListDocs
      <4>5. QED
        BY <4>2, <4>4
    <3>2. CASE FindDocs(r)
      <4>1. form'[r] = form[r] /\ pc'[r] = "done" /\ pc[r] = "find" /\ form[r].op = "list"
        BY <1>t, <3>2 DEF FindDocs, Step, RequestsOK, Formed
      <4>2. list[r] \in Listing /\ form[r].page \in Int /\ form[r].size \in Int
        BY <1>t, <4>1, FormIs DEF RequestsOK, Formed
      <4>3. CASE NotListed(r)
        BY <1>t, <4>3 DEF NotListed, RequestsOK, Seen, FullPage
      <4>4. CASE ~NotListed(r)
        <5> DEFINE skip == Skip(form[r].page, form[r].size)
                   k == Returned(n, skip, Int32(form[r].size))
        <5>1. PICK docs \in SUBSET visible :
                \/ Cardinality(docs) = k /\ Found(r, docs, FALSE)
                \/ Cardinality(docs) < k /\ Found(r, docs, TRUE)
          BY <3>2, <4>4 DEF FindDocs
        <5>2. /\ list'[r].docs = docs /\ list'[r].total = list[r].total
              /\ \/ Cardinality(docs) = k /\ list'[r].short = FALSE
                 \/ Cardinality(docs) < k /\ list'[r].short = TRUE
          <6>1. ASSUME NEW short \in BOOLEAN, Found(r, docs, short)
                PROVE  list'[r].docs = docs /\ list'[r].total = list[r].total /\ list'[r].short = short
            BY <1>t, <4>2, <6>1 DEF Found, RequestsOK, Listing
          <6>2. QED
            BY <5>1, <6>1
        <5>3. list[r] # NoList /\ Seen(r) /\ list[r].total \in Nat
          BY <4>2, AccountsAssumption DEF ListInv, Listing
        <5>4. list[r].total <= n /\ docs \subseteq visible
          BY <5>1, <5>3 DEF Seen
        <5>5. Seen(r)'
          BY <3>2, <3>g, <4>1, <5>2, <5>4 DEF Seen, ListDocs
        <5>6. FullPage(r)'
          <6> DEFINE page == form[r].page
                     size == form[r].size
                     total == list[r].total
          <6>1. SUFFICES ASSUME page > 0, size > 0, (page - 1) * size + size < IntBound
                PROVE  /\ Cardinality(docs) <= size
                       /\ \/ list'[r].short
                          \/ Cardinality(docs) >= IF total - (page - 1) * size < size
                                                   THEN total - (page - 1) * size ELSE size
            BY <4>1, <5>2 DEF FullPage
          <6> HIDE DEF page, size
          <6>2. /\ Skip(page, size) = (page - 1) * size /\ Int32(size) = size
                /\ (page - 1) * size \in Nat /\ size \in Nat
            <7>1. page \in Int /\ size \in Int
              BY <4>2 DEF page, size
            <7>2. Skip(page, size) = (page - 1) * size /\ Int32(size) = size /\ (page - 1) * size \in Nat
              BY <6>1, <7>1, PageFits, Zenon
            <7>3. QED
              BY <6>1, <7>1, <7>2
          <6>3. k = Returned(n, skip, size) /\ skip = (page - 1) * size
            BY <6>2 DEF page, size
          <6> HIDE DEF k, skip
          <6>4. /\ k \in Nat /\ k <= size
                /\ k >= IF total - skip < size THEN total - skip ELSE size
            BY <3>f, <5>3, <5>4, <6>1, <6>2, <6>3, ReturnedIs
          <6>5. Cardinality(docs) \in Nat
            BY <3>f, <5>4, FS_Subset, FS_CardinalityType
          <6>6. QED
            BY <5>2, <6>2, <6>3, <6>4, <6>5
        <5>7. QED
          BY <5>5, <5>6
      <4>5. QED
        BY <4>3, <4>4
    <3>3. CASE ~ListDocs(r)
      <4>1. UNCHANGED list /\ list[r] = NoList
        BY <1>1, <1>l, <3>3 DEF Serve, Register, Login, CreateDoc, LookupByUsername, ShareDoc, Step
      <4>2. QED
        BY <4>1 DEF Seen, FullPage
    <3>4. QED
      BY <3>1, <3>2, <3>3 DEF ListDocs
  <2>3. QED
    BY <2>1, <2>2 DEF ListInv
<1>2. ASSUME UNCHANGED list,
             \A q \in Requests : pc[q] # "new" => pc'[q] = pc[q] /\ form'[q] = form[q]
      PROVE  ListInv'
  BY <1>2, <1>l, ListKept DEF ListInv
<1>3. QED
  BY <1>1, <1>2, StepFacts

\* A list shows documents of the account only, and as many as its page should
\* have of those that were counted, whatever is created and shared between
\* the count and the read; unless the cursor failed, a document could not be
\* decoded, or the page does not fit in an int32.
THEOREM ListsAreFaithful == Spec => []ListsFaithful
<1>1. Init => ListInv
  BY DEF Init, ListInv, Seen, FullPage
<1>2. TypeInv /\ ListInv => ListsFaithful
  BY DEF ListInv, Seen, FullPage, ListsFaithful
<1>3. QED
  BY <1>1, <1>2, Typed, StepList, PTL DEF Spec
=============================================================================

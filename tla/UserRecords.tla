---------------------------- MODULE UserRecords ----------------------------
(***************************************************************************)
(* What users keep beside the policies: accounts, family profiles,         *)
(* favourites and checklists.  The services look whether a row is there    *)
(* and then write it.  Every call that needs a user runs ALTER TABLE users *)
(* when it looks him up, and holds that lock to the end of its             *)
(* transaction: calls of users are one at a time, in the whole service,    *)
(* while imports go on beside them.                                        *)
(*                                                                         *)
(* Profiles have a unique user_id, and the documented schema has unique    *)
(* keys for checklists and their items; the table of children has none.    *)
(* The model takes only the indices of accounts and favourites, so that it *)
(* can do more than the database: the lock alone keeps the rest apart.     *)
(***************************************************************************)
EXTENDS PolicyData

\* The users there are have addresses and names of their own.
ASSUME AccountAssumption ==
  \A s \in Scenarios : \A u \in DOMAIN s.accounts :
    /\ {"email", "nickname"} \subseteq DOMAIN s.accounts[u]
    /\ \A v \in DOMAIN s.accounts :
         \/ s.accounts[u].email = s.accounts[v].email
         \/ s.accounts[u].nickname = s.accounts[v].nickname
         => u = v

VARIABLES
  accounts,   \* users: partial function from user_id to [email, nickname, password]
  favorites,  \* user_favorite: set of pairs of user and policy
  progress,   \* user_policy_progress: set of [id, user, policy, percent]
  items,      \* user_policy_checklist_item: set of [by, progress, template, done]
  family,     \* user_profile and family_member: sets of [by, user, answers], [by, user, stage]
  members,
  inside      \* the calls that hold the lock, with what they found: [call, found]

userVars == <<accounts, favorites, progress, items, family, members, inside>>
vars == <<dataVars, userVars>>

UserOps == {"sign_up", "nickname", "password", "favorite", "unfavorite", "prepare", "tick", "family"}

TemplateId(p, n) == DocId(p, n)
ActiveTemplates(p) == {TemplateId(p, n) : n \in {m \in DOMAIN templates[p] : templates[p][m].active}}

ProgressOf(user, p) == {r \in progress : r.user = user /\ r.policy = p}
FamilyOf(user) == {r \in family : r.user = user}
HoldsEmail(e) == {u \in DOMAIN accounts : accounts[u].email = e}
HoldsNickname(n) == {u \in DOMAIN accounts : accounts[u].nickname = n}

(***************************************************************************)
(* The lock, and what a call reads under it.                               *)
(***************************************************************************)
\* Mutant: the schema is ensured once, at startup.
NobodyInsideNever == TRUE
NobodyInside == inside = {}

\* What the call looks up before it writes.  A favourite needs an active policy, a
\* checklist any; imports make them active, and nothing makes them inactive.
Found(c) ==
  CASE c.op \in {"prepare", "tick"} -> {r.id : r \in ProgressOf(c.user, c.policy)}
    [] c.op = "family" -> {r.by : r \in FamilyOf(c.user)}
    [] c.op \in {"favorite", "unfavorite"} -> {p \in {c.policy} : <<c.user, p>> \in favorites}
    [] c.op = "sign_up" -> HoldsEmail(c.email) \cup HoldsNickname(c.nickname)
    [] c.op = "nickname" -> HoldsNickname(c.nickname) \ {c.user}
    [] OTHER -> {}

\* Answered at once: no such user, no such policy, or what is asked for is there
\* already, or is not there.
Refuses(c) ==
  \/ c.op # "sign_up" /\ c.user \notin DOMAIN accounts
  \/ c.op \in {"favorite", "unfavorite", "prepare"} /\ live[c.policy] = 0
  \/ c.op \in {"favorite", "sign_up", "nickname"} /\ Found(c) # {}
  \/ c.op \in {"unfavorite", "tick"} /\ Found(c) = {}
  \* The row is read as the only one: of two, every later call fails.
  \/ c.op \in {"prepare", "family"} /\ Cardinality(Found(c)) > 1
  \/ c.op = "password" /\ \/ accounts[c.user].password # c.current
                          \/ c.password = c.current

UserBegin(c) ==
  /\ NobodyInside
  /\ pending' = pending \ {c}
  /\ IF Refuses(c) THEN UNCHANGED inside
     ELSE inside' = inside \cup {[call |-> c, found |-> Found(c)]}
  /\ UNCHANGED <<accounts, favorites, progress, items, family, members>>

(***************************************************************************)
(* The writes.                                                             *)
(***************************************************************************)
\* Percentages are rounded; a half goes to the even number.
Round(done, total) ==
  LET q == (100 * done) \div total  r == (100 * done) % total IN
  IF total = 0 THEN 0 ELSE q + (IF 2 * r > total \/ (2 * r = total /\ q % 2 = 1) THEN 1 ELSE 0)
NewId == 1 + Cardinality(progress)

SignUp(c) ==
  /\ LET id == 1 + Cardinality(DOMAIN accounts)
         free == HoldsEmail(c.email) = {} /\ HoldsNickname(c.nickname) = {} IN
     accounts' = IF ~free THEN accounts
                 ELSE [u \in DOMAIN accounts \cup {id} |->
                         IF u = id THEN [email |-> c.email, nickname |-> c.nickname,
                                         password |-> c.password] ELSE accounts[u]]
  /\ UNCHANGED <<favorites, progress, items, family, members>>

\* The unique index has the last word.
Rename(c) ==
  /\ accounts' = IF HoldsNickname(c.nickname) \ {c.user} # {} THEN accounts
                 ELSE [accounts EXCEPT ![c.user].nickname = c.nickname]
  /\ UNCHANGED <<favorites, progress, items, family, members>>

ChangePassword(c) ==
  /\ accounts' = [accounts EXCEPT ![c.user].password = c.password]
  /\ UNCHANGED <<favorites, progress, items, family, members>>

AddFavorite(c) ==
  /\ favorites' = favorites \cup {<<c.user, c.policy>>}
  /\ UNCHANGED <<accounts, progress, items, family, members>>

RemoveFavorite(c) ==
  /\ favorites' = favorites \ {<<c.user, c.policy>>}
  /\ UNCHANGED <<accounts, progress, items, family, members>>

\* The progress that was found, or a new one, gets the items it lacks.
Prepare(c, found) ==
  LET id == IF found = {} THEN NewId ELSE CHOOSE i \in found : TRUE
      there == {i.template : i \in {j \in items : j.progress = id}} IN
  /\ progress' = IF found # {} THEN progress
                 ELSE progress \cup {[id |-> id, user |-> c.user, policy |-> c.policy, percent |-> 0]}
  /\ items' = items \cup {[by |-> c.id, progress |-> id, template |-> t, done |-> FALSE] :
                            t \in ActiveTemplates(c.policy) \ there}
  /\ UNCHANGED <<accounts, favorites, family, members>>

\* An item may be ticked though its template is not active any more, and counts;
\* one that the checklist has got since counts not before it is prepared again.
Tick(c, found) ==
  \E id \in found :
    LET own == {i \in items : i.progress = id}
        ticked == {i \in own : i.template = TemplateId(c.policy, c.position)}
        after == (own \ ticked) \cup {[i EXCEPT !.done = c.done] : i \in ticked} IN
    /\ items' = (items \ ticked) \cup {[i EXCEPT !.done = c.done] : i \in ticked}
    /\ progress' = IF ticked = {} THEN progress
                   ELSE {IF r.id = id
                         THEN [r EXCEPT !.percent = Round(Cardinality({i \in after : i.done}), Cardinality(own))]
                         ELSE r : r \in progress}
    /\ UNCHANGED <<accounts, favorites, family, members>>

\* One profile, and one child of it that stands for the family.  The unique user_id of a
\* profile, which would refuse a second one, is left out.
SaveFamily(c, found) ==
  LET own == FamilyOf(c.user)
      new(by) == [by |-> by, user |-> c.user, answers |-> c.answers] IN
  /\ family' = IF found = {} THEN family \cup {new(c.id)}
               ELSE (family \ {r \in own : r.by \in found}) \cup {new(b) : b \in found}
  /\ members' = {m \in members : m.user # c.user}
                  \cup {[by |-> c.id, user |-> c.user, stage |-> c.answers["stage"]]}
  /\ UNCHANGED <<accounts, favorites, progress, items>>

UserFinish(v) ==
  LET c == v.call IN
  /\ \/ c.op = "sign_up" /\ SignUp(c)
     \/ c.op = "nickname" /\ Rename(c)
     \/ c.op = "password" /\ ChangePassword(c)
     \/ c.op = "favorite" /\ AddFavorite(c)
     \/ c.op = "unfavorite" /\ RemoveFavorite(c)
     \/ c.op = "prepare" /\ Prepare(c, v.found)
     \/ c.op = "tick" /\ Tick(c, v.found)
     \/ c.op = "family" /\ SaveFamily(c, v.found)
  /\ inside' = inside \ {v}
  /\ UNCHANGED pending

\* The client goes away or the process ends: the transaction is rolled back.
UserAbort(v) ==
  /\ inside' = inside \ {v}
  /\ UNCHANGED <<pending, accounts, favorites, progress, items, family, members>>

(***************************************************************************)
(* The service.                                                            *)
(***************************************************************************)
Init ==
  \E s \in Scenarios :
    /\ DataInit(s)
    /\ accounts = s.accounts /\ inside = {}
    /\ favorites = {} /\ progress = {} /\ items = {} /\ family = {} /\ members = {}

UserCall ==
  /\ \/ \E c \in UNION {Calls(op) : op \in UserOps} : UserBegin(c)
     \/ \E v \in inside : UserFinish(v) \/ UserAbort(v)
  /\ UNCHANGED <<raw, live, profile, rules, docs, vectors, strayed, templates, job>>

Next == (DataNext /\ UNCHANGED userVars) \/ UserCall

Spec == Init /\ [][Next]_vars

(***************************************************************************)
(* Properties.                                                             *)
(***************************************************************************)
TypeOK ==
  /\ DataTypeOK
  /\ favorites \subseteq (DOMAIN accounts) \X Policies
  /\ \A r \in progress : r.user \in DOMAIN accounts /\ live[r.policy] # 0 /\ r.percent \in 0..100
  /\ \A i \in items : i.template \in {TemplateId(p, n) : p \in Policies, n \in 100..299}
  /\ \A r \in family \cup members : r.user \in DOMAIN accounts

\* However the calls of users and the imports fall together: nobody has two accounts
\* of one address or name, two profiles or two children for a family, two checklists
\* for a policy or an item of one twice, and an item is of the policy of its checklist
\* and of a template the import has made.
RecordsAreUnique ==
  /\ \A u \in DOMAIN accounts, v \in DOMAIN accounts :
       accounts[u].email = accounts[v].email \/ accounts[u].nickname = accounts[v].nickname => u = v
  /\ \A r \in family, q \in family : r.user = q.user => r = q
  /\ \A r \in members, q \in members : r.user = q.user => r = q
  /\ \A r \in members : \E q \in family : q.user = r.user /\ q.answers["stage"] = r.stage
  /\ \A r \in progress, q \in progress : r.user = q.user /\ r.policy = q.policy => r = q
  /\ \A i \in items, j \in items : i.progress = j.progress /\ i.template = j.template => i = j
  /\ \A i \in items : \E r \in progress :
       /\ r.id = i.progress /\ r.policy = PolicyOf(i.template)
       /\ i.template \in {TemplateId(r.policy, n) : n \in DOMAIN templates[r.policy]}
=============================================================================

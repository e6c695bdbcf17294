------------------------- MODULE ServerStores_proofs -------------------------
(***************************************************************************)
(* Proofs about the stores of the server, for every value of their         *)
(* constants: the bodies devices upload (BlobServer) and the OAuth codes   *)
(* and tokens (OAuthStore).                                                *)
(***************************************************************************)
EXTENDS BlobServer, OAuthStore, FiniteSetTheorems, TLAPS

-----------------------------------------------------------------------------
(***************************************************************************)
(* Uploads: any devices, bodies and quota, over every interleaving of      *)
(* uploads that fail, are cancelled or are repeated.                       *)
(***************************************************************************)

Upload == [stage : {"idle", "prepare", "send", "claimed", "checked"},
           item : Items \cup {"none"}, todo : SUBSET Bodies,
           now : Bodies \cup {"none"}, fresh : BOOLEAN]

TypeOK ==
    /\ owned \subseteq Accounts \X Bodies
    /\ disk \subseteq Bodies
    /\ upload \in [Machines -> Upload]
    /\ published \in [Accounts -> SUBSET Items]
    /\ holding \in [Machines -> SUBSET Bodies]
    /\ online \subseteq Machines

(* Where a device stands says what it works on. *)
AtWork ==
    \A d \in Machines :
      /\ upload[d].stage # "idle" => upload[d].item \in Items
      /\ upload[d].stage = "claimed" => upload[d].now \in Bodies

(* A body that was checked stays: the directory only grows. *)
CheckedStored ==
    \A d \in Machines : upload[d].stage = "checked" => Graph(upload[d].item) \subseteq disk

(* Every ownership row stands for a transmission. *)
OwnedSent == owned \subseteq sent

GuardInv ==
    /\ TypeOK
    /\ AtWork
    /\ CheckedStored
    /\ OwnedSent
    /\ BodiesGuarded
-----------------------------------------------------------------------------
(* The bodies of an item are bodies. *)
LEMMA GraphBodies ==
    ASSUME NEW x \in Items
    PROVE  Graph(x) \subseteq Bodies
  BY DEF Graph, Items, Bodies

(* Every device belongs to an account. *)
LEMMA OwnerAccount ==
    ASSUME NEW d \in Machines
    PROVE  AccountOf(d) \in Accounts
  BY DEF Accounts

(* An upload that has sent its body goes on with the others. *)
LEMMA SentUpload ==
    ASSUME NEW r \in Upload
    PROVE  [r EXCEPT !.stage = "send", !.todo = @ \ {r.now},
                     !.now = "none", !.fresh = FALSE] \in Upload
  <1>1. [r EXCEPT !.stage = "send"] \in Upload
    BY DEF Upload
  <1>2. \A q \in Upload, t \in SUBSET Bodies : [q EXCEPT !.todo = t] \in Upload
    BY DEF Upload
  <1>3. \A q \in Upload : [q EXCEPT !.now = "none"] \in Upload
    BY DEF Upload
  <1>4. \A q \in Upload : [q EXCEPT !.fresh = FALSE] \in Upload
    BY DEF Upload
  <1>5. r.todo \ {r.now} \in SUBSET Bodies
    BY DEF Upload
  <1>6. [r EXCEPT !.stage = "send"].todo = r.todo
    BY DEF Upload
  <1> QED
    BY <1>1, <1>2, <1>3, <1>4, <1>5, <1>6

(* A row more or less: what the quota counts. *)
RowsOf(rows, u) == {h \in Bodies : <<u, h>> \in rows}

LEMMA RowsFinite ==
    ASSUME NEW rows, NEW u
    PROVE  /\ IsFiniteSet(RowsOf(rows, u))
           /\ Cardinality(RowsOf(rows, u)) \in Nat
  <1>1. RowsOf(rows, u) \subseteq Bodies
    BY DEF RowsOf
  <1>2. IsFiniteSet(RowsOf(rows, u))
    BY <1>1, FS_Subset, UploadsAssumption
  <1> QED
    BY <1>2, FS_CardinalityType

(* A claim adds one row of one user. *)
LEMMA RowsAdded ==
    ASSUME NEW rows, NEW u, NEW h \in Bodies
    PROVE  Cardinality(RowsOf(rows \cup {<<u, h>>}, u)) <= Cardinality(RowsOf(rows, u)) + 1
  <1> DEFINE old == RowsOf(rows, u)
             new == RowsOf(rows \cup {<<u, h>>}, u)
  <1>1. new = old \cup {h}
    BY DEF RowsOf
  <1>2. IsFiniteSet(old) /\ Cardinality(old) \in Nat
    BY RowsFinite
  <1>3. h \in old => Cardinality(new) = Cardinality(old)
    <2>1. h \in old => new = old
      BY <1>1
    <2> QED
      BY <2>1
  <1>4. h \notin old => Cardinality(old \cup {h}) = Cardinality(old) + 1
    BY <1>2, FS_AddElement
  <1>5. h \notin old => Cardinality(new) = Cardinality(old) + 1
    BY <1>1, <1>4
  <1> HIDE DEF old, new
  <1>6. Cardinality(new) <= Cardinality(old) + 1
    BY <1>2, <1>3, <1>5
  <1> QED
    BY <1>6 DEF old, new

(* Giving a row back never raises the count. *)
LEMMA RowsFewer ==
    ASSUME NEW rows, NEW fewer, fewer \subseteq rows, NEW u
    PROVE  Cardinality(RowsOf(fewer, u)) <= Cardinality(RowsOf(rows, u))
  <1>1. RowsOf(fewer, u) \subseteq RowsOf(rows, u)
    BY DEF RowsOf
  <1>2. IsFiniteSet(RowsOf(rows, u))
    BY RowsFinite
  <1> QED
    BY <1>1, <1>2, FS_Subset

(* QuotaKept in terms of rows. *)
LEMMA QuotaRows ==
    /\ QuotaKept <=> \A u \in Accounts : Cardinality(RowsOf(owned, u)) <= BlobQuota
    /\ QuotaKept' <=> \A u \in Accounts : Cardinality(RowsOf(owned', u)) <= BlobQuota
    /\ \A u : FitsQuota(u) <=> Cardinality(RowsOf(owned, u)) + 1 <= BlobQuota
  BY DEF QuotaKept, RowsOf, Owns, FitsQuota
-----------------------------------------------------------------------------
(* Nothing is stored or claimed at the start. *)
LEMMA GuardInit ==
    ASSUME UploadsInit
    PROVE  GuardInv
  <1>1. TypeOK
    BY UploadsAssumption DEF UploadsInit, TypeOK, Upload, Quiet
  <1>2. AtWork /\ CheckedStored /\ OwnedSent
    BY DEF UploadsInit, AtWork, CheckedStored, OwnedSent, Quiet
  <1>3. QuotaKept
    <2>1. \A u \in Accounts : RowsOf(owned, u) = {}
      BY DEF RowsOf, UploadsInit
    <2>2. \A u \in Accounts : Cardinality(RowsOf(owned, u)) = 0
      BY <2>1, FS_EmptySet
    <2> QED
      BY <2>2, QuotaRows, UploadsAssumption
  <1>4. ServedOwn /\ PublishedStored
    BY DEF UploadsInit, ServedOwn, PublishedStored
  <1> QED
    BY <1>1, <1>2, <1>3, <1>4 DEF GuardInv, BodiesGuarded

(* Every step keeps the invariant: only a claim adds an ownership row, and it
   transmits the body first; only a stored graph is checked, and no step removes
   a body. *)
LEMMA GuardStep ==
    ASSUME GuardInv, [UploadsNext]_uploadVars
    PROVE  GuardInv'
  <1> USE DEF GuardInv, BodiesGuarded
  <1>1. ASSUME NEW d \in online, NEW x \in Items, QueueItem(d, x), UNCHANGED online
        PROVE  GuardInv'
    <2>1. TypeOK'
      BY <1>1, GraphBodies DEF TypeOK, Upload, QueueItem, Quiet
    <2>2. AtWork' /\ CheckedStored' /\ OwnedSent'
      BY <1>1 DEF TypeOK, Upload, AtWork, CheckedStored, OwnedSent, QueueItem, Quiet
    <2>3. QuotaKept' /\ ServedOwn' /\ PublishedStored'
      BY <1>1, QuotaRows DEF ServedOwn, PublishedStored, QueueItem
    <2> QED
      BY <2>1, <2>2, <2>3
  <1>2. ASSUME NEW d \in online, PrepareUpload(d), UNCHANGED online
        PROVE  GuardInv'
    <2>1. ToUpload(d, upload[d].item) \subseteq Bodies
      BY <1>2, GraphBodies DEF TypeOK, Upload, AtWork, PrepareUpload, ToUpload, Missing, Items, Bodies
    <2>2. TypeOK'
      BY <1>2, <2>1 DEF TypeOK, Upload, PrepareUpload
    <2>3. AtWork' /\ CheckedStored' /\ OwnedSent'
      BY <1>2 DEF TypeOK, Upload, AtWork, CheckedStored, OwnedSent, PrepareUpload
    <2>4. QuotaKept' /\ ServedOwn' /\ PublishedStored'
      BY <1>2, QuotaRows DEF ServedOwn, PublishedStored, PrepareUpload
    <2> QED
      BY <2>2, <2>3, <2>4
  <1>3. ASSUME NEW d \in online, NEW h \in Bodies, Claim(d, h), UNCHANGED online
        PROVE  GuardInv'
    <2>1. d \in Machines /\ AccountOf(d) \in Accounts
      BY <1>3, OwnerAccount DEF TypeOK, Upload
    <2>2. /\ upload' = [upload EXCEPT ![d] = upload'[d]]
          /\ upload'[d] \in Upload
          /\ upload'[d].stage \in {"claimed", "prepare"}
          /\ upload'[d].item = upload[d].item
          /\ upload'[d].stage = "claimed" => upload'[d].now = h
      <3>1. CASE upload' = [upload EXCEPT ![d].stage = "claimed", ![d].now = h]
        BY <3>1, <2>1 DEF TypeOK, Upload
      <3>2. CASE upload' = [upload EXCEPT ![d].stage = "claimed", ![d].now = h, ![d].fresh = TRUE]
        BY <3>2, <2>1 DEF TypeOK, Upload
      <3>3. CASE upload' = [upload EXCEPT ![d] = Restart(d)]
        BY <3>3, <2>1 DEF TypeOK, Upload, Restart
      <3> QED
        BY <1>3, <3>1, <3>2, <3>3 DEF Claim
    <2>3. TypeOK' /\ AtWork' /\ CheckedStored'
      <3>1. owned' \subseteq Accounts \X Bodies
        BY <1>3, <2>1 DEF TypeOK, Upload, Claim
      <3>2. upload' \in [Machines -> Upload]
        BY <2>1, <2>2 DEF TypeOK, Upload
      <3>3. TypeOK'
        BY <1>3, <3>1, <3>2 DEF TypeOK, Upload, Claim
      <3>4. upload[d].item \in Items
        BY <1>3, <2>1 DEF AtWork, Claim
      <3>5. \A e \in Machines : e # d => upload'[e] = upload[e]
        BY <2>1, <2>2 DEF TypeOK, Upload
      <3>6. AtWork'
        BY <2>2, <3>4, <3>5 DEF AtWork
      <3>7. CheckedStored'
        BY <1>3, <2>2, <3>5 DEF CheckedStored, Claim
      <3> QED
        BY <3>3, <3>6, <3>7
    <2>6. OwnedSent'
      BY <1>3 DEF OwnedSent, Claim
    <2>4. QuotaKept'
      <3>1. CASE owned' = owned
        BY <3>1, QuotaRows
      <3>2. CASE owned' = owned \cup {<<AccountOf(d), h>>} /\ FitsQuota(AccountOf(d))
        <4>1. Cardinality(RowsOf(owned, AccountOf(d))) + 1 <= BlobQuota
          BY <3>2, QuotaRows
        <4>2. Cardinality(RowsOf(owned', AccountOf(d))) <= Cardinality(RowsOf(owned, AccountOf(d))) + 1
          BY <3>2, RowsAdded
        <4>3. /\ Cardinality(RowsOf(owned, AccountOf(d))) \in Nat
              /\ Cardinality(RowsOf(owned', AccountOf(d))) \in Nat
          BY RowsFinite
        <4>4. Cardinality(RowsOf(owned', AccountOf(d))) <= BlobQuota
          BY <4>1, <4>2, <4>3, UploadsAssumption
        <4>5. \A u \in Accounts : u # AccountOf(d) => RowsOf(owned', u) = RowsOf(owned, u)
          BY <3>2 DEF RowsOf
        <4> QED
          BY <4>4, <4>5, QuotaRows
      <3> QED
        BY <1>3, <3>1, <3>2 DEF Claim
    <2>5. ServedOwn' /\ PublishedStored'
      BY <1>3 DEF ServedOwn, PublishedStored, Claim
    <2> QED
      BY <2>3, <2>4, <2>5, <2>6
  <1>4. ASSUME NEW d \in online, Installed(d), UNCHANGED online
        PROVE  GuardInv'
    <2>1. upload[d].now \in Bodies
      BY <1>4 DEF TypeOK, Upload, AtWork, Installed
    <2>2. TypeOK'
      <3>1. disk' \subseteq Bodies
        BY <1>4, <2>1 DEF TypeOK, Installed
      <3>2. d \in Machines /\ upload[d] \in Upload
        BY <1>4 DEF TypeOK
      <3>3. [upload[d] EXCEPT !.stage = "send", !.todo = @ \ {upload[d].now},
                              !.now = "none", !.fresh = FALSE] \in Upload
        BY <3>2, SentUpload
      <3>4. upload' = [upload EXCEPT ![d] = [upload[d] EXCEPT !.stage = "send",
                          !.todo = @ \ {upload[d].now}, !.now = "none", !.fresh = FALSE]]
        BY <1>4, <3>2 DEF TypeOK, Installed
      <3>5. upload' \in [Machines -> Upload]
        BY <3>2, <3>3, <3>4 DEF TypeOK
      <3> QED
        BY <1>4, <3>1, <3>5 DEF TypeOK, Installed
    <2>3. AtWork' /\ CheckedStored' /\ OwnedSent'
      BY <1>4 DEF TypeOK, Upload, AtWork, CheckedStored, OwnedSent, Installed
    <2>4. QuotaKept' /\ ServedOwn' /\ PublishedStored'
      BY <1>4, QuotaRows DEF ServedOwn, PublishedStored, Installed
    <2> QED
      BY <2>2, <2>3, <2>4
  <1>5. ASSUME NEW d \in online, NEW rollback \in BOOLEAN, InstallFails(d, rollback), UNCHANGED online
        PROVE  GuardInv'
    <2>1. owned' \subseteq owned
      BY <1>5 DEF InstallFails, RowsAfterFailure
    <2>2. TypeOK'
      BY <1>5, <2>1 DEF TypeOK, Upload, InstallFails, Restart
    <2>3. AtWork' /\ CheckedStored' /\ OwnedSent'
      BY <1>5, <2>1 DEF TypeOK, Upload, AtWork, CheckedStored, OwnedSent, InstallFails, Restart
    <2>4. QuotaKept'
      <3>1. \A u \in Accounts : /\ Cardinality(RowsOf(owned', u)) <= Cardinality(RowsOf(owned, u))
                                /\ Cardinality(RowsOf(owned, u)) <= BlobQuota
                                /\ Cardinality(RowsOf(owned, u)) \in Nat
                                /\ Cardinality(RowsOf(owned', u)) \in Nat
        BY <2>1, RowsFewer, RowsFinite, QuotaRows
      <3> QED
        BY <3>1, QuotaRows, UploadsAssumption
    <2>5. ServedOwn' /\ PublishedStored'
      BY <1>5 DEF ServedOwn, PublishedStored, InstallFails
    <2> QED
      BY <2>2, <2>3, <2>4, <2>5
  <1>6. ASSUME NEW d \in online, NEW ran \in BOOLEAN, ConnectionLost(d, ran), UNCHANGED online
        PROVE  GuardInv'
    <2>1. disk \subseteq disk' /\ disk' \subseteq Bodies
      BY <1>6 DEF TypeOK, Upload, AtWork, ConnectionLost
    <2>2. TypeOK'
      BY <1>6, <2>1 DEF TypeOK, Upload, ConnectionLost, Restart
    <2>3. AtWork' /\ CheckedStored' /\ OwnedSent'
      BY <1>6, <2>1 DEF TypeOK, Upload, AtWork, CheckedStored, OwnedSent, ConnectionLost, Restart
    <2>4. QuotaKept' /\ ServedOwn' /\ PublishedStored'
      BY <1>6, <2>1, QuotaRows DEF ServedOwn, PublishedStored, ConnectionLost
    <2> QED
      BY <2>2, <2>3, <2>4
  <1>7. ASSUME NEW d \in online, CheckPush(d), UNCHANGED online
        PROVE  GuardInv'
    <2>1. TypeOK'
      BY <1>7 DEF TypeOK, Upload, CheckPush, Restart
    <2>2. AtWork' /\ CheckedStored' /\ OwnedSent'
      BY <1>7 DEF TypeOK, Upload, AtWork, CheckedStored, OwnedSent, CheckPush, Restart, Acceptable
    <2>3. QuotaKept' /\ ServedOwn' /\ PublishedStored'
      BY <1>7, QuotaRows DEF ServedOwn, PublishedStored, CheckPush
    <2> QED
      BY <2>1, <2>2, <2>3
  <1>8. ASSUME NEW d \in online, Ingest(d), UNCHANGED online
        PROVE  GuardInv'
    <2>1. d \in Machines /\ AccountOf(d) \in Accounts /\ upload[d].item \in Items
      BY <1>8, OwnerAccount DEF TypeOK, Upload, AtWork, Ingest
    <2>2. TypeOK'
      BY <1>8, <2>1 DEF TypeOK, Upload, Ingest, Quiet
    <2>3. AtWork' /\ CheckedStored' /\ OwnedSent'
      BY <1>8, <2>1 DEF TypeOK, Upload, AtWork, CheckedStored, OwnedSent, Ingest, Quiet
    <2>4. PublishedStored'
      BY <1>8, <2>1 DEF TypeOK, Upload, CheckedStored, PublishedStored, Ingest
    <2>5. QuotaKept' /\ ServedOwn'
      BY <1>8, QuotaRows DEF ServedOwn, Ingest
    <2> QED
      BY <2>2, <2>3, <2>4, <2>5
  <1>9. ASSUME NEW d \in online, NEW x \in Items, PushUnsent(d, x), UNCHANGED online
        PROVE  GuardInv'
    <2>1. d \in Machines /\ AccountOf(d) \in Accounts
      BY <1>9, OwnerAccount DEF TypeOK, Upload
    <2>2. TypeOK' /\ AtWork' /\ CheckedStored' /\ OwnedSent'
      BY <1>9, <2>1 DEF TypeOK, Upload, AtWork, CheckedStored, OwnedSent, PushUnsent
    <2>3. PublishedStored'
      BY <1>9, <2>1 DEF TypeOK, Upload, PublishedStored, PushUnsent, Acceptable
    <2>4. QuotaKept' /\ ServedOwn'
      BY <1>9, QuotaRows DEF ServedOwn, PushUnsent
    <2> QED
      BY <2>2, <2>3, <2>4
  <1>10. ASSUME NEW d \in online, NEW x \in Items, Download(d, x), UNCHANGED online
         PROVE  GuardInv'
    <2>1. d \in Machines /\ Graph(x) \subseteq Bodies
      BY <1>10, GraphBodies DEF TypeOK, Upload
    <2>2. TypeOK' /\ AtWork' /\ CheckedStored' /\ OwnedSent'
      BY <1>10, <2>1 DEF TypeOK, Upload, AtWork, CheckedStored, OwnedSent, Download
    <2>3. \A h \in Graph(x) \ holding[d] : <<AccountOf(d), h>> \in owned
      BY <1>10 DEF Download, Authorized, Owns
    <2>4. served' \subseteq served \cup owned
      BY <1>10, <2>3 DEF Download
    <2>5. ServedOwn'
      BY <1>10, <2>4 DEF OwnedSent, ServedOwn, Download
    <2>6. QuotaKept' /\ PublishedStored'
      BY <1>10, QuotaRows DEF PublishedStored, Download
    <2> QED
      BY <2>2, <2>5, <2>6
  <1>11. CASE UNCHANGED uploadVars
    <2>1. QuotaKept'
      BY <1>11, QuotaRows DEF uploadVars
    <2>2. TypeOK' /\ AtWork' /\ CheckedStored' /\ OwnedSent' /\ ServedOwn' /\ PublishedStored'
      BY <1>11 DEF uploadVars, TypeOK, AtWork, CheckedStored, OwnedSent, ServedOwn, PublishedStored
    <2> QED
      BY <2>1, <2>2
  <1> QED
    BY <1>1, <1>2, <1>3, <1>4, <1>5, <1>6, <1>7, <1>8, <1>9, <1>10, <1>11 DEF UploadsNext

(* However uploads of any number of devices interleave, fail and are repeated:
   no user exceeds the quota (BlobOwnership::claim), is handed a body that none
   of the user's devices sent (open_authorized_blob), or has an operation whose
   bodies are not all stored (ingest_ink_checked). *)
THEOREM BodiesGuardedTheorem ==
    UploadsSpec => []BodiesGuarded
  <1>1. UploadsInit => GuardInv
    BY GuardInit
  <1>2. GuardInv /\ [UploadsNext]_uploadVars => GuardInv'
    BY GuardStep
  <1>3. GuardInv => BodiesGuarded
    BY DEF GuardInv
  <1> QED
    BY <1>1, <1>2, <1>3, PTL DEF UploadsSpec
-----------------------------------------------------------------------------
(***************************************************************************)
(* OAuth: a consent yields one exchange and nothing beyond what it named,  *)
(* for every set of clients, users and request tasks, every lifetime and   *)
(* any number of secrets.                                                  *)
(*                                                                         *)
(* ConsentKept is not inductive: it speaks of the token table alone, while *)
(* what it forbids is prepared in the code table and in the claims a       *)
(* request task carries from one await to the next.  The invariant says    *)
(* who may still act for a consent: while its code is in the table nobody  *)
(* does; afterwards, unless it includes offline access, a single task, and *)
(* one access token once that task has issued it.                          *)
(***************************************************************************)

ClaimSet == [client : Clients, user : Users, offline : BOOLEAN]

Issuing == [pc : {"access", "refresh"}, claims : ClaimSet, code : Nat]
Rotating == [pc : {"revoke"}, claims : ClaimSet, code : Nat, presented : Nat]

Busy(t) == tasks[t].pc # "none"

OAuthTyped ==
  /\ drawn \in Nat
  /\ exchanged \in [1 .. MaxSecrets -> Nat]
  /\ tasks \in [Tasks -> {NoTask} \cup Issuing \cup Rotating]
  /\ \A p \in consents : p.code \in Nat /\ p.claims \in ClaimSet
  /\ \A r \in tokens : r.token \in Nat

\* A code names one consent, and the numbers not yet drawn name none.
ConsentsOwn ==
  /\ \A p, q \in consents : p.code = q.code => p = q
  /\ \A p \in consents : p.code <= drawn
  /\ \A c \in 1 .. MaxSecrets : c > drawn => exchanged[c] = 0

\* A code in the table is unspent: no task and no token comes from it.
CodesFresh ==
  /\ \A row \in codes :
       /\ [code |-> row.code, claims |-> row.claims] \in consents
       /\ row.code \in 1 .. MaxSecrets
       /\ exchanged[row.code] = 0
       /\ \A t \in Tasks : Busy(t) => tasks[t].code # row.code
       /\ \A r \in tokens : r.code # row.code
  /\ \A row, other \in codes : row.code = other.code => row = other

\* A task between two awaits acts for a consent; without offline access it is the
\* only one, and has issued nothing before its first insert.
TasksHonest ==
  \A t \in Tasks : Busy(t) =>
    /\ [code |-> tasks[t].code, claims |-> tasks[t].claims] \in consents
    /\ tasks[t].pc = "revoke" => tasks[t].claims.offline
    /\ ~ tasks[t].claims.offline =>
         /\ \A u \in Tasks \ {t} : Busy(u) => tasks[u].code # tasks[t].code
         /\ tasks[t].pc = "access" => \A r \in tokens : r.code # tasks[t].code

\* So does a token; without offline access it is the only one of its consent.
TokensHonest ==
  \A r \in tokens :
    /\ [code |-> r.code, claims |-> r.claims] \in consents
    /\ r.kind = "refresh" => r.claims.offline
    /\ ~ r.claims.offline => \A s \in tokens : s.code = r.code => s = r

OAuthInv == /\ OAuthTyped
            /\ ConsentsOwn
            /\ CodesFresh
            /\ TasksHonest
            /\ TokensHonest
            /\ CodeOnce
----------------------------------------------------------------------------
LEMMA OAuthInitially == OAuthInit => OAuthInv
  <1> SUFFICES ASSUME OAuthInit PROVE OAuthInv
    OBVIOUS
  <1>1. OAuthTyped
    BY DEF OAuthInit, OAuthTyped
  <1>2. \A t \in Tasks : ~ Busy(t)
    BY DEF OAuthInit, Busy, NoTask
  <1>3. ConsentsOwn /\ CodesFresh /\ TokensHonest /\ CodeOnce
    BY TimeAssumption DEF OAuthInit, ConsentsOwn, CodesFresh, TokensHonest, CodeOnce
  <1> QED
    BY <1>1, <1>2, <1>3 DEF OAuthInv, TasksHonest

(* Two rows of a set whose elements are all equal do not exist. *)
LEMMA AtMostOne ==
  ASSUME NEW S, \A x, y \in S : x = y
  PROVE  Cardinality(S) <= 1
  <1>1. CASE S = {}
    BY <1>1, FS_EmptySet
  <1>2. CASE S # {}
    <2>1. PICK x \in S : TRUE
      BY <1>2
    <2>2. S = {x}
      BY <2>1
    <2> QED
      BY <2>2, FS_Singleton
  <1> QED
    BY <1>1, <1>2

(* What the invariant says of the token table is the property. *)
LEMMA ConsentFollows == OAuthInv => ConsentKept
  <1> SUFFICES ASSUME OAuthInv PROVE ConsentKept
    OBVIOUS
  <1>1. ASSUME NEW row \in tokens, ~ row.claims.offline
        PROVE  Cardinality({r \in tokens : r.code = row.code /\ Honoured(r)}) <= 1
    <2> DEFINE S == {r \in tokens : r.code = row.code /\ Honoured(r)}
    <2>1. \A x, y \in S : x = y
      BY <1>1 DEF OAuthInv, TokensHonest
    <2> HIDE DEF S
    <2> QED
      BY <2>1, AtMostOne DEF S
  <1>2. ConsentBounds
    BY <1>1 DEF ConsentBounds, OAuthInv, TokensHonest
  <1> QED
    BY <1>2 DEF ConsentKept, OAuthInv

(* The claims of a consent are those of everything with its code. *)
LEMMA OneConsent ==
  ASSUME ConsentsOwn, NEW c, NEW x, NEW y,
         [code |-> c, claims |-> x] \in consents, [code |-> c, claims |-> y] \in consents
  PROVE  x = y
  <1>1. [code |-> c, claims |-> x] = [code |-> c, claims |-> y]
    BY DEF ConsentsOwn
  <1> QED
    BY <1>1
----------------------------------------------------------------------------
(* issue_code: the new number is nobody's. *)
LEMMA AuthorizeSafe ==
  ASSUME OAuthInv, NEW c \in Clients, NEW u \in Users, NEW offline \in BOOLEAN,
         Authorize(c, u, offline)
  PROVE  OAuthInv'
  <1> USE DEF OAuthInv
  <1> DEFINE claims == [client |-> c, user |-> u, offline |-> offline]
             row == [code |-> drawn + 1, claims |-> claims, expires |-> clock + CodeTtl]
             consent == [code |-> drawn + 1, claims |-> claims]
  <1>1. /\ drawn' = drawn + 1 /\ drawn \in Nat /\ drawn < MaxSecrets /\ MaxSecrets \in Nat
        /\ codes' = codes \cup {row}
        /\ consents' = consents \cup {consent}
        /\ UNCHANGED <<tokens, tasks, exchanged>>
    BY TimeAssumption DEF Authorize, OAuthTyped
  <1>2. /\ row.code = drawn + 1 /\ row.claims = claims /\ claims \in ClaimSet
        /\ consent.code = drawn + 1 /\ consent.claims = claims
        /\ consent = [code |-> row.code, claims |-> row.claims]
    BY DEF ClaimSet
  <1> HIDE DEF claims, row, consent
  <1>3. OAuthTyped'
    BY <1>1, <1>2 DEF OAuthTyped
  <1>4. /\ \A p \in consents : p.code # drawn + 1 /\ p.code \in Nat
        /\ exchanged[drawn + 1] = 0 /\ drawn + 1 \in 1 .. MaxSecrets
    BY <1>1 DEF ConsentsOwn, OAuthTyped
  <1>5. ConsentsOwn'
    BY <1>1, <1>2, <1>4 DEF ConsentsOwn, OAuthTyped
  <1>6. /\ \A t \in Tasks : Busy(t) => tasks[t].code # drawn + 1
        /\ \A r \in tokens : r.code # drawn + 1
        /\ \A other \in codes : other.code # drawn + 1
    <2>1. \A x, y : [code |-> x, claims |-> y] \in consents => x # drawn + 1
      <3>1. \A x, y : [code |-> x, claims |-> y].code = x
        OBVIOUS
      <3> QED
        BY <3>1, <1>4
    <2> QED
      BY <2>1 DEF TasksHonest, TokensHonest, CodesFresh
  <1>7. CodesFresh'
    BY <1>1, <1>2, <1>4, <1>6 DEF CodesFresh, Busy
  <1>8. TasksHonest' /\ TokensHonest'
    BY <1>1 DEF TasksHonest, TokensHonest, Busy
  <1> QED
    BY <1>1, <1>3, <1>5, <1>7, <1>8 DEF CodeOnce

(* redeem_code: the row is gone before anything is issued for it, whichever of
   the later checks fails. *)
LEMMA RedeemSafe ==
  ASSUME OAuthInv, NEW t \in Tasks, NEW row \in codes, NEW fits \in BOOLEAN, Redeem(t, row, fits)
  PROVE  OAuthInv'
  <1> USE DEF OAuthInv
  <1>1. /\ tasks[t] = NoTask /\ ~ Busy(t)
        /\ codes' \subseteq codes \ {row}
        /\ UNCHANGED <<tokens, drawn, consents>>
    BY DEF Redeem, TakeCode, Busy, NoTask
  <1>2. \A other \in codes' : other \in codes /\ other.code # row.code
    BY <1>1 DEF CodesFresh
  <1>3. CASE ~ fits
    <2>1. UNCHANGED <<tasks, exchanged>>
      BY <1>3 DEF Redeem
    <2>2. CodesFresh'
      BY <1>1, <1>2, <2>1 DEF CodesFresh, Busy
    <2> QED
      BY <1>1, <2>1, <2>2 DEF OAuthTyped, ConsentsOwn, TasksHonest, TokensHonest, CodeOnce, Busy
  <1>4. CASE fits
    <2> DEFINE task == [pc |-> "access", claims |-> row.claims, code |-> row.code]
    <2>1. /\ row.code \in 1 .. MaxSecrets /\ exchanged[row.code] = 0
          /\ [code |-> row.code, claims |-> row.claims] \in consents
      BY DEF CodesFresh
    <2>2. exchanged' = [exchanged EXCEPT ![row.code] = 1] /\ tasks' = [tasks EXCEPT ![t] = task]
      BY <1>4, <2>1 DEF Redeem, OAuthTyped
    <2>3. row.code \in Nat /\ row.claims \in ClaimSet
      <3>1. [code |-> row.code, claims |-> row.claims].code = row.code
            /\ [code |-> row.code, claims |-> row.claims].claims = row.claims
        OBVIOUS
      <3> QED
        BY <2>1, <3>1 DEF OAuthTyped
    <2>4. /\ task \in Issuing
          /\ task.pc = "access" /\ task.code = row.code /\ task.claims = row.claims
      BY <2>3 DEF Issuing
    <2> HIDE DEF task
    <2>5. /\ tasks'[t] = task
          /\ \A u \in Tasks \ {t} : tasks'[u] = tasks[u]
      BY <2>2 DEF OAuthTyped
    <2>6. OAuthTyped'
      BY <1>1, <2>2, <2>4 DEF OAuthTyped
    <2>7. ConsentsOwn'
      <3>1. row.code <= drawn
        <4>1. [code |-> row.code, claims |-> row.claims].code = row.code
          OBVIOUS
        <4> QED
          BY <2>1, <4>1 DEF ConsentsOwn
      <3> QED
        BY <1>1, <2>2, <3>1, <2>1 DEF ConsentsOwn, OAuthTyped
    <2>8. CodesFresh'
      <3>1. \A other \in codes' :
              /\ exchanged'[other.code] = 0
              /\ \A u \in Tasks : Busy(u)' => tasks'[u].code # other.code
        BY <1>2, <2>1, <2>2, <2>4, <2>5 DEF CodesFresh, Busy, OAuthTyped
      <3> QED
        BY <3>1, <1>1, <1>2 DEF CodesFresh
    <2>9. TasksHonest'
      <3>1. \A u \in Tasks \ {t} : Busy(u)' => Busy(u) /\ tasks[u].code # row.code
        BY <2>5 DEF Busy, CodesFresh
      <3>2. \A r \in tokens : r.code # row.code
        BY DEF CodesFresh
      <3> QED
        BY <3>1, <3>2, <1>1, <2>1, <2>4, <2>5 DEF TasksHonest, Busy
    <2>10. TokensHonest' /\ CodeOnce'
      BY <1>1, <2>2 DEF TokensHonest, CodeOnce, OAuthTyped
    <2> QED
      BY <2>6, <2>7, <2>8, <2>9, <2>10
  <1> QED
    BY <1>3, <1>4

(* A lookup of a refresh token acts for a consent with offline access. *)
LEMMA LookUpSafe ==
  ASSUME OAuthInv, NEW t \in Tasks, NEW row \in tokens, LookUp(t, row)
  PROVE  OAuthInv'
  <1> USE DEF OAuthInv
  <1> DEFINE task == [pc |-> "revoke", claims |-> row.claims, code |-> row.code,
                      presented |-> row.token]
  <1>1. /\ tasks[t] = NoTask /\ tasks' = [tasks EXCEPT ![t] = task] /\ row.kind = "refresh"
        /\ UNCHANGED <<codes, tokens, drawn, consents, exchanged>>
    BY DEF LookUp
  <1>2. /\ row.claims.offline
        /\ [code |-> row.code, claims |-> row.claims] \in consents
    BY <1>1 DEF TokensHonest
  <1>3. row.code \in Nat /\ row.claims \in ClaimSet /\ row.token \in Nat
    <2>1. [code |-> row.code, claims |-> row.claims].code = row.code
          /\ [code |-> row.code, claims |-> row.claims].claims = row.claims
      OBVIOUS
    <2> QED
      BY <1>2, <2>1 DEF OAuthTyped
  <1>4. /\ task \in Rotating
        /\ task.pc = "revoke" /\ task.code = row.code /\ task.claims = row.claims
    BY <1>3 DEF Rotating
  <1> HIDE DEF task
  <1>5. tasks'[t] = task /\ \A u \in Tasks \ {t} : tasks'[u] = tasks[u]
    BY <1>1 DEF OAuthTyped
  <1>6. OAuthTyped'
    BY <1>1, <1>4 DEF OAuthTyped
  <1>7. \A other \in codes : other.code # row.code
    BY DEF CodesFresh
  <1>8. CodesFresh'
    BY <1>1, <1>4, <1>5, <1>7 DEF CodesFresh, Busy
  <1>9. \A u \in Tasks \ {t} : Busy(u) /\ ~ tasks[u].claims.offline => tasks[u].code # row.code
    BY <1>2, OneConsent DEF TasksHonest
  <1>10. TasksHonest'
    BY <1>1, <1>2, <1>4, <1>5, <1>9 DEF TasksHonest, Busy
  <1>11. ConsentsOwn' /\ TokensHonest' /\ CodeOnce'
    BY <1>1 DEF ConsentsOwn, TokensHonest, CodeOnce
  <1> QED
    BY <1>6, <1>8, <1>10, <1>11

(* revoke_token only takes rows away, and its task goes on to issue. *)
LEMMA RevokeSafe ==
  ASSUME OAuthInv, NEW t \in Tasks, Revoke(t)
  PROVE  OAuthInv'
  <1> USE DEF OAuthInv
  <1> DEFINE task == [pc |-> "access", claims |-> tasks[t].claims, code |-> tasks[t].code]
  <1>1. /\ tasks[t].pc = "revoke" /\ tasks' = [tasks EXCEPT ![t] = task]
        /\ tokens' \subseteq tokens
        /\ UNCHANGED <<codes, drawn, consents, exchanged>>
    BY DEF Revoke
  <1>2. tasks[t] \in Rotating
    BY <1>1 DEF OAuthTyped, NoTask, Issuing, Rotating
  <1>3. /\ task \in Issuing
        /\ task.pc = "access" /\ task.code = tasks[t].code /\ task.claims = tasks[t].claims
    BY <1>2 DEF Issuing, Rotating
  <1> HIDE DEF task
  <1>4. tasks'[t] = task /\ \A u \in Tasks \ {t} : tasks'[u] = tasks[u]
    BY <1>1 DEF OAuthTyped
  <1>5. OAuthTyped'
    BY <1>1, <1>3 DEF OAuthTyped
  <1>6. Busy(t) /\ Busy(t)' /\ \A u \in Tasks \ {t} : Busy(u)' <=> Busy(u)
    BY <1>1, <1>3, <1>4 DEF Busy
  <1>7. \A u \in Tasks : Busy(u)' => Busy(u) /\ tasks'[u].code = tasks[u].code
                                    /\ tasks'[u].claims = tasks[u].claims
    BY <1>3, <1>4, <1>6
  <1>8. CodesFresh'
    BY <1>1, <1>7 DEF CodesFresh
  <1>9. TasksHonest'
    <2>1. tasks[t].claims.offline
      BY <1>1, <1>6 DEF TasksHonest
    <2>2. \A u \in Tasks \ {t} : Busy(u)' => tasks'[u].pc = tasks[u].pc
      BY <1>4
    <2> QED
      BY <2>1, <2>2, <1>1, <1>3, <1>4, <1>7 DEF TasksHonest
  <1>10. ConsentsOwn' /\ TokensHonest' /\ CodeOnce'
    BY <1>1 DEF ConsentsOwn, TokensHonest, CodeOnce
  <1> QED
    BY <1>5, <1>8, <1>9, <1>10

(* issue, first await: for a consent without offline access this is the only
   access token. *)
LEMMA IssueAccessSafe ==
  ASSUME OAuthInv, NEW t \in Tasks, IssueAccess(t)
  PROVE  OAuthInv'
  <1> USE DEF OAuthInv
  <1> DEFINE task == [tasks[t] EXCEPT !.pc = "refresh"]
             new == Token(t, "access", AccessTtl)
  <1>1. /\ tasks[t].pc = "access" /\ tasks' = [tasks EXCEPT ![t] = task]
        /\ tokens' = tokens \cup {new} /\ drawn' = drawn + 1
        /\ UNCHANGED <<codes, consents, exchanged>>
    BY DEF IssueAccess
  <1>2. tasks[t] \in Issuing
    BY <1>1 DEF OAuthTyped, NoTask, Issuing, Rotating
  <1>3. /\ task \in Issuing
        /\ task.pc = "refresh" /\ task.code = tasks[t].code /\ task.claims = tasks[t].claims
    BY <1>2 DEF Issuing
  <1>4. /\ new.code = tasks[t].code /\ new.claims = tasks[t].claims /\ new.kind = "access"
        /\ new.token \in Nat
    BY DEF Token, OAuthTyped
  <1> HIDE DEF task, new
  <1>5. tasks'[t] = task /\ \A u \in Tasks \ {t} : tasks'[u] = tasks[u]
    BY <1>1 DEF OAuthTyped
  <1>6. OAuthTyped'
    BY <1>1, <1>3, <1>4 DEF OAuthTyped
  <1>7. Busy(t) /\ Busy(t)' /\ \A u \in Tasks \ {t} : Busy(u)' <=> Busy(u)
    BY <1>1, <1>3, <1>5 DEF Busy
  <1>8. \A u \in Tasks : Busy(u)' => Busy(u) /\ tasks'[u].code = tasks[u].code
                                    /\ tasks'[u].claims = tasks[u].claims
    BY <1>3, <1>5, <1>7
  <1>9. ConsentsOwn' /\ CodeOnce'
    BY <1>1 DEF ConsentsOwn, CodeOnce, OAuthTyped
  <1>10. CodesFresh'
    BY <1>1, <1>4, <1>7, <1>8 DEF CodesFresh
  <1>11. [code |-> tasks[t].code, claims |-> tasks[t].claims] \in consents
    BY <1>7 DEF TasksHonest
  <1>12. TasksHonest'
    <2>1. \A u \in Tasks \ {t} : Busy(u) /\ ~ tasks[u].claims.offline => tasks[u].code # new.code
      BY <1>4, <1>7 DEF TasksHonest
    <2>2. \A u \in Tasks \ {t} : Busy(u)' => tasks'[u].pc = tasks[u].pc
      BY <1>5
    <2> QED
      BY <2>1, <2>2, <1>1, <1>3, <1>5, <1>8 DEF TasksHonest
  <1>13. TokensHonest'
    <2>1. ~ new.claims.offline => \A r \in tokens : r.code # new.code
      BY <1>1, <1>4, <1>7 DEF TasksHonest
    <2>2. \A r \in tokens : ~ r.claims.offline => r.code # new.code
      BY <2>1, <1>4, <1>11, OneConsent DEF TokensHonest
    <2> QED
      BY <2>1, <2>2, <1>1, <1>4, <1>11 DEF TokensHonest
  <1> QED
    BY <1>6, <1>9, <1>10, <1>12, <1>13

(* issue, second await: a refresh token only where the consent has offline access. *)
LEMMA IssueRefreshSafe ==
  ASSUME OAuthInv, NEW t \in Tasks, IssueRefresh(t)
  PROVE  OAuthInv'
  <1> USE DEF OAuthInv
  <1> DEFINE new == Token(t, "refresh", RefreshTtl)
  <1>1. /\ tasks[t].pc = "refresh" /\ Busy(t) /\ tasks' = [tasks EXCEPT ![t] = NoTask]
        /\ UNCHANGED <<codes, consents, exchanged>>
    BY DEF IssueRefresh, Busy
  <1>2. /\ new.code = tasks[t].code /\ new.claims = tasks[t].claims /\ new.kind = "refresh"
        /\ new.token \in Nat
    BY DEF Token, OAuthTyped
  <1>3. \/ tasks[t].claims.offline /\ drawn' = drawn + 1 /\ tokens' = tokens \cup {new}
        \/ UNCHANGED <<drawn, tokens>>
    BY DEF IssueRefresh, WantsRefresh
  <1> HIDE DEF new
  <1>4. tasks'[t] = NoTask /\ \A u \in Tasks \ {t} : tasks'[u] = tasks[u]
    BY <1>1 DEF OAuthTyped
  <1>5. ~ Busy(t)' /\ \A u \in Tasks \ {t} : Busy(u)' <=> Busy(u)
    BY <1>4 DEF Busy, NoTask
  <1>6. OAuthTyped'
    BY <1>1, <1>2, <1>3 DEF OAuthTyped
  <1>7. [code |-> tasks[t].code, claims |-> tasks[t].claims] \in consents
    BY <1>1 DEF TasksHonest
  <1>8. ConsentsOwn' /\ CodeOnce'
    BY <1>1, <1>3 DEF ConsentsOwn, CodeOnce, OAuthTyped
  <1>9. CodesFresh'
    BY <1>1, <1>2, <1>3, <1>4, <1>5 DEF CodesFresh
  <1>10. \A x : tasks[t].claims.offline /\ [code |-> new.code, claims |-> x] \in consents => x.offline
    BY <1>2, <1>7, OneConsent
  <1>11. TasksHonest'
    <2>1. \A u \in Tasks : Busy(u) /\ ~ tasks[u].claims.offline /\ tasks[t].claims.offline
                             => tasks[u].code # new.code
      BY <1>10 DEF TasksHonest
    <2>2. \A u \in Tasks : Busy(u)' => u # t /\ Busy(u) /\ tasks'[u] = tasks[u]
      BY <1>4, <1>5
    <2> QED
      BY <2>1, <2>2, <1>1, <1>3 DEF TasksHonest
  <1>12. TokensHonest'
    <2>1. \A r \in tokens : ~ r.claims.offline /\ tasks[t].claims.offline => r.code # new.code
      BY <1>10 DEF TokensHonest
    <2> QED
      BY <2>1, <1>1, <1>2, <1>3, <1>7 DEF TokensHonest
  <1> QED
    BY <1>6, <1>8, <1>9, <1>11, <1>12

(* A dropped request forgets its claims; what it consumed stays consumed. *)
LEMMA DropTaskSafe ==
  ASSUME OAuthInv, NEW t \in Tasks, DropTask(t)
  PROVE  OAuthInv'
  <1> USE DEF OAuthInv
  <1>1. /\ tasks' = [tasks EXCEPT ![t] = NoTask]
        /\ UNCHANGED <<codes, tokens, drawn, consents, exchanged>>
    BY DEF DropTask
  <1>2. OAuthTyped'
    BY <1>1 DEF OAuthTyped
  <1>3. \A u \in Tasks : Busy(u)' => u # t /\ Busy(u) /\ tasks'[u] = tasks[u]
    BY <1>1 DEF Busy, NoTask, OAuthTyped
  <1>4. CodesFresh' /\ TasksHonest'
    BY <1>1, <1>3 DEF CodesFresh, TasksHonest
  <1> QED
    BY <1>1, <1>2, <1>4 DEF ConsentsOwn, TokensHonest, CodeOnce

LEMMA OAuthStep == OAuthInv /\ [OAuthNext]_oauthVars => OAuthInv'
  <1> SUFFICES ASSUME OAuthInv, [OAuthNext]_oauthVars PROVE OAuthInv'
    OBVIOUS
  <1>1. ASSUME UNCHANGED <<codes, tokens, tasks, drawn, consents, exchanged>> PROVE OAuthInv'
    BY <1>1 DEF OAuthInv, OAuthTyped, ConsentsOwn, CodesFresh, TasksHonest, TokensHonest, CodeOnce,
                Busy
  <1>2. ASSUME NEW c \in Clients, Register(c) PROVE OAuthInv'
    BY <1>1, <1>2 DEF Register
  <1>3. CASE ClockTick
    BY <1>1, <1>3 DEF ClockTick
  <1>4. CASE UNCHANGED oauthVars
    BY <1>1, <1>4 DEF oauthVars
  <1> QED
    BY <1>2, <1>3, <1>4, AuthorizeSafe, RedeemSafe, LookUpSafe, RevokeSafe, IssueAccessSafe,
       IssueRefreshSafe, DropTaskSafe DEF OAuthNext
----------------------------------------------------------------------------
(* However exchanges and refreshes of a consent interleave, fail a check or are
   dropped between two awaits, its code is exchanged at most once, every token
   carries its claims, and without offline access at most one token is ever
   honoured for it (oauth/store.rs redeem_code, oauth/mod.rs issue). *)
THEOREM ConsentKeptTheorem == OAuthSpec => []ConsentKept
  BY OAuthInitially, OAuthStep, ConsentFollows, PTL DEF OAuthSpec
=============================================================================

----------------------- MODULE DocumentVersions_proofs -----------------------
(***************************************************************************)
(* The history of one document, for any number of requests, names and      *)
(* mishaps: what module DocumentVersions states as invariants, and that    *)
(* what was committed is kept.                                             *)
(***************************************************************************)
EXTENDS DocumentVersions, TLAPS

(* What a request knows when it commits.  Its file is no version's before  *)
(* it does; its number is at most one past the history, so one that is not *)
(* taken is the next; its file is stored; and a request that read no row   *)
(* writes every column.                                                    *)
RequestOK(r) ==
    /\ requests[r].pc = "new" => requests[r].copy = NoRow
    /\ requests[r].pc \in {"new", "loaded", "numbered", "stored"} =>
           \A v \in versions : v.key # r
    /\ At(r, "loaded", {"replace"}) => requests[r].name \in Names
    /\ At(r, "loaded", {"edit"}) => requests[r].name \in Details \cup {Nothing}
    /\ requests[r].pc \in {"numbered", "stored"} =>
           /\ requests[r].kind \in {"upload", "replace"}
           /\ requests[r].name \in Names
           /\ requests[r].next \in 1 .. row.version + 1
           /\ requests[r].kind = "upload" => requests[r].copy.name = Nothing
    /\ requests[r].pc = "stored" => r \in objects

VersionsInv ==
    /\ TypeOK
    /\ HistoryIsNumbered
    /\ VersionsAreStored
    /\ RowIsNewest
    /\ \A r \in Requests : RequestOK(r)

-----------------------------------------------------------------------------
LEMMA NumbersOf ==
    ASSUME NEW S, NEW e
    PROVE  {v.version : v \in S \cup {e}} = {v.version : v \in S} \cup {e.version}
  BY Zenon

LEMMA OneMore == ASSUME NEW n \in Nat PROVE (1 .. n) \cup {n + 1} = 1 .. n + 1
  OBVIOUS

(* The highest number of a history that is a numbering is the row's. *)
LEMMA HighestIsCurrent ==
    ASSUME TypeOK, HistoryIsNumbered
    PROVE  HighestVersion = row.version
<1>1. row.version \in Nat
  BY DEF TypeOK, Rows
<1>2. {v.version : v \in versions} = 1 .. row.version
  BY DEF HistoryIsNumbered
<1>3. CASE versions = {}
  <2>1. 1 .. row.version = {}
    BY <1>2, <1>3
  <2>2. row.version = 0
    BY <1>1, <2>1
  <2> QED
    BY <1>3, <2>2 DEF HighestVersion
<1>4. CASE versions # {}
  <2> DEFINE IsHighest(n) == n \in {v.version : v \in versions}
                             /\ \A v \in versions : v.version <= n
  <2>1. \A v \in versions : v.version \in 1 .. row.version
    BY <1>2
  <2>2. 1 .. row.version # {}
    BY <1>4, <2>1
  <2>3. IsHighest(row.version)
    <3>1. row.version \in 1 .. row.version
      BY <1>1, <2>2
    <3> QED
      BY <1>1, <1>2, <2>1, <3>1
  <2>4. ASSUME NEW n, IsHighest(n) PROVE n = row.version
    <3>1. n \in 1 .. row.version
      BY <1>2, <2>4
    <3>2. row.version <= n
      BY <2>3, <2>4
    <3> QED
      BY <1>1, <3>1, <3>2
  <2>5. HighestVersion = CHOOSE n \in {v.version : v \in versions} :
                             \A v \in versions : v.version <= n
    BY <1>4 DEF HighestVersion
  <2>6. \E n \in {v.version : v \in versions} : \A v \in versions : v.version <= n
    BY <2>3
  <2>7. IsHighest(HighestVersion)
    BY <2>5, <2>6
  <2> QED
    BY <2>4, <2>7
<1> QED
  BY <1>3, <1>4

(* A number that is at most one past the history and is not taken is the   *)
(* next one.                                                               *)
LEMMA FreeIsNext ==
    ASSUME TypeOK, HistoryIsNumbered, NEW n \in 1 .. row.version + 1, ~Taken(n)
    PROVE  n = row.version + 1
<1>1. row.version \in Nat
  BY DEF TypeOK, Rows
<1>2. {v.version : v \in versions} = 1 .. row.version
  BY DEF HistoryIsNumbered
<1>3. n \notin {v.version : v \in versions}
  BY DEF Taken
<1>4. n \notin 1 .. row.version
  BY <1>2, <1>3
<1> QED
  BY <1>1, <1>4

-----------------------------------------------------------------------------
LEMMA InitVersions == Init => VersionsInv
<1> SUFFICES ASSUME Init PROVE VersionsInv
  OBVIOUS
<1>1. Fresh \in RequestStates
  BY DEF Fresh, NoRow, RequestStates, Rows, Kinds
<1>2. NoRow \in Rows
  BY DEF NoRow, Rows
<1>4. mishaps \in 0 .. MaxMishaps
  BY VersionConstants DEF Init
<1>5. requests \in [Requests -> RequestStates]
  BY <1>1 DEF Init
<1>t. TypeOK
  BY <1>2, <1>4, <1>5 DEF Init, TypeOK
<1>3. HistoryIsNumbered
  BY DEF Init, HistoryIsNumbered, NoRow
<1> QED
  BY <1>t, <1>3 DEF Init, VersionsInv, VersionsAreStored, RowIsNewest, RequestOK, Fresh, At

(* A request that leaves the rows and the store alone disturbs only what   *)
(* is known of itself.                                                     *)
LEMMA RequestStep ==
    ASSUME VersionsInv, NEW r \in Requests, NEW s \in RequestStates,
           requests' = [requests EXCEPT ![r] = s],
           UNCHANGED <<row, versions>>, objects \subseteq objects',
           objects' \subseteq Requests, runs' \subseteq Nat,
           stale' = stale, mishaps' \in 0 .. MaxMishaps,
           RequestOK(r)'
    PROVE  VersionsInv'
<1>1. TypeOK'
  BY DEF VersionsInv, TypeOK
<1>2. HistoryIsNumbered' /\ RowIsNewest'
  BY DEF VersionsInv, HistoryIsNumbered, RowIsNewest
<1>3. VersionsAreStored'
  BY DEF VersionsInv, VersionsAreStored
<1>4. ASSUME NEW q \in Requests PROVE RequestOK(q)'
  <2>1. CASE q = r
    BY <2>1
  <2>2. CASE q # r
    <3>1. requests'[q] = requests[q]
      BY <2>2 DEF VersionsInv, TypeOK
    <3>2. RequestOK(q)
      BY DEF VersionsInv
    <3> QED
      BY <3>1, <3>2 DEF RequestOK, At
  <2> QED
    BY <2>1, <2>2
<1> QED
  BY <1>1, <1>2, <1>3, <1>4 DEF VersionsInv

LEMMA EndStep ==
    ASSUME VersionsInv, NEW r \in Requests, End(r), UNCHANGED <<row, versions, objects, stale>>,
           runs' \subseteq Nat, mishaps' \in 0 .. MaxMishaps
    PROVE  VersionsInv'
<1>1. Done \in RequestStates
  BY DEF Done, Fresh, NoRow, RequestStates, Rows, Kinds
<1>2. objects \subseteq Requests
  BY DEF VersionsInv, TypeOK
<1>3. RequestOK(r)'
  BY DEF VersionsInv, TypeOK, End, RequestOK, Done, Fresh, At
<1> QED
  BY <1>1, <1>2, <1>3, RequestStep DEF End

(* The commit of an upload or a replacement: the one step that adds to the *)
(* history.                                                                *)
LEMMA CommitStep ==
    ASSUME VersionsInv, NEW r \in Requests, Commit(r)
    PROVE  /\ VersionsInv'
           /\ row'.version = row.version + 1
           /\ row'.deleted = row.deleted
<1> DEFINE n == row.version + 1
<1> DEFINE new == [version |-> n, key |-> r, name |-> requests[r].name]
<1>t. TypeOK /\ HistoryIsNumbered /\ VersionsAreStored /\ RequestOK(r)
  BY DEF VersionsInv
<1>n. row.version \in Nat /\ row \in Rows
  BY <1>t DEF TypeOK, Rows
<1>1. /\ requests[r].pc = "stored"
      /\ requests[r].kind \in {"upload", "replace"}
      /\ ~Taken(requests[r].next)
      /\ versions' = versions \cup {NewVersion(r)}
      /\ row' = Mirrored(r)
      /\ stale' = (stale \/ (requests[r].kind = "replace" /\ row.name # requests[r].copy.name))
      /\ requests' = [requests EXCEPT ![r].pc = "committed"]
      /\ UNCHANGED <<objects, runs, mishaps>>
  BY DEF Commit, At, Goto
<1>2. /\ requests[r].name \in Names
      /\ requests[r].next \in 1 .. row.version + 1
      /\ requests[r].kind = "upload" => requests[r].copy.name = Nothing
      /\ r \in objects
      /\ \A v \in versions : v.key # r
  BY <1>t, <1>1 DEF RequestOK
<1>3. requests[r].next = n
  BY <1>t, <1>1, <1>2, FreeIsNext
<1>4. versions' = versions \cup {new}
  BY <1>1, <1>3 DEF NewVersion
<1>13. \E name \in Names \cup {Nothing} :
          /\ name = IF requests[r].name = requests[r].copy.name THEN row.name
                    ELSE requests[r].name
          /\ row' = [row EXCEPT !.version = n, !.key = r, !.name = name]
  <2>1. row.name \in Names \cup {Nothing}
    BY <1>n DEF Rows
  <2> QED
    BY <1>1, <1>2, <1>3, <2>1 DEF Mirrored
<1>5. /\ row' \in Rows
      /\ row'.version = n /\ row'.key = r
      /\ row'.name = IF requests[r].name = requests[r].copy.name THEN row.name
                     ELSE requests[r].name
      /\ row'.deleted = row.deleted
  <2>1. PICK name \in Names \cup {Nothing} :
          /\ name = IF requests[r].name = requests[r].copy.name THEN row.name
                    ELSE requests[r].name
          /\ row' = [row EXCEPT !.version = n, !.key = r, !.name = name]
    BY <1>13
  <2>2. n \in Nat
    BY <1>n
  <2> HIDE DEF n
  <2> QED
    BY <1>n, <2>1, <2>2 DEF Rows
<1>6. new \in Versions
  BY <1>n, <1>2 DEF Versions
<1>7. TypeOK'
  <2>1. requests' \in [Requests -> RequestStates]
    BY <1>t, <1>1 DEF TypeOK, RequestStates
  <2>2. stale' \in BOOLEAN
    BY <1>1, <1>t DEF TypeOK
  <2> QED
    BY <1>t, <1>1, <1>4, <1>5, <1>6, <2>1, <2>2 DEF TypeOK
<1>12. \A v \in versions : v.version # n
  <2>1. {v.version : v \in versions} = 1 .. row.version
    BY <1>t DEF HistoryIsNumbered
  <2>2. \A v \in versions : v.version \in 1 .. row.version
    BY <2>1
  <2> QED
    BY <1>n, <2>2
<1>8. HistoryIsNumbered'
  <2>1. {v.version : v \in versions'} = {v.version : v \in versions} \cup {n}
    BY <1>4, NumbersOf, new.version = n, Zenon
  <2>2. {v.version : v \in versions} = 1 .. row.version
    BY <1>t DEF HistoryIsNumbered
  <2>3. {v.version : v \in versions'} = 1 .. row'.version
    BY <1>n, <1>5, <2>1, <2>2, OneMore
  <2>4. \A v \in versions : v.version # n
    BY <1>12
  <2>5. \A v, w \in versions' : (v.version = w.version \/ v.key = w.key) => v = w
    BY <1>t, <1>2, <1>4, <2>4 DEF HistoryIsNumbered
  <2> QED
    BY <2>3, <2>5 DEF HistoryIsNumbered
<1>9. VersionsAreStored'
  BY <1>t, <1>1, <1>2, <1>4 DEF VersionsAreStored
<1>10. RowIsNewest'
  <2>2. ASSUME ~stale' PROVE row'.name = requests[r].name
    <3>1. CASE requests[r].kind = "replace"
      BY <1>1, <1>5, <2>2, <3>1
    <3>2. CASE requests[r].kind = "upload"
      BY <1>2, <1>5, <3>2, VersionConstants
    <3> QED
      BY <1>1, <3>1, <3>2
  <2> QED
    BY <1>4, <1>5, <1>12, <2>2 DEF RowIsNewest
<1>11. ASSUME NEW q \in Requests PROVE RequestOK(q)'
  <2>1. CASE q = r
    BY <1>t, <1>1, <2>1 DEF RequestOK, At, TypeOK
  <2>2. CASE q # r
    <3>1. requests'[q] = requests[q]
      BY <1>t, <1>1, <2>2 DEF TypeOK
    <3>2. RequestOK(q)
      BY DEF VersionsInv
    <3>3. requests[q].next \in 1 .. row.version + 1 => requests[q].next \in 1 .. row'.version + 1
      BY <1>n, <1>5
    <3> QED
      BY <1>1, <1>4, <2>2, <3>1, <3>2, <3>3 DEF RequestOK, At
  <2> QED
    BY <2>1, <2>2
<1> QED
  BY <1>5, <1>7, <1>8, <1>9, <1>10, <1>11 DEF VersionsInv

(* An edit or a deletion writes none of the columns the history is about. *)
LEMMA DetailsStep ==
    ASSUME VersionsInv, NEW r \in Requests, CommitEdit(r) \/ CommitDelete(r)
    PROVE  /\ VersionsInv'
           /\ row'.version = row.version
           /\ row.deleted => row'.deleted
<1>t. TypeOK /\ HistoryIsNumbered /\ VersionsAreStored /\ RowIsNewest
  BY DEF VersionsInv
<1>1. /\ requests' = [requests EXCEPT ![r].pc = "committed"]
      /\ UNCHANGED <<versions, objects, runs, stale, mishaps>>
  BY DEF CommitEdit, CommitDelete, Goto
<1>2. row \in Rows
  BY <1>t DEF TypeOK
<1>3. /\ row' \in Rows
      /\ row'.version = row.version /\ row'.key = row.key /\ row'.name = row.name
      /\ row.deleted => row'.deleted
  <2>1. CASE CommitDelete(r)
    BY <1>2, <2>1 DEF CommitDelete, Rows
  <2>2. CASE CommitEdit(r)
    <3>1. requests[r].pc = "loaded" /\ requests[r].kind = "edit"
      BY <2>2 DEF CommitEdit, At
    <3>2. requests[r].name \in Details \cup {Nothing}
      BY <3>1 DEF VersionsInv, RequestOK, At
    <3>3. \E d \in Details \cup {Nothing} : row' = [row EXCEPT !.details = d]
      <4>1. row.details \in Details \cup {Nothing}
        BY <1>2 DEF Rows
      <4> QED
        BY <2>2, <3>2, <4>1 DEF CommitEdit
    <3> QED
      BY <1>2, <3>3 DEF Rows
  <2> QED
    BY <2>1, <2>2
<1>4. requests' \in [Requests -> RequestStates]
  BY <1>t, <1>1 DEF TypeOK, RequestStates
<1>5. TypeOK'
  BY <1>t, <1>1, <1>3, <1>4 DEF TypeOK
<1>6. HistoryIsNumbered' /\ VersionsAreStored' /\ RowIsNewest'
  BY <1>t, <1>1, <1>3 DEF HistoryIsNumbered, VersionsAreStored, RowIsNewest
<1>7. ASSUME NEW q \in Requests PROVE RequestOK(q)'
  <2>1. CASE q = r
    <3>1. requests'[q].pc = "committed"
      BY <1>t, <1>1, <2>1 DEF TypeOK, RequestStates
    <3> QED
      BY <3>1 DEF RequestOK, At
  <2>2. CASE q # r
    <3>1. requests'[q] = requests[q]
      BY <1>t, <1>1, <2>2 DEF TypeOK
    <3>2. RequestOK(q)
      BY DEF VersionsInv
    <3> QED
      BY <1>1, <1>3, <3>1, <3>2 DEF RequestOK, At
  <2> QED
    BY <2>1, <2>2
<1> QED
  BY <1>3, <1>5, <1>6, <1>7 DEF VersionsInv

LEMMA ArriveStep ==
    ASSUME VersionsInv, NEW r \in Requests, ArriveUpload(r) \/ Arrive(r)
    PROVE  VersionsInv'
<1>t. TypeOK /\ RequestOK(r)
  BY DEF VersionsInv
<1>1. UNCHANGED <<row, versions, objects, runs, stale, mishaps>>
  BY DEF ArriveUpload, Arrive
<1>2. row.version \in Nat /\ row \in Rows
  BY <1>t DEF TypeOK, Rows
<1>3. requests \in [Requests -> RequestStates] /\ objects \subseteq Requests
         /\ runs \subseteq Nat /\ mishaps \in 0 .. MaxMishaps
  BY <1>t DEF TypeOK
<1>4. CASE ArriveUpload(r)
  <2>1. requests[r].pc = "new"
    BY <1>4 DEF ArriveUpload
  <2>2. PICK n \in Names :
           requests' = [requests EXCEPT ![r].pc = "numbered", ![r].kind = "upload",
                                        ![r].name = n, ![r].next = 1]
    BY <1>4 DEF ArriveUpload
  <2>3. requests[r].copy.name = Nothing /\ (\A v \in versions : v.key # r)
    BY <1>t, <2>1 DEF RequestOK, NoRow
  <2> DEFINE s == [requests[r] EXCEPT !.pc = "numbered", !.kind = "upload",
                                      !.name = n, !.next = 1]
  <2>4. s \in RequestStates
    BY <1>3 DEF RequestStates, Kinds
  <2>5. requests' = [requests EXCEPT ![r] = s]
    BY <1>3, <2>2 DEF RequestStates
  <2>6. requests'[r] = s
    BY <1>3, <2>5
  <2>7. s.pc = "numbered" /\ s.kind = "upload" /\ s.name = n /\ s.next = 1
           /\ s.copy = requests[r].copy
    BY <1>3 DEF RequestStates
  <2>8. 1 \in 1 .. row.version + 1
    BY <1>2
  <2> HIDE DEF s
  <2>9. RequestOK(r)'
    BY <1>1, <2>3, <2>6, <2>7, <2>8 DEF RequestOK, At
  <2> QED
    BY <1>1, <1>3, <2>4, <2>5, <2>9, RequestStep
<1>5. CASE Arrive(r)
  <2>1. requests[r].pc = "new"
    BY <1>5 DEF Arrive
  <2>2. PICK k \in Kinds \ {"upload"} :
           \E n \in CASE k = "replace" -> Names
                      [] k = "edit"    -> Details
                      [] OTHER         -> {Nothing} :
              requests' = [requests EXCEPT ![r] = [pc |-> "loaded", kind |-> k, name |-> n,
                                                   copy |-> row, next |-> 0]]
    BY <1>5 DEF Arrive
  <2>3. PICK n \in Names \cup Details \cup {Nothing} :
           /\ k = "replace" => n \in Names
           /\ k = "edit" => n \in Details
           /\ requests' = [requests EXCEPT ![r] = [pc |-> "loaded", kind |-> k, name |-> n,
                                                   copy |-> row, next |-> 0]]
    BY <2>2
  <2> DEFINE s == [pc |-> "loaded", kind |-> k, name |-> n, copy |-> row, next |-> 0]
  <2>4. s \in RequestStates
    BY <1>2 DEF RequestStates
  <2>5. requests'[r] = s
    BY <1>3, <2>3
  <2>6. RequestOK(r)'
    BY <1>t, <1>1, <2>1, <2>3, <2>5 DEF RequestOK, At
  <2> HIDE DEF s
  <2> QED
    BY <1>1, <1>3, <2>3, <2>4, <2>6, RequestStep DEF s
<1> QED
  BY <1>4, <1>5

LEMMA Numbered ==
    ASSUME NEW q \in RequestStates, NEW n \in Nat
    PROVE  [q EXCEPT !.pc = "numbered", !.next = n] \in RequestStates
  BY DEF RequestStates

(* The steps of a request that write neither rows nor columns. *)
LEMMA QuietStep ==
    ASSUME VersionsInv, NEW r \in Requests, ReadHighest(r) \/ Store(r) \/ Refresh(r)
    PROVE  VersionsInv'
<1>t. TypeOK /\ HistoryIsNumbered /\ RequestOK(r)
  BY DEF VersionsInv
<1>1. UNCHANGED <<row, versions, runs, stale, mishaps>>
  BY DEF ReadHighest, Store, Refresh
<1>2. row.version \in Nat /\ row \in Rows
  BY <1>t DEF TypeOK, Rows
<1>3. requests \in [Requests -> RequestStates] /\ objects \subseteq Requests
         /\ runs \subseteq Nat /\ mishaps \in 0 .. MaxMishaps
  BY <1>t DEF TypeOK
<1>4. CASE ReadHighest(r)
  <2> DEFINE s == [requests[r] EXCEPT !.pc = "numbered", !.next = row.version + 1]
  <2>1. requests[r].pc = "loaded" /\ requests[r].kind = "replace"
    BY <1>4 DEF ReadHighest, At
  <2>2. requests' = [requests EXCEPT ![r] = s] /\ objects' = objects
    BY <1>t, <1>4, HighestIsCurrent DEF ReadHighest
  <2>3. s \in RequestStates
    <3>1. row.version + 1 \in Nat
      BY <1>2
    <3>2. requests[r] \in RequestStates
      BY <1>3
    <3> QED
      BY <3>1, <3>2, Numbered
  <2>4. requests'[r] = s
    BY <1>3, <2>2
  <2>5. s.pc = "numbered" /\ s.kind = "replace" /\ s.name = requests[r].name
           /\ s.next = row.version + 1
    BY <1>3, <2>1 DEF RequestStates
  <2>6. requests[r].name \in Names /\ (\A v \in versions : v.key # r)
    BY <1>t, <2>1 DEF RequestOK, At
  <2>7. row.version + 1 \in 1 .. row.version + 1
    BY <1>2
  <2> HIDE DEF s
  <2>8. RequestOK(r)'
    BY <1>1, <2>4, <2>5, <2>6, <2>7 DEF RequestOK, At
  <2> QED
    BY <1>1, <1>3, <2>2, <2>3, <2>8, RequestStep
<1>5. CASE Store(r)
  <2> DEFINE s == [requests[r] EXCEPT !.pc = "stored"]
  <2>1. requests[r].pc = "numbered" /\ objects' = objects \cup {r}
    BY <1>5 DEF Store, At
  <2>2. requests' = [requests EXCEPT ![r] = s]
    BY <1>5 DEF Store, Goto
  <2>3. s \in RequestStates
    BY <1>3 DEF RequestStates
  <2>4. requests'[r] = s
    BY <1>3, <2>2
  <2>5. s.pc = "stored" /\ s.kind = requests[r].kind /\ s.name = requests[r].name
           /\ s.next = requests[r].next /\ s.copy = requests[r].copy
    BY <1>3 DEF RequestStates
  <2> HIDE DEF s
  <2>6. RequestOK(r)'
    BY <1>t, <1>1, <2>1, <2>4, <2>5 DEF RequestOK, At
  <2> QED
    BY <1>1, <1>3, <2>1, <2>2, <2>3, <2>6, RequestStep
<1>6. CASE Refresh(r)
  <2> DEFINE s == [requests[r] EXCEPT !.pc = "saved", !.copy = row]
  <2>1. requests' = [requests EXCEPT ![r] = s] /\ objects' = objects
    BY <1>6 DEF Refresh
  <2>2. s \in RequestStates
    BY <1>2, <1>3 DEF RequestStates
  <2>3. requests'[r] = s
    BY <1>3, <2>1
  <2>4. s.pc = "saved"
    BY <1>3 DEF RequestStates
  <2> HIDE DEF s
  <2>5. RequestOK(r)'
    BY <2>3, <2>4 DEF RequestOK, At
  <2> QED
    BY <1>1, <1>3, <2>1, <2>2, <2>5, RequestStep
<1> QED
  BY <1>4, <1>5, <1>6

(* The process restarts: the requests that had arrived are gone, and what  *)
(* they had done so far stays.                                             *)
LEMMA CrashStep ==
    ASSUME VersionsInv, Crash
    PROVE  VersionsInv'
<1>t. TypeOK /\ HistoryIsNumbered /\ VersionsAreStored /\ RowIsNewest
  BY DEF VersionsInv
<1>1. UNCHANGED <<row, versions, objects, runs, stale>>
  BY DEF Crash
<1>2. Done \in RequestStates
  BY DEF Done, Fresh, NoRow, RequestStates, Rows, Kinds
<1>3. mishaps' \in 0 .. MaxMishaps
  BY <1>t, VersionConstants DEF Crash, Mishap, TypeOK
<1>4. requests' = [r \in Requests |-> IF requests[r].pc = "new" THEN requests[r] ELSE Done]
  BY DEF Crash
<1>5. TypeOK'
  BY <1>t, <1>1, <1>2, <1>3, <1>4 DEF TypeOK
<1>6. HistoryIsNumbered' /\ VersionsAreStored' /\ RowIsNewest'
  BY <1>t, <1>1 DEF HistoryIsNumbered, VersionsAreStored, RowIsNewest
<1>7. ASSUME NEW r \in Requests PROVE RequestOK(r)'
  <2>1. RequestOK(r)
    BY DEF VersionsInv
  <2>2. CASE requests[r].pc = "new"
    BY <1>1, <1>4, <2>1, <2>2 DEF RequestOK, At
  <2>3. CASE requests[r].pc # "new"
    BY <1>4, <2>3 DEF RequestOK, At, Done, Fresh
  <2> QED
    BY <2>2, <2>3
<1> QED
  BY <1>5, <1>6, <1>7 DEF VersionsInv

(* What a step may do to the history and the row, beside the invariant. *)
Kept ==
    /\ versions \subseteq versions'
    /\ row.deleted => row'.deleted
    /\ row'.version >= row.version

LEMMA StepVersions ==
    ASSUME VersionsInv, [Next]_vars
    PROVE  VersionsInv' /\ Kept
<1>n. row.version \in Nat
  BY DEF VersionsInv, TypeOK, Rows
<1>s. /\ runs \subseteq Nat /\ mishaps \in 0 .. MaxMishaps
      /\ requests \in [Requests -> RequestStates]
  BY DEF VersionsInv, TypeOK
<1>k. UNCHANGED <<row, versions>> => Kept
  BY <1>n DEF Kept
<1>1. ASSUME NEW r \in Requests, ArriveUpload(r) \/ Arrive(r) PROVE VersionsInv' /\ Kept
  BY <1>1, <1>k, ArriveStep DEF ArriveUpload, Arrive
<1>2. ASSUME NEW r \in Requests, ReadHighest(r) \/ Store(r) \/ Refresh(r)
      PROVE  VersionsInv' /\ Kept
  BY <1>2, <1>k, QuietStep DEF ReadHighest, Store, Refresh
<1>3. ASSUME NEW r \in Requests, Commit(r) PROVE VersionsInv' /\ Kept
  <2>1. VersionsInv' /\ row'.version = row.version + 1 /\ row'.deleted = row.deleted
    BY <1>3, CommitStep
  <2>2. versions \subseteq versions'
    BY <1>3 DEF Commit
  <2> QED
    BY <1>n, <2>1, <2>2 DEF Kept
<1>4. ASSUME NEW r \in Requests, CommitEdit(r) \/ CommitDelete(r) PROVE VersionsInv' /\ Kept
  <2>1. versions' = versions
    BY <1>4 DEF CommitEdit, CommitDelete
  <2> QED
    BY <1>n, <1>4, <2>1, DetailsStep DEF Kept
<1>5. ASSUME NEW r \in Requests, Conflict(r) \/ Open(r) \/ Answer(r) PROVE VersionsInv' /\ Kept
  BY <1>5, <1>k, <1>s, EndStep DEF Conflict, Open, Answer
<1>6. ASSUME NEW r \in Requests, Schedule(r) PROVE VersionsInv' /\ Kept
  <2>1. requests[r].copy.version \in Nat
    BY <1>s DEF RequestStates, Rows
  <2>2. runs' \subseteq Nat
    BY <1>6, <1>s, <2>1 DEF Schedule
  <2> QED
    BY <1>6, <1>k, <1>s, <2>2, EndStep DEF Schedule
<1>7. ASSUME NEW r \in Requests, Fail(r) \/ Swallow(r) PROVE VersionsInv' /\ Kept
  <2>1. mishaps' \in 0 .. MaxMishaps
    BY <1>7, <1>s, VersionConstants DEF Fail, Swallow, Mishap
  <2> QED
    BY <1>7, <1>k, <1>s, <2>1, EndStep DEF Fail, Swallow
<1>8. CASE Crash
  BY <1>8, <1>k, CrashStep DEF Crash
<1>9. CASE UNCHANGED vars
  <2>1. VersionsInv'
    BY <1>9 DEF VersionsInv, vars, TypeOK, HistoryIsNumbered, VersionsAreStored,
                RowIsNewest, RequestOK, At
  <2> QED
    BY <1>9, <1>k, <2>1 DEF vars
<1> QED
  BY <1>1, <1>2, <1>3, <1>4, <1>5, <1>6, <1>7, <1>8, <1>9 DEF Next, Step

-----------------------------------------------------------------------------
(* The variables keep their types, and every request knows what RequestOK  *)
(* says it does.                                                           *)
THEOREM VersionsInvariant == Spec => []VersionsInv
<1>1. VersionsInv /\ [Next]_vars => VersionsInv'
  BY StepVersions
<1> QED
  BY <1>1, InitVersions, PTL DEF Spec

(* However many replacements read the same highest version, the committed  *)
(* versions are numbered without a gap or a repetition, and each is its    *)
(* own file (_persist and the unique constraint of document_versions).     *)
THEOREM VersionsAreNumbered == Spec => []HistoryIsNumbered
<1>1. VersionsInv => HistoryIsNumbered
  BY DEF VersionsInv
<1> QED
  BY <1>1, VersionsInvariant, PTL

(* The file of every committed version stays in the object store: deleted  *)
(* documents, failed commits and crashes included (_store, delete_document).*)
THEOREM VersionsCanBeOpened == Spec => []VersionsAreStored
<1>1. VersionsInv => VersionsAreStored
  BY DEF VersionsInv
<1> QED
  BY <1>1, VersionsInvariant, PTL

(* The row names the file of the newest version, and its name unless a     *)
(* replacement overwrote a name it had not read (the mirroring columns).   *)
THEOREM RowFollowsHistory == Spec => []RowIsNewest
<1>1. VersionsInv => RowIsNewest
  BY DEF VersionsInv
<1> QED
  BY <1>1, VersionsInvariant, PTL

(* No step takes a version away, brings a deleted document back or turns   *)
(* the row to an older version, whatever copy it worked on.                *)
THEOREM HistoryOnlyGrows == Spec => HistoryIsKept
<1>1. VersionsInv /\ [Next]_vars
         => [ /\ versions \subseteq versions'
              /\ row.deleted => row'.deleted
              /\ row'.version >= row.version ]_vars
  BY StepVersions DEF Kept
<1> QED
  BY <1>1, VersionsInvariant, PTL DEF Spec, HistoryIsKept

=============================================================================

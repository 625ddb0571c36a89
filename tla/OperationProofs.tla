--------------------------- MODULE OperationProofs ---------------------------
(***************************************************************************)
(* Proofs about what MCOperation puts side by side: saved settings,        *)
(* accounts and their snapshots, the trading calendar and the dashboard's  *)
(* access, for any names, requests, accounts, venues and weeks.  What      *)
(* proofs about WebSessions show is taken from WebSessionsProofs.          *)
(***************************************************************************)
EXTENDS MCOperation, SumsProofs

\* A set whose elements are all values of a function has no more of them than arguments.
LEMMA ImageBound ==
  ASSUME NEW S, IsFiniteSet(S), NEW f, DOMAIN f = S, f = [x \in S |-> f[x]],
         NEW T, \A y \in T : \E x \in S : y = f[x], \A x \in S : f[x] \in T
  PROVE  IsFiniteSet(T) /\ Cardinality(T) \in Nat /\ Cardinality(T) <= Cardinality(S)
<1>1. f \in Surjection(S, T)
  <2>1. f \in [S -> T]
    OBVIOUS
  <2> QED
    BY <2>1 DEF Surjection
<1>2. IsFiniteSet(T) /\ Cardinality(T) <= Cardinality(S)
  BY <1>1, FS_Surjection
<1> QED
  BY <1>2, FS_CardinalityType

-----------------------------------------------------------------------------
(* Settings. *)

LEMMA SavedSizes ==
  ASSUME NEW S
  PROVE  (Saved!IsFiniteSet(S) <=> IsFiniteSet(S)) /\ Saved!Cardinality(S) = Cardinality(S)
  BY Zenon DEF Saved!Cardinality, Cardinality, Saved!IsFiniteSet, IsFiniteSet

Active(s) == pc[s] \in {"next", "open", "written"}
Writing(s) == pc[s] \in {"open", "written"}
Nodes == Saved!Inodes
Values == {Saved!Blank, Saved!Short, Saved!Long, Saved!Unfit}
Chunks == Seq(Nat)

SavedTypes ==
  /\ content \in [Nodes -> Chunks]
  /\ file \in [Names -> Nodes \cup {0}] /\ tmp \in [Names -> Nodes \cup {0}]
  /\ fd \in [Savers -> Nodes \cup {0}]
  /\ pc \in [Savers -> {"idle", "next", "open", "written", "done"}]
  /\ body = [s \in Savers |-> body[s]] /\ name = [s \in Savers |-> name[s]]
  /\ todo \in [Savers -> SUBSET Names]
  /\ sent \in [Names -> SUBSET Values]

\* What a request has left to save was accepted, and is nobody else's to save now.
Planned ==
  /\ \A s \in Savers, n \in Names : Active(s) /\ n \in todo[s] => body[s][n] \in sent[n]
  /\ \A r, s \in Savers : Active(r) /\ Active(s) /\ r # s => todo[r] \cap todo[s] = {}

\* A request that writes has its name's temporary file open, empty or written.
InHand ==
  \A s \in Savers :
    /\ Writing(s) =>
         /\ name[s] \in todo[s] /\ body[s][name[s]] # Saved!Blank
         /\ fd[s] # 0 /\ fd[s] = tmp[name[s]]
         /\ content[fd[s]] = IF pc[s] = "open" THEN Saved!Blank ELSE body[s][name[s]]
    /\ ~ Writing(s) => fd[s] = 0

\* No two names mean one inode, nor a file and a temporary one.
OwnNodes ==
  \A n, m \in Names :
    /\ file[n] # 0 => file[n] # tmp[m]
    /\ n # m => /\ file[n] # 0 => file[n] # file[m]
                /\ tmp[n] # 0 => tmp[n] # tmp[m]

Stored == \A n \in Names : file[n] # 0 => content[file[n]] \in sent[n] \ {Saved!Blank}

SavedInv == SavedTypes /\ Planned /\ InHand /\ OwnNodes /\ Stored

LEMMA SavedValues ==
  /\ Values \subseteq Chunks /\ Saved!Blank \in Values
  /\ \A v \in Values : Saved!Over(v, Saved!Blank) = v
<1>1. Saved!Blank = <<>> /\ Values \subseteq Seq(Nat) /\ Saved!Blank \in Values
  BY DEF Values, Saved!Blank, Saved!Short, Saved!Long, Saved!Unfit
<1>2. ASSUME NEW v \in Seq(Nat) PROVE v \o SubSeq(<<>>, Len(v) + 1, Len(<<>>)) = v
  OBVIOUS
<1> QED
  BY <1>1, <1>2 DEF Chunks, Saved!Over

\* There is an unused inode whenever a temporary file is made.
LEMMA FreshInode ==
  ASSUME SavedInv, NEW s \in Savers, NEW n \in Names, pc[s] = "next", n \in todo[s], tmp[n] = 0
  PROVE  \E i \in Nodes : /\ Saved!Fresh = {i}
                          /\ \A m \in Names : i # file[m] /\ i # tmp[m]
                          /\ \A r \in Savers : i # fd[r]
<1> DEFINE kept == {file[m] : m \in Names}
           Rest == Names \ {n}
           other == [m \in Rest |-> tmp[m]]
           made2 == {other[m] : m \in Rest}
<1>1. /\ IsFiniteSet(Names) /\ IsFiniteSet(Savers)
      /\ Cardinality(Names) \in Nat /\ Cardinality(Savers) \in Nat
  <2>1. IsFiniteSet(Names) /\ IsFiniteSet(Savers)
    BY SavedAssumed, SavedSizes DEF Saved!SettingsAssumption
  <2>2. Cardinality(Names) \in Nat
    BY <2>1, FS_CardinalityType
  <2>3. Cardinality(Savers) \in Nat
    BY <2>1, FS_CardinalityType
  <2> QED
    BY <2>1, <2>2, <2>3
<1>2. /\ IsFiniteSet(Rest) /\ Cardinality(Rest) = Cardinality(Names) - 1
  BY <1>1, FS_RemoveElement
<1>3. Cardinality(Savers) # 0 /\ Cardinality(Names) # 0
  BY <1>1, FS_EmptySet
<1>4. /\ IsFiniteSet(kept) /\ Cardinality(kept) \in Nat /\ Cardinality(kept) <= Cardinality(Names)
  <2>1. DOMAIN file = Names /\ file = [m \in Names |-> file[m]]
    BY DEF SavedInv, SavedTypes
  <2>2. (\A y \in kept : \E m \in Names : y = file[m]) /\ \A m \in Names : file[m] \in kept
    OBVIOUS
  <2> HIDE DEF kept
  <2> QED
    BY <1>1, <2>1, <2>2, ImageBound
<1>5. /\ IsFiniteSet(made2) /\ Cardinality(made2) \in Nat /\ Cardinality(made2) <= Cardinality(Rest)
  <2>1. DOMAIN other = Rest /\ other = [m \in Rest |-> other[m]]
    BY DEF SavedInv, SavedTypes
  <2>2. (\A y \in made2 : \E m \in Rest : y = other[m]) /\ \A m \in Rest : other[m] \in made2
    OBVIOUS
  <2> HIDE DEF made2, other, Rest
  <2> QED
    BY <1>2, <2>1, <2>2, ImageBound
<1>6. IsFiniteSet(kept \cup made2) /\ Cardinality(kept \cup made2) <= 2 * Cardinality(Names) - 1
  <2>1. IsFiniteSet(kept \cap made2) /\ Cardinality(kept \cap made2) \in Nat
    BY <1>4, FS_Intersection, FS_CardinalityType
  <2> HIDE DEF kept, made2, Rest
  <2>2. /\ IsFiniteSet(kept \cup made2)
        /\ Cardinality(kept \cup made2) = Cardinality(kept) + Cardinality(made2) - Cardinality(kept \cap made2)
    BY <1>4, <1>5, FS_Union
  <2> QED
    BY <1>1, <1>2, <1>4, <1>5, <2>1, <2>2
<1>7. Cardinality(Nodes) >= 2 * Cardinality(Names)
  <2>1. PICK k \in Nat, c \in Nat : Cardinality(Savers) = k + 1 /\ Cardinality(Names) = c
    <3>1. Cardinality(Savers) - 1 \in Nat
      BY <1>1, <1>3
    <3> QED
      BY <1>1, <3>1
  <2>2. c * (k + 1 + 1) = c * k + 2 * c /\ c * k \in Nat
    BY <2>1
  <2>3. Nodes = 1 .. c * (k + 1 + 1)
    <3>1. Nodes = 1 .. Cardinality(Names) * (Cardinality(Savers) + 1)
      BY SavedSizes DEF Nodes, Saved!Inodes
    <3> QED
      BY <2>1, <3>1
  <2>4. Cardinality(1 .. c * (k + 1 + 1)) = IF 1 > c * (k + 1 + 1) THEN 0 ELSE c * (k + 1 + 1) - 1 + 1
    <3>1. c * (k + 1 + 1) \in Int
      BY <2>2
    <3> QED
      BY <3>1, FS_Interval
  <2> QED
    BY <1>3, <2>1, <2>2, <2>3, <2>4
<1>8. Saved!Unused # {}
  <2> SUFFICES ASSUME Saved!Unused = {} PROVE FALSE
    OBVIOUS
  <2>1. ASSUME NEW i \in Nodes PROVE i \in kept \cup made2
    <3>1. i # 0
      BY DEF Nodes, Saved!Inodes
    <3>2. PICK m \in Names, r \in Savers : i \in {file[m], tmp[m], fd[r]}
      BY DEF Saved!Unused, Nodes
    <3>3. CASE i = fd[r]
      <4>1. i = tmp[name[r]] /\ name[r] \in Names
        BY <3>1, <3>3 DEF SavedInv, InHand, SavedTypes
      <4> QED
        BY <3>1, <4>1
    <3> QED
      BY <3>1, <3>2, <3>3
  <2>2. Cardinality(Nodes) <= Cardinality(kept \cup made2)
    <3> HIDE DEF kept, made2
    <3>1. Nodes \in SUBSET (kept \cup made2)
      BY <2>1
    <3> QED
      BY <1>6, <3>1, FS_Subset
  <2>3. Cardinality(Nodes) \in Nat /\ Cardinality(kept \cup made2) \in Nat
    <3> HIDE DEF kept, made2
    <3>1. Nodes \in SUBSET (kept \cup made2)
      BY <2>1
    <3> QED
      BY <1>6, <3>1, FS_Subset, FS_CardinalityType
  <2> HIDE DEF kept, made2
  <2> QED
    BY <1>1, <1>6, <1>7, <2>2, <2>3
<1>9. PICK i : Saved!Fresh = {i} /\ i \in Saved!Unused
  BY <1>8 DEF Saved!Fresh
<1>10. i \in Nodes
  BY <1>9 DEF Saved!Unused, Nodes
<1> QED
  BY <1>9, <1>10 DEF Saved!Unused

LEMMA BodyValues ==
  ASSUME NEW b \in Saved!Bodies
  PROVE  DOMAIN b \subseteq Names /\ \A n \in DOMAIN b : b[n] \in Values
  BY DEF Saved!Bodies, Values

\* Removing a setting's file takes its name off what is left to save.
LEMMA RemovesKeeps ==
  ASSUME SavedInv, NEW s \in Savers, NEW n \in Names, Saved!Removes(s, n)
  PROVE  SavedInv'
<1>1. SavedTypes'
  BY DEF SavedInv, SavedTypes, Saved!Removes, Nodes, Saved!Inodes
<1>2. Planned'
  BY DEF SavedInv, SavedTypes, Planned, Active, Saved!Removes, Saved!Saves
<1>3. InHand'
  BY DEF SavedInv, SavedTypes, InHand, Writing, Saved!Removes, Saved!Saves
<1>4. OwnNodes'
  BY DEF SavedInv, SavedTypes, OwnNodes, Saved!Removes
<1>5. Stored'
  BY DEF SavedInv, SavedTypes, Stored, Saved!Removes
<1> QED
  BY <1>1, <1>2, <1>3, <1>4, <1>5 DEF SavedInv

\* The inode a temporary file is made of, or truncated, is the request's alone.
LEMMA OpensKeeps ==
  ASSUME SavedInv, NEW s \in Savers, NEW n \in Names, Saved!Opens(s, n)
  PROVE  SavedInv'
<1>1. pc[s] = "next" /\ n \in todo[s] /\ body[s][n] # Saved!Blank /\ fd[s] = 0
  BY DEF SavedInv, InHand, Writing, Saved!Opens, Saved!Saves
<1>2. PICK i \in Nodes \ {0} :
        /\ Saved!Opened(s, n, i) /\ tmp' = [tmp EXCEPT ![n] = i] /\ file' = file
        /\ \A m \in Names : i # file[m] /\ (m # n => i # tmp[m])
        /\ \A r \in Savers : i # fd[r]
  <2>0. 0 \notin Nodes
    BY DEF Nodes, Saved!Inodes
  <2>1. CASE tmp[n] = 0
    <3>1. PICK i \in Nodes : /\ Saved!Fresh = {i}
                             /\ \A m \in Names : i # file[m] /\ i # tmp[m]
                             /\ \A r \in Savers : i # fd[r]
      BY <1>1, <2>1, FreshInode
    <3> QED
      BY <2>0, <2>1, <3>1 DEF Saved!Opens
  <2>2. CASE tmp[n] # 0
    <3>1. tmp[n] \in Nodes \ {0}
      BY <2>0, <2>2 DEF SavedInv, SavedTypes
    <3>2. ASSUME NEW r \in Savers PROVE tmp[n] # fd[r]
      <4>1. CASE Writing(r)
        <5>1. r # s /\ Active(r) /\ Active(s) /\ name[r] \in todo[r] /\ fd[r] = tmp[name[r]] /\ fd[r] # 0
          BY <1>1, <4>1 DEF SavedInv, InHand, Writing, Active
        <5>2. name[r] # n /\ name[r] \in Names
          BY <1>1, <5>1 DEF SavedInv, Planned, SavedTypes
        <5> QED
          BY <5>1, <5>2 DEF SavedInv, OwnNodes
      <4> QED
        BY <2>2, <4>1 DEF SavedInv, InHand
    <3>3. ASSUME NEW m \in Names PROVE tmp[n] # file[m] /\ (m # n => tmp[n] # tmp[m])
      BY <2>2 DEF SavedInv, OwnNodes
    <3> QED
      BY <2>2, <3>1, <3>2, <3>3 DEF Saved!Opens
  <2> QED
    BY <2>1, <2>2
<1>3. /\ content' = [content EXCEPT ![i] = Saved!Blank]
      /\ fd' = [fd EXCEPT ![s] = i] /\ name' = [name EXCEPT ![s] = n] /\ pc' = [pc EXCEPT ![s] = "open"]
      /\ body' = body /\ todo' = todo /\ sent' = sent
  BY <1>2 DEF Saved!Opened
<1>4. SavedTypes'
  <2>1. Saved!Blank \in Chunks
    BY SavedValues
  <2> HIDE DEF Nodes, Chunks
  <2> QED
    BY <1>2, <1>3, <2>1 DEF SavedInv, SavedTypes
<1>5. Planned'
  BY <1>1, <1>3 DEF SavedInv, SavedTypes, Planned, Active
<1>6. InHand'
  <2> SUFFICES ASSUME NEW r \in Savers
      PROVE  /\ Writing(r)' =>
                  /\ name'[r] \in todo'[r] /\ body'[r][name'[r]] # Saved!Blank
                  /\ fd'[r] # 0 /\ fd'[r] = tmp'[name'[r]]
                  /\ content'[fd'[r]] = IF pc'[r] = "open" THEN Saved!Blank ELSE body'[r][name'[r]]
             /\ ~ Writing(r)' => fd'[r] = 0
    BY DEF InHand, Saved!Blank
  <2>1. CASE r = s
    BY <1>1, <1>2, <1>3, <2>1 DEF SavedInv, SavedTypes, Writing
  <2>2. CASE r # s
    <3>1. pc'[r] = pc[r] /\ fd'[r] = fd[r] /\ name'[r] = name[r] /\ (Writing(r)' <=> Writing(r))
      BY <1>3, <2>2 DEF SavedInv, SavedTypes, Writing
    <3>2. CASE Writing(r)
      <4>1. /\ name[r] \in todo[r] /\ body[r][name[r]] # Saved!Blank
            /\ fd[r] # 0 /\ fd[r] = tmp[name[r]] /\ fd[r] # i /\ fd[r] \in Nodes /\ name[r] \in Names
            /\ content[fd[r]] = IF pc[r] = "open" THEN Saved!Blank ELSE body[r][name[r]]
        BY <1>2, <3>2 DEF SavedInv, SavedTypes, InHand
      <4>2. name[r] # n
        BY <1>1, <2>2, <3>2, <4>1 DEF SavedInv, Planned, Active, Writing
      <4>3. content'[fd[r]] = content[fd[r]] /\ tmp'[name[r]] = tmp[name[r]]
        BY <1>2, <1>3, <4>1, <4>2 DEF SavedInv, SavedTypes
      <4> QED
        BY <1>3, <3>1, <3>2, <4>1, <4>3
    <3> QED
      BY <3>1, <3>2 DEF SavedInv, InHand
  <2> QED
    BY <2>1, <2>2
<1>7. OwnNodes'
  BY <1>2 DEF SavedInv, SavedTypes, OwnNodes
<1>8. Stored'
  BY <1>2, <1>3 DEF SavedInv, SavedTypes, Stored
<1> QED
  BY <1>4, <1>5, <1>6, <1>7, <1>8 DEF SavedInv

\* Over an empty file the value is what was sent.
LEMMA WritesKeeps ==
  ASSUME SavedInv, NEW s \in Savers, Saved!Writes(s)
  PROVE  SavedInv'
<1>1. /\ pc[s] = "open" /\ pc' = [pc EXCEPT ![s] = "written"]
      /\ content' = [content EXCEPT ![fd[s]] = Saved!Over(body[s][name[s]], content[fd[s]])]
      /\ file' = file /\ tmp' = tmp /\ body' = body /\ todo' = todo /\ name' = name /\ fd' = fd /\ sent' = sent
  BY DEF Saved!Writes
<1>2. /\ name[s] \in todo[s] /\ body[s][name[s]] # Saved!Blank /\ name[s] \in Names
      /\ fd[s] # 0 /\ fd[s] = tmp[name[s]] /\ content[fd[s]] = Saved!Blank /\ fd[s] \in Nodes
  BY <1>1 DEF SavedInv, SavedTypes, InHand, Writing
<1>3. /\ body[s][name[s]] \in Values /\ body[s][name[s]] \in Chunks
      /\ Saved!Over(body[s][name[s]], content[fd[s]]) = body[s][name[s]]
  <2>1. body[s][name[s]] \in Values
    BY <1>1, <1>2 DEF SavedInv, SavedTypes, Planned, Active
  <2> QED
    BY <1>2, <2>1, SavedValues
<1>4. content' = [content EXCEPT ![fd[s]] = body[s][name[s]]]
  BY <1>1, <1>3
<1>5. SavedTypes'
  <2> HIDE DEF Nodes, Chunks
  <2> QED
    BY <1>1, <1>3, <1>4 DEF SavedInv, SavedTypes
<1>6. Planned'
  BY <1>1 DEF SavedInv, SavedTypes, Planned, Active
<1>7. InHand'
  <2> SUFFICES ASSUME NEW r \in Savers
      PROVE  /\ Writing(r)' =>
                  /\ name[r] \in todo[r] /\ body[r][name[r]] # Saved!Blank
                  /\ fd[r] # 0 /\ fd[r] = tmp[name[r]]
                  /\ content'[fd[r]] = IF pc'[r] = "open" THEN Saved!Blank ELSE body[r][name[r]]
             /\ ~ Writing(r)' => fd[r] = 0
    BY <1>1 DEF InHand, Saved!Blank
  <2>1. CASE r = s
    BY <1>1, <1>2, <1>4, <2>1 DEF SavedInv, SavedTypes, Writing
  <2>2. CASE r # s
    <3>1. pc'[r] = pc[r] /\ (Writing(r)' <=> Writing(r))
      BY <1>1, <2>2 DEF SavedInv, SavedTypes, Writing
    <3>2. CASE Writing(r)
      <4>1. /\ name[r] \in todo[r] /\ body[r][name[r]] # Saved!Blank
            /\ fd[r] # 0 /\ fd[r] = tmp[name[r]] /\ fd[r] \in Nodes /\ name[r] \in Names
            /\ content[fd[r]] = IF pc[r] = "open" THEN Saved!Blank ELSE body[r][name[r]]
        BY <3>2 DEF SavedInv, SavedTypes, InHand
      <4>2. name[r] # name[s]
        BY <1>1, <1>2, <2>2, <3>2, <4>1 DEF SavedInv, Planned, Active, Writing
      <4>3. fd[r] # fd[s]
        BY <1>2, <4>1, <4>2 DEF SavedInv, OwnNodes
      <4>4. content'[fd[r]] = content[fd[r]]
        BY <1>4, <4>1, <4>3 DEF SavedInv, SavedTypes
      <4> QED
        BY <3>1, <3>2, <4>1, <4>4
    <3> QED
      BY <3>1, <3>2 DEF SavedInv, InHand
  <2> QED
    BY <2>1, <2>2
<1>8. OwnNodes'
  BY <1>1 DEF SavedInv, SavedTypes, OwnNodes
<1>9. Stored'
  <2>1. \A n \in Names : file[n] # 0 => file[n] # fd[s]
    BY <1>2 DEF SavedInv, OwnNodes
  <2> QED
    BY <1>1, <1>4, <2>1 DEF SavedInv, SavedTypes, Stored
<1> QED
  BY <1>5, <1>6, <1>7, <1>8, <1>9 DEF SavedInv

\* The whole value takes the place of the old one.
LEMMA RenamesKeeps ==
  ASSUME SavedInv, NEW s \in Savers, Saved!Renames(s)
  PROVE  SavedInv'
<1> DEFINE n == name[s]
<1>1. /\ pc[s] = "written" /\ tmp[n] # 0
      /\ file' = [file EXCEPT ![n] = tmp[n]] /\ tmp' = [tmp EXCEPT ![n] = 0]
      /\ todo' = [todo EXCEPT ![s] = todo[s] \ {n}]
      /\ pc' = [pc EXCEPT ![s] = "next"] /\ fd' = [fd EXCEPT ![s] = 0]
      /\ content' = content /\ body' = body /\ name' = name /\ sent' = sent
  BY DEF Saved!Renames
<1>2. /\ n \in todo[s] /\ body[s][n] # Saved!Blank /\ n \in Names
      /\ fd[s] = tmp[n] /\ content[tmp[n]] = body[s][n] /\ body[s][n] \in sent[n]
  BY <1>1 DEF SavedInv, SavedTypes, InHand, Writing, Planned, Active
<1> HIDE DEF n
<1>3. SavedTypes'
  BY <1>1, <1>2 DEF SavedInv, SavedTypes, Nodes, Saved!Inodes
<1>4. Planned'
  BY <1>1 DEF SavedInv, SavedTypes, Planned, Active
<1>5. InHand'
  <2> SUFFICES ASSUME NEW r \in Savers
      PROVE  /\ Writing(r)' =>
                  /\ name[r] \in todo'[r] /\ body[r][name[r]] # Saved!Blank
                  /\ fd'[r] # 0 /\ fd'[r] = tmp'[name[r]]
                  /\ content[fd'[r]] = IF pc'[r] = "open" THEN Saved!Blank ELSE body[r][name[r]]
             /\ ~ Writing(r)' => fd'[r] = 0
    BY <1>1 DEF InHand, Saved!Blank
  <2>1. CASE r = s
    BY <1>1, <2>1 DEF SavedInv, SavedTypes, Writing
  <2>2. CASE r # s
    <3>1. pc'[r] = pc[r] /\ fd'[r] = fd[r] /\ todo'[r] = todo[r] /\ (Writing(r)' <=> Writing(r))
      BY <1>1, <2>2 DEF SavedInv, SavedTypes, Writing
    <3>2. CASE Writing(r)
      <4>1. /\ name[r] \in todo[r] /\ body[r][name[r]] # Saved!Blank
            /\ fd[r] # 0 /\ fd[r] = tmp[name[r]] /\ name[r] \in Names
            /\ content[fd[r]] = IF pc[r] = "open" THEN Saved!Blank ELSE body[r][name[r]]
        BY <3>2 DEF SavedInv, SavedTypes, InHand
      <4>2. name[r] # n
        BY <1>1, <1>2, <2>2, <3>2, <4>1 DEF SavedInv, Planned, Active, Writing
      <4>3. tmp'[name[r]] = tmp[name[r]]
        BY <1>1, <4>1, <4>2 DEF SavedInv, SavedTypes
      <4> QED
        BY <3>1, <3>2, <4>1, <4>3
    <3> QED
      BY <3>1, <3>2 DEF SavedInv, InHand
  <2> QED
    BY <2>1, <2>2
<1>6. OwnNodes'
  BY <1>1, <1>2 DEF SavedInv, SavedTypes, OwnNodes
<1>7. Stored'
  BY <1>1, <1>2 DEF SavedInv, SavedTypes, Stored
<1> QED
  BY <1>3, <1>4, <1>5, <1>6, <1>7 DEF SavedInv

\* A request that ends, with or without what it was to do, leaves the files.
LEMMA EndsKeeps ==
  ASSUME SavedInv, NEW s \in Savers, Saved!Ends(s), UNCHANGED <<content, file, tmp, body, todo, name, sent>>
  PROVE  SavedInv'
<1>1. pc' = [pc EXCEPT ![s] = "done"] /\ fd' = [fd EXCEPT ![s] = 0]
  BY DEF Saved!Ends
<1>2. SavedTypes'
  BY <1>1 DEF SavedInv, SavedTypes, Nodes, Saved!Inodes
<1>3. Planned'
  BY <1>1 DEF SavedInv, SavedTypes, Planned, Active
<1>4. InHand'
  BY <1>1 DEF SavedInv, SavedTypes, InHand, Writing, Saved!Blank
<1>5. OwnNodes' /\ Stored'
  BY DEF SavedInv, OwnNodes, Stored, Saved!Blank
<1> QED
  BY <1>2, <1>3, <1>4, <1>5 DEF SavedInv

\* No two requests save the same name at once.
LEMMA RequestKeeps ==
  ASSUME SavedInv, NEW s \in Savers, NEW b \in Saved!Bodies, Saved!Request(s, b)
  PROVE  SavedInv'
<1>1. /\ pc[s] = "idle" /\ body' = [body EXCEPT ![s] = b]
      /\ \A r \in Savers : DOMAIN b \cap todo[r] = {} \/ pc[r] \in {"idle", "done"}
      /\ content' = content /\ file' = file /\ tmp' = tmp /\ name' = name /\ fd' = fd
  BY DEF Saved!Request, Saved!files
<1>2. \/ /\ pc' = [pc EXCEPT ![s] = "next"] /\ todo' = [todo EXCEPT ![s] = DOMAIN b]
         /\ sent' = [n \in Names |-> IF n \in DOMAIN b THEN sent[n] \cup {b[n]} ELSE sent[n]]
      \/ pc' = [pc EXCEPT ![s] = "done"] /\ todo' = todo /\ sent' = sent
  BY DEF Saved!Request
<1>3. DOMAIN b \subseteq Names /\ \A n \in DOMAIN b : b[n] \in Values
  BY BodyValues
<1>4. sent' \in [Names -> SUBSET Values] /\ \A n \in Names : sent[n] \subseteq sent'[n]
  BY <1>2, <1>3 DEF SavedInv, SavedTypes
<1>5. SavedTypes'
  <2>1. SavedTypes
    BY DEF SavedInv
  <2>2. /\ pc' \in [Savers -> {"idle", "next", "open", "written", "done"}]
        /\ body' = [r \in Savers |-> body'[r]]
    BY <1>1, <1>2, <2>1 DEF SavedTypes
  <2>3. todo' \in [Savers -> SUBSET Names]
    BY <1>2, <1>3, <2>1 DEF SavedTypes
  <2> QED
    BY <1>1, <1>4, <2>1, <2>2, <2>3 DEF SavedTypes, Nodes, Saved!Inodes
<1>6. Planned'
  <2>1. ASSUME NEW r \in Savers, NEW n \in Names, Active(r)', n \in todo'[r] PROVE body'[r][n] \in sent'[n]
    BY <1>1, <1>2, <1>3, <1>4, <2>1 DEF SavedInv, SavedTypes, Planned, Active
  <2>2. ASSUME NEW q \in Savers, NEW r \in Savers, Active(q)', Active(r)', q # r PROVE todo'[q] \cap todo'[r] = {}
    BY <1>1, <1>2, <2>2 DEF SavedInv, SavedTypes, Planned, Active
  <2> QED
    BY <2>1, <2>2 DEF Planned
<1>7. InHand'
  BY <1>1, <1>2 DEF SavedInv, SavedTypes, InHand, Writing, Saved!Blank
<1>8. OwnNodes' /\ Stored'
  BY <1>1, <1>4 DEF SavedInv, SavedTypes, OwnNodes, Stored, Saved!Blank
<1> QED
  BY <1>5, <1>6, <1>7, <1>8 DEF SavedInv

\* The end of the process ends its requests.
LEMMA ExitsKeeps ==
  ASSUME SavedInv, Saved!Exits
  PROVE  SavedInv'
<1>1. /\ pc' = [s \in Savers |-> IF pc[s] = "idle" THEN "idle" ELSE "done"] /\ fd' = [s \in Savers |-> 0]
      /\ content' = content /\ file' = file /\ tmp' = tmp
      /\ body' = body /\ todo' = todo /\ name' = name /\ sent' = sent
  BY DEF Saved!Exits, Saved!files
<1>2. SavedTypes'
  BY <1>1 DEF SavedInv, SavedTypes, Nodes, Saved!Inodes
<1>3. Planned'
  BY <1>1 DEF SavedInv, SavedTypes, Planned, Active
<1>4. InHand'
  BY <1>1 DEF SavedInv, SavedTypes, InHand, Writing, Saved!Blank
<1>5. OwnNodes' /\ Stored'
  BY <1>1 DEF SavedInv, OwnNodes, Stored, Saved!Blank
<1> QED
  BY <1>2, <1>3, <1>4, <1>5 DEF SavedInv

LEMMA SavedSame ==
  ASSUME SavedInv, UNCHANGED <<content, file, tmp, pc, body, todo, name, fd, sent>>
  PROVE  SavedInv'
BY DEF SavedInv, SavedTypes, Planned, Active, InHand, Writing, OwnNodes, Stored, Nodes, Saved!Inodes, Saved!Blank

LEMMA SavedStep ==
  ASSUME SavedInv, Saved!Next
  PROVE  SavedInv'
<1>1. ASSUME NEW s \in Savers, NEW n \in Names, Saved!Removes(s, n) \/ Saved!Opens(s, n) PROVE SavedInv'
  BY <1>1, RemovesKeeps, OpensKeeps
<1>2. ASSUME NEW s \in Savers, Saved!Writes(s) \/ Saved!Renames(s) PROVE SavedInv'
  BY <1>2, WritesKeeps, RenamesKeeps
<1>3. ASSUME NEW s \in Savers, Saved!Fails(s) \/ Saved!Notifies(s) PROVE SavedInv'
  <2>1. Saved!Ends(s) /\ UNCHANGED <<content, file, tmp, body, todo, name, sent>>
    BY <1>3 DEF Saved!Fails, Saved!Notifies, Saved!files
  <2> QED
    BY <2>1, EndsKeeps
<1>4. ASSUME NEW s \in Savers, NEW b \in Saved!Bodies, Saved!Request(s, b) PROVE SavedInv'
  BY <1>4, RequestKeeps
<1>5. CASE Saved!Restarts \/ Saved!Crashes
  BY <1>5, ExitsKeeps DEF Saved!Restarts, Saved!Crashes
<1>6. CASE Saved!Starts
  BY <1>6, SavedSame DEF Saved!Starts, Saved!files, Saved!requests
<1> QED
  BY <1>1, <1>2, <1>3, <1>4, <1>5, <1>6 DEF Saved!Next

LEMMA SavedStart ==
  ASSUME Saved!Init
  PROVE  SavedInv
<1>1. Saved!Blank \in Chunks
  BY SavedValues
<1>2. SavedTypes
  <2> HIDE DEF Chunks
  <2> QED
    BY <1>1 DEF Saved!Init, SavedTypes, Nodes
<1>3. Planned /\ InHand /\ OwnNodes /\ Stored
  BY DEF Saved!Init, Planned, Active, InHand, Writing, OwnNodes, Stored
<1> QED
  BY <1>2, <1>3 DEF SavedInv

LEMMA SavedShows ==
  ASSUME SavedInv
  PROVE  Saved!TypeOK /\ Saved!Whole
<1>1. Saved!TypeOK
  BY DEF SavedInv, SavedTypes, InHand, Writing, Saved!TypeOK, Nodes
<1>2. Saved!Whole
  BY DEF SavedInv, Stored, Saved!Whole, Saved!Contents
<1> QED
  BY <1>1, <1>2

\* Wherever the process crashes, a write fails or a restart ends a request: a setting's
\* file is the whole of one value that an accepted request sent, for any settings and
\* requests of which no two save the same setting at once.
THEOREM SettingsStayWhole == Spec => []SavedWhole
<1>1. Init => SavedInv
  BY SavedStart DEF Init
<1>2. SavedInv /\ [Next]_vars => SavedInv'
  <2> SUFFICES ASSUME SavedInv, [Next]_vars PROVE SavedInv'
    OBVIOUS
  <2>1. CASE SettingSteps
    BY <2>1, SavedStep DEF SettingSteps
  <2>2. CASE UNCHANGED settingVars
    BY <2>2, SavedSame DEF settingVars
  <2> QED
    BY <2>1, <2>2 DEF Next, LoginSteps, EnrolmentSteps, ExpirySteps, AccountSteps, CalendarSteps,
      ProfitSteps, ReportSteps, vars
<1>3. SavedInv => SavedWhole
  BY SavedShows DEF SavedWhole
<1> QED
  BY <1>1, <1>2, <1>3, PTL DEF Spec

-----------------------------------------------------------------------------
(* Accounts and their snapshots. *)

Gens == 0 .. MaxGeneration
Steps == {"idle", "insert", "restore", "bump", "reset", "list", "cache"}
Call == [at : Steps, id : Ids \cup {"none"}, generation : Gens, read : [Ids -> Gens]]
Rounds == [at : {"idle", "saving"}, left : SUBSET Ids, generations : [Ids -> Gens], time : 0 .. MaxTick,
           daily : BOOLEAN]

BookTypes ==
  /\ tick \in 0 .. MaxTick
  /\ store \in [Ids -> Gens] /\ broker \in [Ids -> Gens] /\ accounts \in [Ids -> Gens]
  /\ calls \in [Callers -> Call] /\ loop \in Rounds

\* What a request is about to tell broker or cache, the store has already.
Foretold ==
  \A t \in Callers :
    /\ calls[t].at \in {"insert", "restore", "bump", "reset"} => calls[t].id \in Ids
    /\ calls[t].at \in {"restore", "bump"} => store[calls[t].id] # 0
    /\ calls[t].at = "reset" => calls[t].generation # 0 /\ calls[t].generation <= store[calls[t].id]
    /\ calls[t].at = "cache" => \A i \in Ids : calls[t].read[i] <= store[i]

Behind == \A i \in Ids : broker[i] <= store[i] /\ accounts[i] <= store[i]

\* The loop goes through accounts the broker holds, and has still.
Surveyed == \A i \in loop.left : broker[i] # 0 /\ loop.generations[i] # 0

Kept ==
  \A k \in DOMAIN snapshots :
    /\ k.id \in Ids /\ k.kind \in Books!Kinds /\ k.at \in 0 .. MaxTick
    /\ k.generation \in Gens \ {0} /\ snapshots[k] \in Gens \ {0}

BooksInv == BookTypes /\ Foretold /\ Behind /\ Surveyed /\ Kept

LEMMA BookNumbers == MaxTick \in Nat /\ MaxGeneration \in Nat \ {0} /\ TicksPerDay \in Nat \ {0}
BY BooksAssumed DEF Books!AccountsAssumption

LEMMA NewCall ==
  /\ Books!IdleTask \in Call /\ Books!IdleTask.at = "idle"
  /\ \A i \in Ids, step \in Steps :
       /\ [Books!IdleTask EXCEPT !.at = step, !.id = i] \in Call
       /\ [Books!IdleTask EXCEPT !.at = step, !.id = i].at = step
       /\ [Books!IdleTask EXCEPT !.at = step, !.id = i].id = i
<1> DEFINE unread == [i \in Ids |-> 0]
<1>1. unread \in [Ids -> Gens] /\ 0 \in Gens /\ "idle" \in Steps
  BY BookNumbers DEF Gens, Steps
<1>2. Books!IdleTask = [at |-> "idle", id |-> "none", generation |-> 0, read |-> unread]
  BY DEF Books!IdleTask
<1> HIDE DEF unread
<1>3. Books!IdleTask \in Call /\ Books!IdleTask.at = "idle"
  BY <1>1, <1>2 DEF Call
<1>4. ASSUME NEW i \in Ids, NEW step \in Steps
      PROVE  [Books!IdleTask EXCEPT !.at = step, !.id = i]
               = [at |-> step, id |-> i, generation |-> 0, read |-> unread]
  <2>1. [[at |-> "idle", id |-> "none", generation |-> 0, read |-> unread] EXCEPT !.at = step]
          = [at |-> step, id |-> "none", generation |-> 0, read |-> unread]
    OBVIOUS
  <2>2. [[at |-> step, id |-> "none", generation |-> 0, read |-> unread] EXCEPT !.id = i]
          = [at |-> step, id |-> i, generation |-> 0, read |-> unread]
    OBVIOUS
  <2> QED
    BY <1>2, <2>1, <2>2, Zenon
<1>5. ASSUME NEW i \in Ids, NEW step \in Steps
      PROVE  [at |-> step, id |-> i, generation |-> 0, read |-> unread] \in Call
  BY <1>1 DEF Call
<1>6. ASSUME NEW i \in Ids, NEW step \in Steps
      PROVE  /\ [Books!IdleTask EXCEPT !.at = step, !.id = i] \in Call
             /\ [Books!IdleTask EXCEPT !.at = step, !.id = i].at = step
             /\ [Books!IdleTask EXCEPT !.at = step, !.id = i].id = i
  <2>1. PICK k : k = [at |-> step, id |-> i, generation |-> 0, read |-> unread]
    OBVIOUS
  <2>2. k.at = step /\ k.id = i /\ k \in Call
    BY <1>5, <2>1
  <2> QED
    BY <1>4, <2>1, <2>2, Zenon
<1> QED
  BY <1>3, <1>6, Zenon

LEMMA IdleCall == Books!IdleTask \in Call /\ Books!IdleTask.at = "idle"
BY NewCall, Zenon

LEMMA IdleRound == Books!IdleLoop \in Rounds /\ Books!IdleLoop.left = {}
BY BookNumbers DEF Books!IdleLoop, Rounds, Gens

LEMMA MidnightBefore ==
  ASSUME NEW t \in 0 .. MaxTick
  PROVE  Books!Midnight(t) \in 0 .. MaxTick
<1>1. ASSUME NEW d \in Nat \ {0}, NEW x \in Nat PROVE (x \div d) * d \in 0 .. x
  <2>1. d * (x \div d) <= x /\ x \div d \in Nat
    OBVIOUS
  <2>2. d * (x \div d) \in Nat
    BY <2>1
  <2>3. d * (x \div d) = (x \div d) * d
    BY <2>1
  <2> QED
    BY <2>1, <2>2, <2>3
<1>2. (t \div TicksPerDay) * TicksPerDay \in 0 .. t
  BY <1>1, BookNumbers
<1> QED
  BY <1>2, BookNumbers DEF Books!Midnight, Books!Day

LEMMA CallGoes ==
  ASSUME NEW k \in Call, NEW step \in Steps
  PROVE  /\ [k EXCEPT !.at = step] \in Call /\ [k EXCEPT !.at = step].at = step
         /\ [k EXCEPT !.at = step].id = k.id /\ [k EXCEPT !.at = step].generation = k.generation
         /\ [k EXCEPT !.at = step].read = k.read
BY DEF Call

\* A request becomes k; the store only grows, broker and cache stay behind it.
LEMMA CallKeeps ==
  ASSUME BooksInv, NEW t \in Callers, NEW k \in Call, calls' = [calls EXCEPT ![t] = k],
         UNCHANGED <<tick, loop, snapshots>>,
         store' \in [Ids -> Gens], broker' \in [Ids -> Gens], accounts' \in [Ids -> Gens],
         \A i \in Ids : /\ store[i] <= store'[i] /\ broker'[i] <= store'[i] /\ accounts'[i] <= store'[i]
                        /\ broker[i] # 0 => broker'[i] # 0,
         k.at \in {"insert", "restore", "bump", "reset"} => k.id \in Ids,
         k.at \in {"restore", "bump"} => store'[k.id] # 0,
         k.at = "reset" => k.generation # 0 /\ k.generation <= store'[k.id],
         k.at = "cache" => \A i \in Ids : k.read[i] <= store'[i]
  PROVE  BooksInv'
<1>1. BookTypes'
  BY DEF BooksInv, BookTypes, Gens
<1>2. \A i \in Ids : store[i] \in Nat /\ store'[i] \in Nat /\ store[i] <= store'[i]
  BY BookNumbers DEF BooksInv, BookTypes, Gens
<1>3. Foretold'
  <2> SUFFICES ASSUME NEW u \in Callers
      PROVE  /\ calls'[u].at \in {"insert", "restore", "bump", "reset"} => calls'[u].id \in Ids
             /\ calls'[u].at \in {"restore", "bump"} => store'[calls'[u].id] # 0
             /\ calls'[u].at = "reset" => calls'[u].generation # 0 /\ calls'[u].generation <= store'[calls'[u].id]
             /\ calls'[u].at = "cache" => \A i \in Ids : calls'[u].read[i] <= store'[i]
    BY DEF Foretold
  <2>1. calls'[u] = IF u = t THEN k ELSE calls[u]
    BY DEF BooksInv, BookTypes
  <2>2. CASE u = t
    BY <2>1, <2>2
  <2>3. CASE u # t
    <3>1. calls'[u] = calls[u] /\ calls[u].generation \in Nat /\ \A i \in Ids : calls[u].read[i] \in Nat
      BY <2>1, <2>3, BookNumbers DEF BooksInv, BookTypes, Call, Gens
    <3>2. calls[u].at \in {"insert", "restore", "bump", "reset"} => calls[u].id \in Ids
      BY DEF BooksInv, Foretold
    <3>3. calls[u].at \in {"restore", "bump"} => store'[calls[u].id] # 0
      BY <1>2, <3>2 DEF BooksInv, Foretold
    <3>4. calls[u].at = "reset" => calls[u].generation # 0 /\ calls[u].generation <= store'[calls[u].id]
      BY <1>2, <3>1, <3>2 DEF BooksInv, Foretold
    <3>5. calls[u].at = "cache" => \A i \in Ids : calls[u].read[i] <= store'[i]
      BY <1>2, <3>1 DEF BooksInv, Foretold
    <3> QED
      BY <3>1, <3>2, <3>3, <3>4, <3>5
  <2> QED
    BY <2>2, <2>3
<1>4. Behind' /\ Surveyed'
  BY DEF BooksInv, BookTypes, Rounds, Behind, Surveyed
<1>5. Kept'
  BY DEF BooksInv, Kept, Books!Kinds, Gens
<1> QED
  BY <1>1, <1>3, <1>4, <1>5 DEF BooksInv

\* A request that is over.
LEMMA CallEnds ==
  ASSUME BooksInv, NEW t \in Callers, calls' = [calls EXCEPT ![t] = Books!IdleTask],
         UNCHANGED <<tick, store, broker, loop, snapshots>>,
         accounts' \in [Ids -> Gens], \A i \in Ids : accounts'[i] <= store[i]
  PROVE  BooksInv'
<1>1. PICK k \in Call : k = Books!IdleTask /\ k.at = "idle"
  BY IdleCall
<1>2. calls' = [calls EXCEPT ![t] = k]
  BY <1>1
<1>3. /\ store' \in [Ids -> Gens] /\ broker' \in [Ids -> Gens]
      /\ \A i \in Ids : /\ store[i] <= store'[i] /\ broker'[i] <= store'[i] /\ accounts'[i] <= store'[i]
                        /\ broker[i] # 0 => broker'[i] # 0
  BY BookNumbers DEF BooksInv, BookTypes, Behind, Gens
<1>4. /\ k.at \in {"insert", "restore", "bump", "reset"} => k.id \in Ids
      /\ k.at \in {"restore", "bump"} => store'[k.id] # 0
      /\ k.at = "reset" => k.generation # 0 /\ k.generation <= store'[k.id]
      /\ k.at = "cache" => \A i \in Ids : k.read[i] <= store'[i]
  BY <1>1
<1> QED
  BY <1>2, <1>3, <1>4, CallKeeps

LEMMA RequestSteps ==
  ASSUME BooksInv, NEW t \in Callers,
         \/ Books!Insert(t) \/ Books!RestoreNew(t) \/ Books!Bump(t) \/ Books!ResetBroker(t)
         \/ Books!List(t) \/ Books!Cache(t) \/ Books!Fails(t)
         \/ \E i \in Ids : Books!Create(t, i) \/ Books!Reset(t, i)
  PROVE  BooksInv'
<1> DEFINE k0 == calls[t]
<1>0. k0 \in Call /\ calls = [u \in Callers |-> calls[u]]
  BY DEF BooksInv, BookTypes
<1>1. /\ store \in [Ids -> Gens] /\ broker \in [Ids -> Gens] /\ accounts \in [Ids -> Gens]
      /\ \A i \in Ids : /\ store[i] <= store[i] /\ broker[i] <= store[i] /\ accounts[i] <= store[i]
                        /\ store[i] \in Nat /\ broker[i] \in Nat /\ accounts[i] \in Nat
  BY BookNumbers DEF BooksInv, BookTypes, Behind, Gens
<1>2. /\ k0.at \in {"insert", "restore", "bump", "reset"} => k0.id \in Ids
      /\ k0.at \in {"restore", "bump"} => store[k0.id] # 0
      /\ k0.at = "reset" => k0.generation # 0 /\ k0.generation <= store[k0.id]
      /\ k0.at = "cache" => \A i \in Ids : k0.read[i] <= store[i]
  BY DEF BooksInv, Foretold
<1>3. ASSUME NEW step \in Steps, calls' = [calls EXCEPT ![t].at = step]
      PROVE  calls' = [calls EXCEPT ![t] = [k0 EXCEPT !.at = step]]
  BY <1>3
<1>4. CASE Books!Insert(t)
  <2>1. k0.id \in Ids /\ UNCHANGED <<tick, broker, accounts, loop, snapshots>>
    BY <1>2, <1>4 DEF Books!Insert
  <2>2. CASE store[k0.id] = 0
    <3>1. store' = [store EXCEPT ![k0.id] = 1] /\ calls' = [calls EXCEPT ![t].at = "restore"]
      BY <1>4, <2>2 DEF Books!Insert, Books!Go
    <3>2. "restore" \in Steps
      BY DEF Steps
    <3>3. PICK k : k = [k0 EXCEPT !.at = "restore"]
      OBVIOUS
    <3>4. k \in Call /\ k.at = "restore" /\ k.id = k0.id
      BY <1>0, <3>2, <3>3, CallGoes
    <3>5. calls' = [calls EXCEPT ![t] = k]
      BY <1>3, <3>1, <3>2, <3>3
    <3>6. 1 \in Gens
      BY BookNumbers DEF Gens
    <3>7. /\ store' \in [Ids -> Gens] /\ store'[k.id] # 0
          /\ \A i \in Ids : store[i] <= store'[i] /\ broker[i] <= store'[i] /\ accounts[i] <= store'[i]
      BY <1>1, <2>1, <2>2, <3>1, <3>4, <3>6
    <3> HIDE DEF k0
    <3> QED
      BY <1>1, <2>1, <3>4, <3>5, <3>7, CallKeeps
  <2>3. CASE store[k0.id] # 0
    <3>1. store' = store /\ calls' = [calls EXCEPT ![t] = Books!IdleTask]
      BY <1>4, <2>3 DEF Books!Insert
    <3> HIDE DEF k0
    <3> QED
      BY <1>1, <2>1, <3>1, CallEnds
  <2> QED
    BY <2>2, <2>3
<1>5. CASE Books!RestoreNew(t)
  <2>1. /\ k0.id \in Ids /\ store[k0.id] # 0 /\ UNCHANGED <<tick, store, accounts, loop, snapshots>>
        /\ broker' = [broker EXCEPT ![k0.id] = 1] /\ calls' = [calls EXCEPT ![t].at = "list"]
    BY <1>2, <1>5 DEF Books!RestoreNew, Books!Go
  <2>2. "list" \in Steps /\ 1 \in Gens
    BY BookNumbers DEF Steps, Gens
  <2>3. PICK k : k = [k0 EXCEPT !.at = "list"]
    OBVIOUS
  <2>4. k \in Call /\ k.at = "list"
    BY <1>0, <2>2, <2>3, CallGoes
  <2>5. calls' = [calls EXCEPT ![t] = k]
    BY <1>3, <2>1, <2>2, <2>3
  <2>6. /\ broker' \in [Ids -> Gens]
        /\ \A i \in Ids : broker'[i] <= store[i] /\ (broker[i] # 0 => broker'[i] # 0)
    BY <1>1, <2>1, <2>2
  <2> HIDE DEF k0
  <2> QED
    BY <1>1, <2>1, <2>4, <2>5, <2>6, CallKeeps
<1>6. CASE Books!Bump(t)
  <2>1. /\ k0.id \in Ids /\ store[k0.id] < MaxGeneration /\ UNCHANGED <<tick, broker, accounts, loop, snapshots>>
        /\ store' = [store EXCEPT ![k0.id] = store[k0.id] + 1]
        /\ calls' = [calls EXCEPT ![t].at = "reset", ![t].generation = store[k0.id] + 1]
    BY <1>2, <1>6 DEF Books!Bump, Books!Bumped
  <2>2. store[k0.id] + 1 \in Gens
    BY <1>1, <2>1, BookNumbers DEF Gens
  <2>3. PICK k : k = [k0 EXCEPT !.at = "reset", !.generation = store[k0.id] + 1]
    OBVIOUS
  <2>4. k \in Call /\ k.at = "reset" /\ k.id = k0.id /\ k.generation = store[k0.id] + 1
    <3>1. "reset" \in Steps
      BY DEF Steps
    <3>2. ASSUME NEW g \in Gens, k = [k0 EXCEPT !.at = "reset", !.generation = g]
          PROVE  k \in Call /\ k.at = "reset" /\ k.id = k0.id /\ k.generation = g
      BY <1>0, <3>1, <3>2 DEF Call
    <3> QED
      BY <2>2, <2>3, <3>2, Zenon
  <2>5. calls' = [calls EXCEPT ![t] = k]
    BY <1>0, <2>1, <2>3
  <2>6. /\ store' \in [Ids -> Gens] /\ k.generation # 0 /\ k.generation <= store'[k.id]
        /\ \A i \in Ids : store[i] <= store'[i] /\ broker[i] <= store'[i] /\ accounts[i] <= store'[i]
    BY <1>1, <2>1, <2>2, <2>4
  <2> HIDE DEF k0
  <2> QED
    BY <1>1, <2>1, <2>4, <2>5, <2>6, CallKeeps
<1>7. CASE Books!ResetBroker(t)
  <2>1. /\ k0.id \in Ids /\ k0.generation # 0 /\ k0.generation <= store[k0.id]
        /\ UNCHANGED <<tick, store, accounts, loop, snapshots>>
        /\ broker' = [broker EXCEPT ![k0.id] = k0.generation] /\ calls' = [calls EXCEPT ![t].at = "list"]
    BY <1>2, <1>7 DEF Books!ResetBroker, Books!Go
  <2>2. "list" \in Steps /\ k0.generation \in Gens
    BY <1>0 DEF Steps, Call
  <2>3. PICK k : k = [k0 EXCEPT !.at = "list"]
    OBVIOUS
  <2>4. k \in Call /\ k.at = "list"
    BY <1>0, <2>2, <2>3, CallGoes
  <2>5. calls' = [calls EXCEPT ![t] = k]
    BY <1>3, <2>1, <2>2, <2>3
  <2>6. /\ broker' \in [Ids -> Gens]
        /\ \A i \in Ids : broker'[i] <= store[i] /\ (broker[i] # 0 => broker'[i] # 0)
    BY <1>1, <2>1, <2>2
  <2> HIDE DEF k0
  <2> QED
    BY <1>1, <2>1, <2>4, <2>5, <2>6, CallKeeps
<1>8. CASE Books!List(t)
  <2>1. /\ UNCHANGED <<tick, store, broker, accounts, loop, snapshots>>
        /\ calls' = [calls EXCEPT ![t].at = "cache", ![t].read = store]
    BY <1>8 DEF Books!List
  <2>2. PICK k : k = [k0 EXCEPT !.at = "cache", !.read = store]
    OBVIOUS
  <2>3. k \in Call /\ k.at = "cache" /\ k.read = store
    <3>1. "cache" \in Steps
      BY DEF Steps
    <3>2. ASSUME NEW g \in [Ids -> Gens], k = [k0 EXCEPT !.at = "cache", !.read = g]
          PROVE  k \in Call /\ k.at = "cache" /\ k.read = g
      BY <1>0, <3>1, <3>2 DEF Call
    <3> QED
      BY <1>1, <2>2, <3>2, Zenon
  <2>4. calls' = [calls EXCEPT ![t] = k]
    BY <1>0, <2>1, <2>2
  <2> HIDE DEF k0
  <2> QED
    <3>1. /\ store' \in [Ids -> Gens] /\ broker' \in [Ids -> Gens] /\ accounts' \in [Ids -> Gens]
          /\ \A i \in Ids : /\ store[i] <= store'[i] /\ broker'[i] <= store'[i] /\ accounts'[i] <= store'[i]
                            /\ broker[i] # 0 => broker'[i] # 0
      BY <1>1, <2>1
    <3>2. /\ k.at \in {"insert", "restore", "bump", "reset"} => k.id \in Ids
          /\ k.at \in {"restore", "bump"} => store'[k.id] # 0
          /\ k.at = "reset" => k.generation # 0 /\ k.generation <= store'[k.id]
          /\ k.at = "cache" => \A i \in Ids : k.read[i] <= store'[i]
      BY <1>1, <2>1, <2>3
    <3> QED
      BY <2>1, <2>3, <2>4, <3>1, <3>2, CallKeeps
<1>9. CASE Books!Cache(t)
  <2>1. /\ UNCHANGED <<tick, store, broker, loop, snapshots>> /\ accounts' = k0.read
        /\ calls' = [calls EXCEPT ![t] = Books!IdleTask]
        /\ \A i \in Ids : k0.read[i] <= store[i]
    BY <1>2, <1>9 DEF Books!Cache
  <2>2. accounts' \in [Ids -> Gens]
    BY <1>0, <2>1 DEF Call
  <2> HIDE DEF k0
  <2> QED
    BY <1>1, <2>1, <2>2, CallEnds
<1>10. CASE Books!Fails(t)
  <2>1. /\ UNCHANGED <<tick, store, broker, accounts, loop, snapshots>>
        /\ calls' = [calls EXCEPT ![t] = Books!IdleTask]
    BY <1>10 DEF Books!Fails
  <2> HIDE DEF k0
  <2> QED
    BY <1>1, <2>1, CallEnds
<1>11. ASSUME NEW i \in Ids, Books!Create(t, i) \/ Books!Reset(t, i) PROVE BooksInv'
  <2>1. PICK step \in {"insert", "bump"} :
          /\ calls' = [calls EXCEPT ![t] = [Books!IdleTask EXCEPT !.at = step, !.id = i]]
          /\ step = "bump" => store[i] # 0
    <3>1. accounts[i] # 0 => store[i] # 0
      BY <1>1
    <3>2. CASE Books!Create(t, i)
      <4>1. calls' = [calls EXCEPT ![t] = [Books!IdleTask EXCEPT !.at = "insert", !.id = i]]
        BY <3>2, Zenon DEF Books!Create
      <4>2. "insert" \in {"insert", "bump"} /\ "insert" # "bump"
        OBVIOUS
      <4> QED
        BY <4>1, <4>2, Zenon
    <3>3. CASE Books!Reset(t, i)
      <4>1. calls' = [calls EXCEPT ![t] = [Books!IdleTask EXCEPT !.at = "bump", !.id = i]] /\ accounts[i] # 0
        BY <3>3, Zenon DEF Books!Reset
      <4>2. "bump" \in {"insert", "bump"}
        OBVIOUS
      <4> QED
        BY <3>1, <4>1, <4>2, Zenon
    <3> QED
      BY <1>11, <3>2, <3>3
  <2>2. UNCHANGED <<tick, store, broker, accounts, loop, snapshots>>
    BY <1>11 DEF Books!Create, Books!Reset
  <2>3. PICK k : k = [Books!IdleTask EXCEPT !.at = step, !.id = i]
    OBVIOUS
  <2>4. k \in Call /\ k.at = step /\ k.id = i
    <3>1. step \in Steps
      BY DEF Steps
    <3> QED
      BY <2>3, <3>1, NewCall, Zenon
  <2>5. calls' = [calls EXCEPT ![t] = k]
    BY <2>1, <2>3
  <2> HIDE DEF k0
  <2>6. /\ store' \in [Ids -> Gens] /\ broker' \in [Ids -> Gens] /\ accounts' \in [Ids -> Gens]
        /\ \A j \in Ids : /\ store[j] <= store'[j] /\ broker'[j] <= store'[j] /\ accounts'[j] <= store'[j]
                          /\ broker[j] # 0 => broker'[j] # 0
    BY <1>1, <2>2
  <2>7. /\ k.at \in {"insert", "restore", "bump", "reset"} => k.id \in Ids
        /\ k.at \in {"restore", "bump"} => store'[k.id] # 0
        /\ k.at = "reset" => k.generation # 0 /\ k.generation <= store'[k.id]
        /\ k.at = "cache" => \A j \in Ids : k.read[j] <= store'[j]
    BY <2>1, <2>2, <2>4
  <2> QED
    BY <2>2, <2>4, <2>5, <2>6, <2>7, CallKeeps
<1> QED
  BY <1>4, <1>5, <1>6, <1>7, <1>8, <1>9, <1>10, <1>11

LEMMA LoopTakes ==
  ASSUME BooksInv, Books!Tick
  PROVE  BooksInv'
<1>1. /\ loop' = [at |-> "saving", left |-> Books!Held, generations |-> broker,
                  time |-> tick, daily |-> lastDay # Books!Day(tick)]
      /\ UNCHANGED <<tick, store, broker, accounts, calls, snapshots>>
  BY DEF Books!Tick
<1>2. loop' \in Rounds /\ loop'.left = Books!Held /\ loop'.generations = broker
  <2>1. Books!Held \in SUBSET Ids /\ (lastDay # Books!Day(tick)) \in BOOLEAN
    BY DEF Books!Held
  <2>2. tick \in 0 .. MaxTick /\ broker \in [Ids -> Gens]
    BY DEF BooksInv, BookTypes
  <2> QED
    BY <1>1, <2>1, <2>2 DEF Rounds
<1>3. BookTypes'
  BY <1>1, <1>2 DEF BooksInv, BookTypes, Gens
<1>4. Surveyed'
  BY <1>1, <1>2 DEF Surveyed, Books!Held
<1>5. Foretold' /\ Behind' /\ Kept'
  BY <1>1 DEF BooksInv, Foretold, Behind, Kept, Books!Kinds, Gens
<1> QED
  BY <1>3, <1>4, <1>5 DEF BooksInv

LEMMA LoopSaves ==
  ASSUME BooksInv, NEW i \in Ids, NEW kinds \in SUBSET Books!Kinds, Books!Snapshot(i, kinds)
  PROVE  BooksInv' /\ \A k \in DOMAIN snapshots : k \in DOMAIN snapshots' /\ snapshots'[k] = snapshots[k]
<1> DEFINE key(k) == [id |-> i, generation |-> loop.generations[i], kind |-> k,
                      at |-> IF k = "daily" THEN Books!Midnight(loop.time) ELSE loop.time]
           keys == {key(k) : k \in kinds}
<1>1. /\ i \in loop.left /\ snapshots' = Books!Saved(keys, broker[i])
      /\ loop' = [loop EXCEPT !.left = loop.left \ {i}]
      /\ UNCHANGED <<tick, store, broker, accounts, calls>>
  BY DEF Books!Snapshot
<1>2. /\ loop \in Rounds /\ loop.time \in 0 .. MaxTick /\ loop.generations[i] \in Gens \ {0}
      /\ broker[i] \in Gens \ {0}
  BY <1>1 DEF BooksInv, BookTypes, Rounds, Surveyed
<1>3. ASSUME NEW k \in keys
      PROVE  k.id \in Ids /\ k.kind \in Books!Kinds /\ k.at \in 0 .. MaxTick /\ k.generation \in Gens \ {0}
  BY <1>2, MidnightBefore
<1> HIDE DEF keys
<1>4. /\ DOMAIN snapshots' = DOMAIN snapshots \cup keys
      /\ \A k \in DOMAIN snapshots' :
           snapshots'[k] = IF k \in DOMAIN snapshots THEN snapshots[k] ELSE broker[i]
  BY <1>1 DEF Books!Saved
<1>5. loop' \in Rounds /\ loop'.left \subseteq loop.left /\ loop'.generations = loop.generations
  BY <1>1, <1>2 DEF Rounds
<1>6. BookTypes'
  BY <1>1, <1>5 DEF BooksInv, BookTypes, Gens
<1>7. Surveyed'
  BY <1>1, <1>5 DEF BooksInv, Surveyed
<1>8. Foretold' /\ Behind'
  BY <1>1 DEF BooksInv, Foretold, Behind
<1>9. Kept'
  <2> SUFFICES ASSUME NEW k \in DOMAIN snapshots'
      PROVE  /\ k.id \in Ids /\ k.kind \in Books!Kinds /\ k.at \in 0 .. MaxTick
             /\ k.generation \in Gens \ {0} /\ snapshots'[k] \in Gens \ {0}
    BY DEF Kept, Books!Kinds, Gens
  <2>1. CASE k \in DOMAIN snapshots
    BY <1>4, <2>1 DEF BooksInv, Kept
  <2>2. CASE k \notin DOMAIN snapshots
    BY <1>2, <1>3, <1>4, <2>2
  <2> QED
    BY <2>1, <2>2
<1> QED
  BY <1>4, <1>6, <1>7, <1>8, <1>9 DEF BooksInv

LEMMA LoopRests ==
  ASSUME BooksInv, Books!TickDone
  PROVE  BooksInv'
<1>1. loop' = Books!IdleLoop /\ UNCHANGED <<tick, store, broker, accounts, calls, snapshots>>
  BY DEF Books!TickDone
<1>2. BookTypes' /\ Surveyed'
  BY <1>1, IdleRound DEF BooksInv, BookTypes, Surveyed, Gens
<1>3. Foretold' /\ Behind' /\ Kept'
  BY <1>1 DEF BooksInv, Foretold, Behind, Kept, Books!Kinds, Gens
<1> QED
  BY <1>2, <1>3 DEF BooksInv

LEMMA ProcessRestarts ==
  ASSUME BooksInv, Books!Restart
  PROVE  BooksInv'
<1>1. /\ broker' = store /\ accounts' = store /\ loop' = Books!IdleLoop
      /\ calls' = [t \in Callers |-> Books!IdleTask] /\ UNCHANGED <<tick, store, snapshots>>
  BY DEF Books!Restart
<1>2. BookTypes' /\ Surveyed'
  BY <1>1, IdleRound, IdleCall DEF BooksInv, BookTypes, Surveyed, Gens
<1>3. Foretold'
  BY <1>1, IdleCall DEF Foretold
<1>4. Behind' /\ Kept'
  BY <1>1, BookNumbers DEF BooksInv, BookTypes, Behind, Kept, Books!Kinds, Gens
<1> QED
  BY <1>2, <1>3, <1>4 DEF BooksInv

LEMMA BooksSame ==
  ASSUME BooksInv, tick' \in 0 .. MaxTick, UNCHANGED <<store, broker, accounts, calls, loop, snapshots>>
  PROVE  BooksInv'
<1>1. BookTypes'
  BY DEF BooksInv, BookTypes, Gens
<1> QED
  BY <1>1 DEF BooksInv, Foretold, Behind, Surveyed, Kept, Books!Kinds, Gens

LEMMA BooksStep ==
  ASSUME BooksInv, Books!Next
  PROVE  BooksInv'
<1>1. CASE Books!Passes
  <2>1. tick' \in 0 .. MaxTick
    BY <1>1, BookNumbers DEF Books!Passes, BooksInv, BookTypes
  <2> QED
    BY <1>1, <2>1, BooksSame DEF Books!Passes
<1>2. CASE Books!Tick \/ Books!TickDone \/ Books!Restart
  BY <1>2, LoopTakes, LoopRests, ProcessRestarts
<1>3. ASSUME NEW i \in Ids, NEW kinds \in SUBSET Books!Kinds, Books!Snapshot(i, kinds) PROVE BooksInv'
  BY <1>3, LoopSaves
<1> QED
  BY <1>1, <1>2, <1>3, RequestSteps DEF Books!Next

LEMMA BooksStart ==
  ASSUME Books!Init
  PROVE  BooksInv
<1>1. BookTypes /\ Surveyed
  BY BookNumbers, IdleRound, IdleCall DEF Books!Init, BookTypes, Surveyed, Gens
<1>2. Foretold
  BY IdleCall DEF Books!Init, Foretold
<1>3. Behind /\ Kept
  BY DEF Books!Init, Behind, Kept
<1> QED
  BY <1>1, <1>2, <1>3 DEF BooksInv

LEMMA BooksShow ==
  ASSUME BooksInv
  PROVE  Books!TypeOK /\ Books!CachesBehind
<1>1. Books!TypeOK
  BY DEF BooksInv, BookTypes, Surveyed, Kept, Rounds, Gens, Books!TypeOK, Books!Generations
<1>2. Books!CachesBehind
  BY DEF BooksInv, Behind, Books!CachesBehind
<1> QED
  BY <1>1, <1>2

\* Broker and cache never know a generation the store does not have, at any point of any
\* requests and wherever the process ends, for any accounts, requests and resets.
THEOREM CachesStayBehind == Spec => []CachesBehind
<1>1. Init => BooksInv
  BY BooksStart DEF Init
<1>2. BooksInv /\ [Next]_vars => BooksInv'
  <2> SUFFICES ASSUME BooksInv, [Next]_vars PROVE BooksInv'
    OBVIOUS
  <2>1. CASE AccountSteps
    BY <2>1, BooksStep DEF AccountSteps
  <2>2. CASE UNCHANGED accountVars
    <3>1. tick' \in 0 .. MaxTick /\ UNCHANGED <<store, broker, accounts, calls, loop, snapshots>>
      BY <2>2 DEF accountVars, BooksInv, BookTypes
    <3> QED
      BY <3>1, BooksSame
  <2> QED
    BY <2>1, <2>2 DEF Next, LoginSteps, EnrolmentSteps, ExpirySteps, SettingSteps, CalendarSteps,
      ProfitSteps, ReportSteps, vars
<1>3. BooksInv => CachesBehind
  BY BooksShow DEF CachesBehind
<1> QED
  BY <1>1, <1>2, <1>3, PTL DEF Spec

\* A snapshot that was recorded stays as it is.
LEMMA BooksRecorded == Spec => Books!RecordedForGood
<1> DEFINE Recorded == \A k \in DOMAIN snapshots : k \in DOMAIN snapshots' /\ snapshots'[k] = snapshots[k]
<1>1. Init => BooksInv
  BY BooksStart DEF Init
<1>2. BooksInv /\ [Next]_vars => BooksInv' /\ [Recorded]_(Books!vars)
  <2> SUFFICES ASSUME BooksInv, [Next]_vars PROVE BooksInv' /\ Recorded
    OBVIOUS
  <2>1. CASE AccountSteps
    <3>1. BooksInv'
      BY <2>1, BooksStep DEF AccountSteps
    <3>2. CASE UNCHANGED snapshots
      BY <3>1, <3>2
    <3>3. ASSUME NEW i \in Ids, NEW kinds \in SUBSET Books!Kinds, Books!Snapshot(i, kinds) PROVE Recorded
      BY <3>3, LoopSaves
    <3> QED
      BY <2>1, <3>1, <3>2, <3>3 DEF AccountSteps, Books!Next, Books!Insert, Books!RestoreNew, Books!Bump,
        Books!ResetBroker, Books!List, Books!Cache, Books!Fails, Books!Create, Books!Reset, Books!Tick,
        Books!TickDone, Books!Passes, Books!Restart
  <2>2. CASE UNCHANGED accountVars
    <3>1. tick' \in 0 .. MaxTick /\ UNCHANGED <<store, broker, accounts, calls, loop, snapshots>>
      BY <2>2 DEF accountVars, BooksInv, BookTypes
    <3> QED
      BY <3>1, BooksSame
  <2> QED
    BY <2>1, <2>2 DEF Next, LoginSteps, EnrolmentSteps, ExpirySteps, SettingSteps, CalendarSteps,
      ProfitSteps, ReportSteps, vars
<1> QED
  BY <1>1, <1>2, PTL DEF Spec, Books!RecordedForGood

-----------------------------------------------------------------------------
(* The trading calendar. *)

\* A product with a positive number keeps the order.
LEMMA TimesKeepsOrder ==
  ASSUME NEW a \in Int, NEW b \in Int, NEW s \in Nat \ {0}
  PROVE  (a <= b => a * s <= b * s) /\ (a < b => a * s + s <= b * s)
<1>1. (b - a) * s = b * s - a * s
  OBVIOUS
<1>2. a <= b => (b - a) * s >= 0
  OBVIOUS
<1>3. a < b => (b - a - 1) * s >= 0 /\ (b - a - 1) * s = b * s - a * s - s
  OBVIOUS
<1> QED
  BY <1>1, <1>2, <1>3

\* A day and a slot of it say which slot it is.
LEMMA DayOfSlot ==
  ASSUME NEW s \in Nat \ {0}, NEW x \in Int
  PROVE  x \div s \in Int /\ x % s \in 0 .. s - 1 /\ x = (x \div s) * s + (x % s)
<1>1. x \div s \in Int /\ x % s \in 0 .. s - 1
  OBVIOUS
<1>2. x = s * (x \div s) + (x % s)
  OBVIOUS
<1>3. s * (x \div s) = (x \div s) * s
  BY <1>1
<1> QED
  BY <1>1, <1>2, <1>3

LEMMA SlotOfDay ==
  ASSUME NEW s \in Nat \ {0}, NEW q \in Int, NEW r \in 0 .. s - 1, NEW x, x = q * s + r
  PROVE  x \in Int /\ x \div s = q /\ x % s = r
<1>1. x \in Int
  OBVIOUS
<1>2. PICK p \in Int, m \in 0 .. s - 1 : p = x \div s /\ m = x % s /\ x = p * s + m
  BY <1>1, DayOfSlot
<1>3. ~ (p < q) /\ ~ (q < p)
  <2>1. (p < q => p * s + s <= q * s) /\ (q < p => q * s + s <= p * s)
    BY <1>2, TimesKeepsOrder
  <2>2. p * s \in Int /\ q * s \in Int
    BY <1>2
  <2> QED
    BY <1>2, <2>1, <2>2
<1>4. p = q /\ p * s \in Int
  BY <1>2, <1>3
<1> QED
  BY <1>1, <1>2, <1>4

\* A set of integers above t has a least element.
LEMMA LeastAfter ==
  ASSUME NEW t \in Int, NEW T, T # {}, \A u \in T : u \in Int /\ u > t
  PROVE  \E u \in T : \A w \in T : u <= w
<1> DEFINE Past == {n \in Nat : t + n \in T}
<1>1. Past \subseteq Nat /\ Past # {}
  <2>1. PICK u \in T : u \in Int /\ u > t
    OBVIOUS
  <2>2. u - t \in Nat /\ t + (u - t) = u
    BY <2>1
  <2> QED
    BY <2>1, <2>2
<1>2. PICK n \in Past : \A k \in Past : n <= k
  <2> HIDE DEF Past
  <2> QED
    BY <1>1, LeastNat
<1>3. ASSUME NEW w \in T PROVE t + n <= w
  <2>1. w - t \in Nat /\ t + (w - t) = w
    OBVIOUS
  <2>2. w - t \in Past
    BY <2>1
  <2> QED
    BY <1>2, <2>1, <2>2
<1> QED
  BY <1>2, <1>3

LEMMA WeekNumbers ==
  /\ Days \in Nat \ {0} /\ Slots \in Nat \ {0} /\ Horizon \in Nat \ {0}
  /\ \A v \in Venues : /\ v # "none" /\ Ahead[v] \in Int /\ OpensAt[v] \in Nat /\ ClosesAt[v] \in Nat
                       /\ 0 < OpensAt[v] /\ OpensAt[v] < ClosesAt[v] /\ ClosesAt[v] <= Slots
BY CalendarAssumed DEF Calendar!SessionsAssumption

\* A session begins in the openings of the trading days, and in no other slot.
LEMMA BeginsAtOpenings ==
  ASSUME NEW v \in Venues, NEW u \in Int
  PROVE  Calendar!Begins(v, u) <=> /\ Calendar!is_trading_day(v, Calendar!Date(v, u))
                                   /\ u = Calendar!OpeningOf(v, Calendar!Date(v, u))
<1> DEFINE x == u + Ahead[v]
           q == x \div Slots
           r == x % Slots
<1>1. x \in Int /\ x - 1 \in Int /\ u - 1 + Ahead[v] = x - 1
  BY WeekNumbers
<1>2. q \in Int /\ r \in 0 .. Slots - 1 /\ x = q * Slots + r /\ q * Slots \in Int
  <2> HIDE DEF x
  <2> QED
    BY <1>1, DayOfSlot, WeekNumbers
<1>3. /\ Calendar!Date(v, u) = q
      /\ Calendar!is_open(v, u) <=> Calendar!is_trading_day(v, q) /\ r \in OpensAt[v] .. ClosesAt[v] - 1
  BY DEF Calendar!Date, Calendar!Local, Calendar!is_open
<1>4. u = Calendar!OpeningOf(v, q) <=> r = OpensAt[v]
  <2>1. Calendar!OpeningOf(v, q) = q * Slots + OpensAt[v] - Ahead[v] /\ OpensAt[v] \in Int /\ Ahead[v] \in Int
    BY WeekNumbers DEF Calendar!OpeningOf
  <2>2. x = u + Ahead[v] /\ u \in Int /\ r \in Int
    BY <1>2, WeekNumbers
  <2>3. \A m \in Int, o \in Int, a \in Int, s \in Int :
          s = u + a /\ s = m + r => (u = m + o - a <=> r = o)
    <3> HIDE DEF x, q, r
    <3> QED
      BY <2>2
  <2> QED
    <3> HIDE DEF x, q, r
    <3> QED
      BY <1>1, <1>2, <2>1, <2>2, <2>3
<1>5. CASE r > 0
  <2>1. x - 1 = q * Slots + (r - 1) /\ r - 1 \in 0 .. Slots - 1
    <3> HIDE DEF x, q, r
    <3> QED
      BY <1>1, <1>2, <1>5, WeekNumbers
  <2>2. (x - 1) \div Slots = q /\ (x - 1) % Slots = r - 1
    <3> HIDE DEF x, q, r
    <3>1. Slots \in Nat \ {0}
      BY WeekNumbers
    <3>2. PICK y \in Int, m \in 0 .. Slots - 1 : y = x - 1 /\ m = r - 1 /\ y = q * Slots + m
      BY <1>1, <2>1
    <3>3. PICK p \in Int : p = q /\ y = p * Slots + m
      BY <1>2, <3>2
    <3>4. y = p * Slots + m
      BY <3>3
    <3>5. y \div Slots = p /\ y % Slots = m
      BY <3>1, <3>4, SlotOfDay
    <3> QED
      BY <3>2, <3>3, <3>5
  <2>3. Calendar!is_open(v, u - 1) <=> Calendar!is_trading_day(v, q) /\ r - 1 \in OpensAt[v] .. ClosesAt[v] - 1
    <3> HIDE DEF q, r
    <3> QED
      BY <1>1, <2>2 DEF Calendar!Date, Calendar!Local, Calendar!is_open
  <2> HIDE DEF x, q, r
  <2>4. r \in Int /\ OpensAt[v] \in Int /\ ClosesAt[v] \in Int /\ OpensAt[v] < ClosesAt[v]
    BY <1>2, WeekNumbers
  <2> QED
    BY <1>3, <1>4, <1>5, <2>3, <2>4 DEF Calendar!Begins
<1>6. CASE r = 0
  <2> HIDE DEF x, q, r
  <2>1. 0 < OpensAt[v] /\ OpensAt[v] \in Int /\ ClosesAt[v] \in Int
    BY WeekNumbers
  <2> QED
    BY <1>3, <1>4, <1>6, <2>1 DEF Calendar!Begins
<1> HIDE DEF x, q, r
<1> QED
  BY <1>2, <1>5, <1>6, WeekNumbers

\* next_open is the first slot after t in which a session begins; without one, none
\* begins in the days it looks at.
LEMMA NextOpenBegins ==
  ASSUME NEW v \in Venues, NEW t \in Nat
  PROVE  LET n == Calendar!next_open(v, t)
             last == IF n = Calendar!None THEN t + (Horizon - 1) * Slots ELSE n - 1
         IN  /\ n # Calendar!None => n > t /\ Calendar!Begins(v, n)
             /\ \A u \in t + 1 .. last : ~ Calendar!Begins(v, u)
<1> DEFINE D == Calendar!Date(v, t)
           From == Calendar!Openings(v, t)
           n == Calendar!next_open(v, t)
           last == IF n = Calendar!None THEN t + (Horizon - 1) * Slots ELSE n - 1
<1>1. ASSUME NEW u \in Int
      PROVE  /\ Calendar!Date(v, u) \in Int
             /\ \E r \in 0 .. Slots - 1 : u + Ahead[v] = Calendar!Date(v, u) * Slots + r
  <2>1. u + Ahead[v] \in Int
    BY WeekNumbers
  <2> QED
    BY <2>1, DayOfSlot, WeekNumbers DEF Calendar!Date, Calendar!Local
<1>2. ASSUME NEW d \in Int
      PROVE  /\ Calendar!OpeningOf(v, d) \in Int /\ Calendar!Date(v, Calendar!OpeningOf(v, d)) = d
             /\ Calendar!OpeningOf(v, d) + Ahead[v] = d * Slots + OpensAt[v]
  <2>1. d * Slots \in Int /\ OpensAt[v] \in 0 .. Slots - 1 /\ Ahead[v] \in Int
    BY WeekNumbers
  <2>2. PICK x \in Int : x = d * Slots + OpensAt[v]
    BY <2>1
  <2>3. Calendar!OpeningOf(v, d) \in Int /\ Calendar!OpeningOf(v, d) + Ahead[v] = x
    BY <2>1, <2>2 DEF Calendar!OpeningOf
  <2>4. x \div Slots = d
    BY <2>1, <2>2, SlotOfDay, WeekNumbers
  <2> QED
    BY <2>2, <2>3, <2>4 DEF Calendar!Date, Calendar!Local
<1>3. ASSUME NEW u \in From
      PROVE  u \in Int /\ u > t /\ Calendar!Begins(v, u) /\ Calendar!Date(v, u) <= D + Horizon - 1
  <2>1. PICK d \in D .. D + Horizon - 1 : Calendar!is_trading_day(v, d) /\ u = Calendar!OpeningOf(v, d)
    BY DEF Calendar!Openings
  <2>2. d \in Int /\ d <= D + Horizon - 1
    BY <1>1, <2>1, WeekNumbers
  <2>3. u \in Int /\ Calendar!Date(v, u) = d
    BY <1>2, <2>1, <2>2
  <2> QED
    BY <2>1, <2>2, <2>3, BeginsAtOpenings DEF Calendar!Openings
<1>4. ASSUME NEW u \in Int, u > t, Calendar!Begins(v, u), Calendar!Date(v, u) <= D + Horizon - 1
      PROVE  u \in From
  <2>1. PICK e \in Int : e = Calendar!Date(v, u)
    BY <1>1
  <2>2. Calendar!is_trading_day(v, e) /\ u = Calendar!OpeningOf(v, e)
    BY <1>4, <2>1, BeginsAtOpenings
  <2>3. PICK r \in 0 .. Slots - 1 : t + Ahead[v] = D * Slots + r
    BY <1>1
  <2>4. D \in Int /\ D * Slots \in Int /\ e * Slots \in Int /\ u + Ahead[v] = e * Slots + OpensAt[v]
    <3>1. D \in Int
      BY <1>1
    <3>2. u + Ahead[v] = e * Slots + OpensAt[v]
      BY <1>2, <2>1, <2>2
    <3> HIDE DEF D
    <3> QED
      BY <2>1, <3>1, <3>2, WeekNumbers
  <2> HIDE DEF D
  <2>5. /\ Ahead[v] \in Int /\ OpensAt[v] \in Int /\ OpensAt[v] < Slots /\ r >= 0 /\ r < Slots
        /\ Horizon \in Nat /\ Slots \in Nat \ {0} /\ Horizon * Slots \in Nat /\ r \in Int
    BY <2>3, WeekNumbers
  <2>6. e >= D
    <3>1. e < D => e * Slots + Slots <= D * Slots
      BY <2>4, <2>5, TimesKeepsOrder
    <3> QED
      BY <1>4, <2>3, <2>4, <2>5, <3>1
  <2>7. u <= t + (Horizon + 1) * Slots
    <3>1. e * Slots <= (D + Horizon) * Slots
      BY <1>4, <2>1, <2>4, <2>5, TimesKeepsOrder
    <3>2. (D + Horizon) * Slots = D * Slots + Horizon * Slots /\ (Horizon + 1) * Slots = Horizon * Slots + Slots
      BY <2>4, <2>5
    <3> QED
      BY <2>3, <2>4, <2>5, <3>1, <3>2
  <2>8. e \in D .. D + Horizon - 1 /\ u \in t .. t + (Horizon + 1) * Slots
    BY <1>4, <2>1, <2>4, <2>5, <2>6, <2>7
  <2> QED
    BY <1>4, <2>2, <2>8 DEF Calendar!Openings, D
<1>5. CASE From = {}
  <2>1. n = -1 /\ Calendar!None = -1 /\ last = t + (Horizon - 1) * Slots
    BY <1>5 DEF Calendar!next_open, Calendar!None
  <2>2. ASSUME NEW u \in t + 1 .. t + (Horizon - 1) * Slots, Calendar!Begins(v, u) PROVE FALSE
    <3>1. PICK r \in 0 .. Slots - 1 : t + Ahead[v] = D * Slots + r
      BY <1>1
    <3>2. PICK e \in Int, m \in 0 .. Slots - 1 : e = Calendar!Date(v, u) /\ u + Ahead[v] = e * Slots + m
      BY <1>1
    <3>3. D \in Int /\ D * Slots \in Int /\ e * Slots \in Int /\ (Horizon - 1) * Slots \in Int
          /\ Horizon \in Int /\ u \in Int /\ u > t
      BY <1>1, <3>2, WeekNumbers
    <3> HIDE DEF D, From
    <3>4. ~ (D + Horizon <= e)
      <4>1. D + Horizon <= e => (D + Horizon) * Slots <= e * Slots
        BY <3>3, TimesKeepsOrder, WeekNumbers
      <4>2. (D + Horizon) * Slots = D * Slots + (Horizon - 1) * Slots + Slots
        BY <3>3, WeekNumbers
      <4>3. u + Ahead[v] <= D * Slots + r + (Horizon - 1) * Slots /\ r < Slots /\ m >= 0
        BY <3>1, <3>3, WeekNumbers
      <4> QED
        BY <3>2, <3>3, <4>1, <4>2, <4>3, WeekNumbers
    <3> QED
      BY <1>4, <1>5, <2>2, <3>2, <3>3, <3>4
  <2> QED
    BY <2>1, <2>2
<1>6. CASE From # {}
  <2>1. PICK u \in From : \A w \in From : u <= w
    <3> HIDE DEF From
    <3> QED
      BY <1>3, <1>6, LeastAfter
  <2>2. n \in From /\ \A w \in From : n <= w
    BY <1>6, <2>1 DEF Calendar!next_open
  <2>3. n \in Int /\ n > t /\ Calendar!Begins(v, n) /\ Calendar!Date(v, n) <= D + Horizon - 1
    BY <1>3, <2>2
  <2>4. n # Calendar!None /\ last = n - 1
    BY <2>3 DEF Calendar!None
  <2>5. ASSUME NEW w \in t + 1 .. n - 1, Calendar!Begins(v, w) PROVE FALSE
    <3>1. PICK r \in 0 .. Slots - 1 : n + Ahead[v] = Calendar!Date(v, n) * Slots + r
      BY <1>1, <2>3
    <3>2. PICK e \in Int, m \in 0 .. Slots - 1 : e = Calendar!Date(v, w) /\ w + Ahead[v] = e * Slots + m
      BY <1>1, <2>3
    <3>3. PICK d \in Int : d = Calendar!Date(v, n)
      BY <1>1, <2>3
    <3> HIDE DEF n, D, From, last
    <3>4. w \in Int /\ w > t /\ w < n /\ d * Slots \in Int /\ e * Slots \in Int
      BY <2>3, <2>5, <3>2, <3>3, WeekNumbers
    <3>5. d < e => d * Slots + Slots <= e * Slots
      BY <3>2, <3>3, TimesKeepsOrder, WeekNumbers
    <3>6. e <= d
      BY <2>3, <3>1, <3>2, <3>3, <3>4, <3>5, WeekNumbers
    <3>7. D \in Int
      BY <1>1 DEF D
    <3>8. w \in From
      <4>1. Calendar!Date(v, w) <= D + Horizon - 1
        BY <2>3, <3>2, <3>3, <3>6, <3>7, WeekNumbers
      <4> QED
        BY <1>4, <2>5, <3>4, <4>1
    <3> QED
      BY <2>2, <2>3, <3>4, <3>8
  <2> QED
    BY <2>3, <2>4, <2>5
<1> QED
  BY <1>5, <1>6

\* Orders of a session that is over are due at the timer's next run, before any other.
CalendarInv ==
  /\ slot \in 0 .. Days * Slots - 1 /\ running \in BOOLEAN /\ ticked \in BOOLEAN
  /\ orders = [o \in Orders |-> [status |-> orders[o].status, venue |-> orders[o].venue, over |-> orders[o].over]]
  /\ \A o \in Orders :
       /\ orders[o].status \in {"none", "open", "filled", "expired", "cancelled"}
       /\ orders[o].venue \in Venues \cup {"none"} /\ orders[o].over \in {"yes", "no"}
       /\ orders[o].status = "none" <=> orders[o].venue = "none"
       /\ orders[o].status = "open" /\ orders[o].over = "yes" =>
            ~ ticked /\ ~ Calendar!is_open(orders[o].venue, slot)
       /\ orders[o].status = "filled" => orders[o].over = "no"
  /\ running

LEMMA CalendarStep ==
  ASSUME CalendarInv, Calendar!Next
  PROVE  CalendarInv'
<1>1. ASSUME NEW o \in Orders, NEW v \in Venues, Calendar!Place(o, v) PROVE CalendarInv'
  BY <1>1, WeekNumbers DEF CalendarInv, Calendar!Place
<1>2. ASSUME NEW o \in Orders, NEW status \in {"filled", "cancelled"}, Calendar!Ends(o, status)
      PROVE  CalendarInv'
  BY <1>2 DEF CalendarInv, Calendar!Ends
<1>3. CASE Calendar!expire_day_orders
  BY <1>3 DEF CalendarInv, Calendar!expire_day_orders, Calendar!Due, Calendar!Expired
<1>4. CASE Calendar!Stop \/ Calendar!Start
  BY <1>4 DEF CalendarInv, Calendar!Stop, Calendar!Start
<1>5. CASE Calendar!Passes
  <2>1. slot' \in 0 .. Days * Slots - 1
    <3>1. Days * Slots \in Nat \ {0} /\ slot + 1 \in Int
      <4>1. Days * Slots >= 1 /\ Days * Slots \in Nat
        BY WeekNumbers
      <4> QED
        BY <4>1 DEF CalendarInv
    <3>2. slot' = (slot + 1) % (Days * Slots)
      BY <1>5 DEF Calendar!Passes
    <3> HIDE DEF CalendarInv
    <3>3. PICK w \in Nat \ {0}, x \in Int : w = Days * Slots /\ x = slot + 1
      BY <3>1
    <3> QED
      BY <3>2, <3>3
  <2>2. ticked' = FALSE /\ running' = running
    BY <1>5 DEF Calendar!Passes
  <2>3. ASSUME NEW o \in Orders
        PROVE  /\ orders'[o].status = orders[o].status /\ orders'[o].venue = orders[o].venue
               /\ orders'[o] = [status |-> orders'[o].status, venue |-> orders'[o].venue, over |-> orders'[o].over]
               /\ orders'[o].over \in {orders[o].over, "yes"}
               /\ orders[o].status # "open" => orders'[o].over = orders[o].over
               /\ orders'[o].over = "yes" => \/ orders[o].over = "yes"
                                            \/ ~ Calendar!is_open(orders[o].venue, slot')
    <3>1. orders[o] = [status |-> orders[o].status, venue |-> orders[o].venue, over |-> orders[o].over]
      BY DEF CalendarInv
    <3>2. \/ orders'[o] = orders[o]
          \/ /\ orders[o].status = "open" /\ ~ Calendar!is_open(orders[o].venue, slot')
             /\ orders'[o] = [orders[o] EXCEPT !.over = "yes"]
      BY <1>5 DEF Calendar!Passes
    <3> QED
      BY <3>1, <3>2 DEF CalendarInv
  <2>4. orders' = [o \in Orders |-> orders'[o]]
    BY <1>5 DEF Calendar!Passes
  <2>5. \A o \in Orders : orders[o].status = "open" => orders[o].over = "no"
    BY <1>5 DEF CalendarInv, Calendar!Passes
  <2>6. orders' = [o \in Orders |->
          [status |-> orders'[o].status, venue |-> orders'[o].venue, over |-> orders'[o].over]]
    BY <2>3, <2>4
  <2>7. ASSUME NEW o \in Orders
        PROVE  /\ orders'[o].status \in {"none", "open", "filled", "expired", "cancelled"}
               /\ orders'[o].venue \in Venues \cup {"none"} /\ orders'[o].over \in {"yes", "no"}
               /\ orders'[o].status = "none" <=> orders'[o].venue = "none"
               /\ orders'[o].status = "open" /\ orders'[o].over = "yes" =>
                    ~ ticked' /\ ~ Calendar!is_open(orders[o].venue, slot')
               /\ orders'[o].status = "filled" => orders'[o].over = "no"
    <3>1. /\ orders[o].status \in {"none", "open", "filled", "expired", "cancelled"}
          /\ orders[o].venue \in Venues \cup {"none"} /\ orders[o].over \in {"yes", "no"}
          /\ orders[o].status = "none" <=> orders[o].venue = "none"
          /\ orders[o].status = "filled" => orders[o].over = "no"
      BY DEF CalendarInv
    <3>2. orders[o].status = "open" => orders[o].over = "no"
      BY <2>5
    <3> QED
      BY <2>2, <2>3, <3>1, <3>2
  <2>8. running' /\ running' \in BOOLEAN /\ ticked' \in BOOLEAN
    BY <2>2 DEF CalendarInv
  <2>9. ASSUME NEW o \in Orders
        PROVE  Calendar!is_open(orders[o].venue, slot)' <=> Calendar!is_open(orders[o].venue, slot')
    BY <2>3 DEF Calendar!is_open, Calendar!is_trading_day, Calendar!Date, Calendar!Local
  <2> QED
    BY <2>1, <2>3, <2>6, <2>7, <2>8, <2>9 DEF CalendarInv
<1> QED
  BY <1>1, <1>2, <1>3, <1>4, <1>5 DEF Calendar!Next

LEMMA CalendarStart ==
  ASSUME Calendar!Init
  PROVE  CalendarInv
<1>1. Days * Slots \in Nat /\ Days * Slots >= 1
  BY WeekNumbers
<1>2. slot \in 0 .. Days * Slots - 1
  BY <1>1 DEF Calendar!Init
<1>3. /\ running = TRUE /\ ticked = FALSE /\ orders = [o \in Orders |-> Calendar!Unplaced]
      /\ \A o \in Orders : orders[o] = Calendar!Unplaced
  BY DEF Calendar!Init
<1>4. /\ Calendar!Unplaced.status = "none" /\ Calendar!Unplaced.venue = "none" /\ Calendar!Unplaced.over = "no"
      /\ Calendar!Unplaced = [status |-> "none", venue |-> "none", over |-> "no"]
  BY DEF Calendar!Unplaced
<1> QED
  BY <1>2, <1>3, <1>4 DEF CalendarInv

LEMMA CalendarSame ==
  ASSUME CalendarInv, UNCHANGED calendarVars
  PROVE  CalendarInv'
BY DEF CalendarInv, calendarVars, Calendar!is_open, Calendar!is_trading_day, Calendar!Date, Calendar!Local

LEMMA CalendarShows ==
  ASSUME CalendarInv
  PROVE  Calendar!TypeOK /\ Calendar!NextOpenIsNext /\ Calendar!DayOnly
<1>1. Calendar!TypeOK /\ Calendar!DayOnly
  BY DEF CalendarInv, Calendar!TypeOK, Calendar!DayOnly
<1>2. slot \in Nat
  <2>1. Days * Slots \in Nat
    BY WeekNumbers
  <2> QED
    BY <2>1 DEF CalendarInv
<1>3. Calendar!NextOpenIsNext
  BY <1>2, NextOpenBegins DEF Calendar!NextOpenIsNext
<1> QED
  BY <1>1, <1>3

\* In every slot of every week, next_open is the first slot in which a session begins,
\* whatever the weekends, holidays, hours and time zones; and while the process runs no
\* DAY order is filled in a later session than its own.
THEOREM CalendarHolds == Spec => []CalendarKept
<1>1. Init => CalendarInv
  BY CalendarStart DEF Init
<1>2. CalendarInv /\ [Next]_vars => CalendarInv'
  <2> SUFFICES ASSUME CalendarInv, [Next]_vars PROVE CalendarInv'
    OBVIOUS
  <2>1. CASE CalendarSteps
    BY <2>1, CalendarStep DEF CalendarSteps
  <2>2. CASE UNCHANGED calendarVars
    BY <2>2, CalendarSame
  <2> QED
    BY <2>1, <2>2 DEF Next, LoginSteps, EnrolmentSteps, ExpirySteps, SettingSteps, AccountSteps,
      ProfitSteps, ReportSteps, vars
<1>3. CalendarInv => CalendarKept
  BY CalendarShows DEF CalendarKept
<1> QED
  BY <1>1, <1>2, <1>3, PTL DEF Spec

-----------------------------------------------------------------------------
(* Access: what WebSessionsProofs shows of any requests, limits and codes, of the two *)
(* sets of them that MCOperation has.                                                 *)

EnrolmentProofs == INSTANCE WebSessionsProofs WITH
  Tasks <- {"a", "b"}, Idle <- 1, Absolute <- 1, Codes <- 1,
  MaxNow <- 1, MaxSessions <- 2, MaxSecrets <- 2, MaxResets <- 0

ExpiryProofs == INSTANCE WebSessionsProofs WITH
  Tasks <- {"a", "b"}, Idle <- 1, Absolute <- 2, Codes <- 1,
  MaxNow <- 5, MaxSessions <- 1, MaxSecrets <- 0, MaxResets <- 1,
  now <- idleNow, user <- idleUser, sessions <- idleSessions, codes <- idleCodes,
  tasks <- idleTasks, cli <- idleCli, made <- idleMade, accepted <- idleAccepted,
  used <- idleUsed, proven <- idleProven

LEMMA EnrolmentRuns == Spec => Enrolment!Init /\ [][Enrolment!Next]_(Enrolment!vars)
<1>1. Init => Enrolment!Init
  BY DEF Init
<1>2. [Next]_vars => [Enrolment!Next]_(Enrolment!vars)
  <2> SUFFICES ASSUME [Next]_vars PROVE [Enrolment!Next]_(Enrolment!vars)
    OBVIOUS
  <2>1. CASE EnrolmentSteps
    BY <2>1 DEF EnrolmentSteps
  <2>2. CASE UNCHANGED userVars
    BY <2>2 DEF userVars, Enrolment!vars
  <2> QED
    BY <2>1, <2>2 DEF Next, vars, LoginSteps, ExpirySteps, SettingSteps, AccountSteps, CalendarSteps,
      ProfitSteps, ReportSteps
<1> QED
  BY <1>1, <1>2, PTL DEF Spec

LEMMA EnrolmentSame ==
  /\ EnrolmentProofs!Init <=> Enrolment!Init
  /\ EnrolmentProofs!Next <=> Enrolment!Next
  /\ EnrolmentProofs!vars = Enrolment!vars /\ (EnrolmentProofs!vars)' = (Enrolment!vars)'
  /\ EnrolmentProofs!WebSessionsAssumption
<1>1. EnrolmentProofs!Init <=> Enrolment!Init
  BY DEF EnrolmentProofs!Init, Enrolment!Init, EnrolmentProofs!IdleTask, Enrolment!IdleTask, EnrolmentProofs!NoSession, Enrolment!NoSession
<1>2. EnrolmentProofs!Next <=> Enrolment!Next
  BY DEF
    EnrolmentProofs!NoSession, EnrolmentProofs!IdleTask, EnrolmentProofs!Without,
    EnrolmentProofs!To, EnrolmentProofs!Done, EnrolmentProofs!Newer, EnrolmentProofs!StepsNear,
    EnrolmentProofs!Spent, EnrolmentProofs!LoginStart, EnrolmentProofs!LoginCode,
    EnrolmentProofs!LoginRecovery, EnrolmentProofs!Pending, EnrolmentProofs!Issue,
    EnrolmentProofs!Expired, EnrolmentProofs!Read, EnrolmentProofs!Expire,
    EnrolmentProofs!TouchedRow, EnrolmentProofs!Touch, EnrolmentProofs!Logout,
    EnrolmentProofs!Setup, EnrolmentProofs!EnableCode, EnrolmentProofs!SwitchedOn,
    EnrolmentProofs!SwitchOn, EnrolmentProofs!SaveCodes, EnrolmentProofs!Rotate,
    EnrolmentProofs!Password, EnrolmentProofs!Passes, EnrolmentProofs!Drop,
    EnrolmentProofs!Reset2faTotp, EnrolmentProofs!Reset2faCodes, EnrolmentProofs!Reset2faSessions,
    EnrolmentProofs!Reset2faStops, EnrolmentProofs!Next, Enrolment!NoSession, Enrolment!IdleTask,
    Enrolment!Without, Enrolment!To, Enrolment!Done, Enrolment!Newer, Enrolment!StepsNear,
    Enrolment!Spent, Enrolment!LoginStart, Enrolment!LoginCode, Enrolment!LoginRecovery,
    Enrolment!Pending, Enrolment!Issue, Enrolment!Expired, Enrolment!Read, Enrolment!Expire,
    Enrolment!TouchedRow, Enrolment!Touch, Enrolment!Logout, Enrolment!Setup, Enrolment!EnableCode,
    Enrolment!SwitchedOn, Enrolment!SwitchOn, Enrolment!SaveCodes, Enrolment!Rotate,
    Enrolment!Password, Enrolment!Passes, Enrolment!Drop, Enrolment!Reset2faTotp,
    Enrolment!Reset2faCodes, Enrolment!Reset2faSessions, Enrolment!Reset2faStops, Enrolment!Next
<1>3. EnrolmentProofs!vars = Enrolment!vars /\ (EnrolmentProofs!vars)' = (Enrolment!vars)'
  BY DEF EnrolmentProofs!vars, Enrolment!vars
<1>4. EnrolmentProofs!WebSessionsAssumption
  BY DEF EnrolmentProofs!WebSessionsAssumption
<1> QED
  BY <1>1, <1>2, <1>3, <1>4

LEMMA EnrolmentProved == Spec => EnrolmentProofs!Spec
<1>1. [Enrolment!Next]_(Enrolment!vars) <=> [EnrolmentProofs!Next]_(EnrolmentProofs!vars)
  BY EnrolmentSame
<1>2. EnrolmentProofs!Init <=> Enrolment!Init
  BY EnrolmentSame
<1> QED
  BY <1>1, <1>2, EnrolmentRuns, PTL DEF EnrolmentProofs!Spec

LEMMA ExpiryRuns == Spec => Expiry!Init /\ [][Expiry!Next]_(Expiry!vars)
<1>1. Init => Expiry!Init
  BY DEF Init
<1>2. [Next]_vars => [Expiry!Next]_(Expiry!vars)
  <2> SUFFICES ASSUME [Next]_vars PROVE [Expiry!Next]_(Expiry!vars)
    OBVIOUS
  <2>1. CASE ExpirySteps
    BY <2>1 DEF ExpirySteps
  <2>2. CASE UNCHANGED idleVars
    BY <2>2 DEF idleVars, Expiry!vars
  <2> QED
    BY <2>1, <2>2 DEF Next, vars, LoginSteps, EnrolmentSteps, SettingSteps, AccountSteps, CalendarSteps,
      ProfitSteps, ReportSteps
<1> QED
  BY <1>1, <1>2, PTL DEF Spec

LEMMA ExpirySame ==
  /\ ExpiryProofs!Init <=> Expiry!Init
  /\ ExpiryProofs!Next <=> Expiry!Next
  /\ ExpiryProofs!vars = Expiry!vars /\ (ExpiryProofs!vars)' = (Expiry!vars)'
  /\ ExpiryProofs!WebSessionsAssumption
<1>1. ExpiryProofs!Init <=> Expiry!Init
  BY DEF ExpiryProofs!Init, Expiry!Init, ExpiryProofs!IdleTask, Expiry!IdleTask, ExpiryProofs!NoSession, Expiry!NoSession
<1>2. ExpiryProofs!Next <=> Expiry!Next
  BY DEF
    ExpiryProofs!NoSession, ExpiryProofs!IdleTask, ExpiryProofs!Without, ExpiryProofs!To,
    ExpiryProofs!Done, ExpiryProofs!Newer, ExpiryProofs!StepsNear, ExpiryProofs!Spent,
    ExpiryProofs!LoginStart, ExpiryProofs!LoginCode, ExpiryProofs!LoginRecovery,
    ExpiryProofs!Pending, ExpiryProofs!Issue, ExpiryProofs!Expired, ExpiryProofs!Read,
    ExpiryProofs!Expire, ExpiryProofs!TouchedRow, ExpiryProofs!Touch, ExpiryProofs!Logout,
    ExpiryProofs!Setup, ExpiryProofs!EnableCode, ExpiryProofs!SwitchedOn, ExpiryProofs!SwitchOn,
    ExpiryProofs!SaveCodes, ExpiryProofs!Rotate, ExpiryProofs!Password, ExpiryProofs!Passes,
    ExpiryProofs!Drop, ExpiryProofs!Reset2faTotp, ExpiryProofs!Reset2faCodes,
    ExpiryProofs!Reset2faSessions, ExpiryProofs!Reset2faStops, ExpiryProofs!Next, Expiry!NoSession,
    Expiry!IdleTask, Expiry!Without, Expiry!To, Expiry!Done, Expiry!Newer, Expiry!StepsNear,
    Expiry!Spent, Expiry!LoginStart, Expiry!LoginCode, Expiry!LoginRecovery, Expiry!Pending,
    Expiry!Issue, Expiry!Expired, Expiry!Read, Expiry!Expire, Expiry!TouchedRow, Expiry!Touch,
    Expiry!Logout, Expiry!Setup, Expiry!EnableCode, Expiry!SwitchedOn, Expiry!SwitchOn,
    Expiry!SaveCodes, Expiry!Rotate, Expiry!Password, Expiry!Passes, Expiry!Drop,
    Expiry!Reset2faTotp, Expiry!Reset2faCodes, Expiry!Reset2faSessions, Expiry!Reset2faStops,
    Expiry!Next
<1>3. ExpiryProofs!vars = Expiry!vars /\ (ExpiryProofs!vars)' = (Expiry!vars)'
  BY DEF ExpiryProofs!vars, Expiry!vars
<1>4. ExpiryProofs!WebSessionsAssumption
  BY DEF ExpiryProofs!WebSessionsAssumption
<1> QED
  BY <1>1, <1>2, <1>3, <1>4

LEMMA ExpiryProved == Spec => ExpiryProofs!Spec
<1>1. [Expiry!Next]_(Expiry!vars) <=> [ExpiryProofs!Next]_(ExpiryProofs!vars)
  BY ExpirySame
<1>2. ExpiryProofs!Init <=> Expiry!Init
  BY ExpirySame
<1> QED
  BY <1>1, <1>2, ExpiryRuns, PTL DEF ExpiryProofs!Spec

\* However requests race with each other and with reset-2fa: a session that is not pending
\* has shown a code, no code lets two requests in, what is asked for at logins was proven,
\* and nothing is served past a session's limits.
THEOREM AccessIsKept == Spec => []AccessKept
<1>1. EnrolmentProofs!Spec => [](/\ EnrolmentProofs!TypeOK /\ EnrolmentProofs!FullNeedsCode
                                /\ EnrolmentProofs!CodesOnce /\ EnrolmentProofs!RecoveryOnce
                                /\ EnrolmentProofs!EnabledIsProven /\ EnrolmentProofs!ServedIsLive)
  BY EnrolmentProofs!AccessIsEarned, EnrolmentSame, PTL
<1>2. ExpiryProofs!Spec => [](/\ ExpiryProofs!TypeOK /\ ExpiryProofs!FullNeedsCode
                             /\ ExpiryProofs!CodesOnce /\ ExpiryProofs!RecoveryOnce
                             /\ ExpiryProofs!EnabledIsProven /\ ExpiryProofs!ServedIsLive)
  BY ExpiryProofs!AccessIsEarned, ExpirySame, PTL
<1>3. /\ EnrolmentProofs!TypeOK <=> Enrolment!TypeOK
      /\ EnrolmentProofs!FullNeedsCode <=> Enrolment!FullNeedsCode
      /\ EnrolmentProofs!CodesOnce <=> Enrolment!CodesOnce
      /\ EnrolmentProofs!RecoveryOnce <=> Enrolment!RecoveryOnce
      /\ EnrolmentProofs!EnabledIsProven <=> Enrolment!EnabledIsProven
  BY DEF EnrolmentProofs!TypeOK, EnrolmentProofs!FullNeedsCode, EnrolmentProofs!CodesOnce,
    EnrolmentProofs!RecoveryOnce, EnrolmentProofs!EnabledIsProven, EnrolmentProofs!Rows, Enrolment!TypeOK,
    Enrolment!FullNeedsCode, Enrolment!CodesOnce, Enrolment!RecoveryOnce, Enrolment!EnabledIsProven, Enrolment!Rows
<1>4. (ExpiryProofs!TypeOK <=> Expiry!TypeOK) /\ (ExpiryProofs!ServedIsLive <=> Expiry!ServedIsLive)
  BY DEF ExpiryProofs!TypeOK, ExpiryProofs!ServedIsLive, ExpiryProofs!Rows, Expiry!TypeOK, Expiry!ServedIsLive,
    Expiry!Rows
<1> HIDE DEF AccessKept
<1>5. /\ Enrolment!TypeOK /\ Enrolment!FullNeedsCode /\ Enrolment!CodesOnce /\ Enrolment!RecoveryOnce
      /\ Enrolment!EnabledIsProven /\ Expiry!TypeOK /\ Expiry!ServedIsLive
      => AccessKept
  BY DEF AccessKept
<1> QED
  BY <1>1, <1>2, <1>3, <1>4, <1>5, EnrolmentProved, ExpiryProved, PTL

\* A session that ended stays ended, and a snapshot that was recorded stays as it is.
THEOREM NothingIsUndone == Spec => NothingUndone
<1>1. EnrolmentProofs!Spec => EnrolmentProofs!NeverRevived
  BY EnrolmentProofs!EndedForGood, EnrolmentSame
<1>2. ExpiryProofs!Spec => ExpiryProofs!NeverRevived
  BY ExpiryProofs!EndedForGood, ExpirySame
<1> DEFINE Stays == \A id \in 1 .. made.sessions : id \notin DOMAIN sessions => id \notin DOMAIN sessions'
           IdleStays ==
             \A id \in 1 .. idleMade.sessions : id \notin DOMAIN idleSessions => id \notin DOMAIN idleSessions'
<1>3. [Stays]_(EnrolmentProofs!vars) => [Stays]_(Enrolment!vars)
  <2> HIDE DEF Stays
  <2> QED
    BY EnrolmentSame
<1>4. [IdleStays]_(ExpiryProofs!vars) => [IdleStays]_(Expiry!vars)
  <2> HIDE DEF IdleStays
  <2> QED
    BY ExpirySame
<1> QED
  BY <1>1, <1>2, <1>3, <1>4, EnrolmentProved, ExpiryProved, BooksRecorded, PTL
    DEF NothingUndone, EnrolmentProofs!NeverRevived, Enrolment!NeverRevived, ExpiryProofs!NeverRevived,
      Expiry!NeverRevived

=============================================================================

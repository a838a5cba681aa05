---------------------------- MODULE RecordsProofs ----------------------------
(***************************************************************************)
(* Theorems about what the server keeps on disk besides the status files:  *)
(* the manifest (Registry), the runs of each feed (Ingest), the settings   *)
(* and choices (Settings), the secrets (Vault); and about all of it        *)
(* together (MCRecordsOffice), however many feeds, sources, threads,       *)
(* restarts and calls.                                                     *)
(***************************************************************************)
EXTENDS MCRecordsOffice, StatusWorkersProofs, DataLemmas

-----------------------------------------------------------------------------
(* The registry. That keys are unique needs no more than one call to have    *)
(* the file open to write: whatever was lost or undone, add() checks the     *)
(* document it appends to. That routes lead somewhere needs `sound`: a       *)
(* call's check then still holds of the manifest when the call comes to load *)
(* it.                                                                       *)

Unique(doc) == \A i, j \in DOMAIN doc : doc[i].key = doc[j].key => i = j

Routed(doc) ==
    \A i \in DOMAIN doc : doc[i].carrier # 0 => doc[i].carrier \in KeysOf(doc)

(* The manifest, and each document that is about to be written, name a key   *)
(* once; and who is to write it has found it empty, or emptied it.           *)
KeyedInv ==
    /\ RegistryTypeOK
    /\ ~crossed =>
         /\ Unique(manifest)
         /\ \A t \in ToolThreads :
              /\ call[t].pc \in {"dump", "write"} => Unique(call[t].doc)
              /\ call[t].pc = "write" => manifest = <<>> /\ ~torn
         /\ \A t, u \in ToolThreads :
              call[t].pc = "write" /\ call[u].pc = "write" => t = u

(* What a call has checked is true of the document it is about to load. *)
Checked(c, doc) ==
    /\ c.op = "remove" => Users(doc, c.key) = {}
    /\ c.op = "route" /\ c.carrier # 0 => c.carrier \in KeysOf(doc)

(* A call knows what it may do next, and will write a document whose routes  *)
(* lead somewhere, and which is but for one key what the call has found.     *)
Prepared(c, doc) ==
    /\ c.pc \in {"forget", "load"} => Checked(c, doc) /\ c.services = doc
    /\ c.pc \in {"dump", "write"} =>
         Routed(c.doc) /\ Others(c.doc, c.key) = Others(c.services, c.key)

RoutedInv ==
    sound =>
      /\ ~crossed
      /\ Routed(manifest)
      /\ \A t, u \in ToolThreads : call[t] # Free /\ call[u] # Free => t = u
      /\ \A t \in ToolThreads : Prepared(call[t], manifest)

-----------------------------------------------------------------------------
(* A thread is in a call, or free. *)
LEMMA Busy ==
    ASSUME NEW c \in Calls \cup {Free}
    PROVE  /\ c # Free <=> c.pc # "free"
           /\ c # Free => c \in Calls
BY DEF Calls, Free

(* Of the entries of a key one is the first, and Place finds it. *)
LEMMA PlaceFound ==
    ASSUME NEW doc \in Seq(Entries), NEW k, k \in KeysOf(doc)
    PROVE  Place(doc, k) \in DOMAIN doc /\ doc[Place(doc, k)].key = k
<1> DEFINE At == {i \in DOMAIN doc : doc[i].key = k}
<1>1. At # {} /\ At \subseteq Nat
  BY DEF KeysOf
<1>2. PICK i \in At : \A j \in At : i <= j
  BY <1>1, Least
<1>3. \A j \in 1..(i - 1) : j \in DOMAIN doc /\ ~(i <= j)
  BY <1>2
<1>4. \A j \in 1..(i - 1) : doc[j].key # k
  BY <1>2, <1>3
<1> QED
  BY <1>2, <1>4 DEF Place

(* Two documents have the same other entries in the same order, if each pair *)
(* of such entries of the one is a pair of the other.                        *)
LEMMA SameOthers ==
    ASSUME NEW doc, NEW new, NEW k,
           \A a, b \in DOMAIN new :
             new[a].key # k /\ new[b].key # k /\ a <= b =>
               \E l, m \in DOMAIN doc : l <= m /\ doc[l] = new[a] /\ doc[m] = new[b],
           \A a, b \in DOMAIN doc :
             doc[a].key # k /\ doc[b].key # k /\ a <= b =>
               \E l, m \in DOMAIN new : l <= m /\ new[l] = doc[a] /\ new[m] = doc[b]
    PROVE  Others(new, k) = Others(doc, k)
<1>1. ASSUME NEW d, NEW x
      PROVE  x \in Others(d, k) <=>
               \E l, m \in DOMAIN d : /\ d[l].key # k /\ d[m].key # k /\ l <= m
                                      /\ x = <<d[l], d[m]>>
  <2> DEFINE at == {i \in DOMAIN d : d[i].key # k}
             Z == {y \in at \X at : y[1] <= y[2]}
  <2>1. Others(d, k) = {<<d[y[1]], d[y[2]]>> : y \in Z}
    BY DEF Others
  <2>2. ASSUME x \in Others(d, k)
        PROVE  \E l, m \in at : l <= m /\ x = <<d[l], d[m]>>
    <3>1. PICK y \in Z : x = <<d[y[1]], d[y[2]]>>
      BY <2>1, <2>2
    <3>2. y[1] \in at /\ y[2] \in at /\ y[1] <= y[2]
      BY <3>1
    <3> QED
      BY <3>1, <3>2
  <2>3. ASSUME NEW l \in at, NEW m \in at, l <= m, x = <<d[l], d[m]>>
        PROVE  x \in Others(d, k)
    <3>1. <<l, m>> \in Z
      BY <2>3
    <3>2. <<d[<<l, m>>[1]], d[<<l, m>>[2]]>> \in Others(d, k)
      BY <2>1, <3>1
    <3> QED
      BY <2>3, <3>2
  <2> QED
    BY <2>2, <2>3
<1>2. ASSUME NEW x \in Others(new, k) PROVE x \in Others(doc, k)
  <2>1. PICK a, b \in DOMAIN new : /\ new[a].key # k /\ new[b].key # k /\ a <= b
                                   /\ x = <<new[a], new[b]>>
    BY <1>1
  <2>2. PICK l, m \in DOMAIN doc : l <= m /\ doc[l] = new[a] /\ doc[m] = new[b]
    BY <2>1
  <2> QED
    BY <1>1, <2>1, <2>2
<1>3. ASSUME NEW x \in Others(doc, k) PROVE x \in Others(new, k)
  <2>1. PICK a, b \in DOMAIN doc : /\ doc[a].key # k /\ doc[b].key # k /\ a <= b
                                   /\ x = <<doc[a], doc[b]>>
    BY <1>1
  <2>2. PICK l, m \in DOMAIN new : l <= m /\ new[l] = doc[a] /\ new[m] = doc[b]
    BY <2>1
  <2> QED
    BY <1>1, <2>1, <2>2
<1> QED
  BY <1>2, <1>3

(* One more entry, of a key that was not there. *)
LEMMA Added ==
    ASSUME NEW doc \in Seq(Entries), NEW k \in Keys, k \notin KeysOf(doc)
    PROVE  LET new == Append(doc, NewEntry(k))
           IN  /\ new \in Seq(Entries) /\ (Unique(doc) => Unique(new))
               /\ Routed(doc) => Routed(new)
               /\ Others(new, k) = Others(doc, k)
<1> DEFINE new == Append(doc, NewEntry(k))
<1>1. NewEntry(k) \in Entries /\ NewEntry(k).key = k /\ NewEntry(k).carrier = 0
  BY RegistryAssumption DEF NewEntry, Entries
<1>2. /\ new \in Seq(Entries) /\ DOMAIN new = 1..(Len(doc) + 1)
      /\ DOMAIN doc = 1..Len(doc) /\ Len(doc) \in Nat
      /\ \A i \in DOMAIN doc : i \in DOMAIN new /\ new[i] = doc[i]
      /\ new[Len(doc) + 1] = NewEntry(k)
  BY <1>1, AppendProperties
<1>3. \A i \in DOMAIN new : i \in DOMAIN doc \/ i = Len(doc) + 1
  BY <1>2
<1> HIDE DEF new
<1>4. Unique(doc) => Unique(new)
  BY <1>1, <1>2, <1>3 DEF Unique, KeysOf
<1>5. ASSUME Routed(doc) PROVE Routed(new)
  <2>1. KeysOf(doc) \subseteq KeysOf(new)
    BY <1>2 DEF KeysOf
  <2> QED
    BY <1>1, <1>2, <1>3, <1>5, <2>1 DEF Routed
<1>6. Others(new, k) = Others(doc, k)
  <2>1. ASSUME NEW a \in DOMAIN new, new[a].key # k
        PROVE  a \in DOMAIN doc /\ new[a] = doc[a]
    BY <1>1, <1>2, <1>3, <2>1
  <2> QED
    BY <1>2, <2>1, SameOthers
<1> QED
  BY <1>2, <1>4, <1>5, <1>6 DEF new

(* One entry fewer, that no other is routed to. *)
LEMMA Removed ==
    ASSUME NEW doc \in Seq(Entries), NEW k, k \in KeysOf(doc)
    PROVE  LET i == Place(doc, k)
               new == SubSeq(doc, 1, i - 1) \o SubSeq(doc, i + 1, Len(doc))
           IN  /\ new \in Seq(Entries) /\ (Unique(doc) => Unique(new))
               /\ Routed(doc) /\ Users(doc, k) = {} => Routed(new)
               /\ Others(new, k) = Others(doc, k)
<1> DEFINE i == Place(doc, k)
           left == SubSeq(doc, 1, i - 1)
           right == SubSeq(doc, i + 1, Len(doc))
           new == left \o right
<1>1. i \in 1..Len(doc) /\ doc[i].key = k /\ Len(doc) \in Nat
      /\ DOMAIN doc = 1..Len(doc)
  BY PlaceFound, LenProperties
<1>0. \A j \in 1..Len(doc) : doc[j] \in Entries
  BY <1>1, ElementOfSeq
<1> HIDE DEF i
<1>2. /\ left \in Seq(Entries) /\ Len(left) = i - 1
      /\ \A j \in 1..(i - 1) : left[j] = doc[j]
  <2>1. 1 \in Int /\ i - 1 \in Int /\ \A j \in 1..(i - 1) : doc[j] \in Entries
    BY <1>1, <1>0
  <2>2. /\ left \in Seq(Entries)
        /\ Len(left) = IF 1 <= i - 1 THEN (i - 1) - 1 + 1 ELSE 0
        /\ \A j \in 1..((i - 1) - 1 + 1) : left[j] = doc[1 + j - 1]
    BY <2>1, SubSeqProperties
  <2> HIDE DEF left
  <2>3. (i - 1) - 1 + 1 = i - 1 /\ \A j \in 1..(i - 1) : 1 + j - 1 = j
    BY <1>1
  <2> QED
    BY <1>1, <2>2, <2>3
<1>3. /\ right \in Seq(Entries) /\ Len(right) = Len(doc) - i
      /\ \A j \in 1..(Len(doc) - i) : right[j] = doc[i + j]
  <2>1. i + 1 \in Int /\ Len(doc) \in Int
        /\ \A j \in (i + 1)..Len(doc) : doc[j] \in Entries
    BY <1>1, <1>0
  <2>2. /\ right \in Seq(Entries)
        /\ Len(right) = IF i + 1 <= Len(doc) THEN Len(doc) - (i + 1) + 1 ELSE 0
        /\ \A j \in 1..(Len(doc) - (i + 1) + 1) : right[j] = doc[(i + 1) + j - 1]
    BY <2>1, SubSeqProperties
  <2> HIDE DEF right
  <2>3. Len(doc) - (i + 1) + 1 = Len(doc) - i
    BY <1>1
  <2>4. Len(right) = Len(doc) - i
    <3>1. CASE i + 1 <= Len(doc)
      BY <3>1, <2>2, <2>3
    <3>2. CASE i = Len(doc)
      <4>1. ~(i + 1 <= Len(doc)) /\ Len(doc) - i = 0
        BY <3>2, <1>1
      <4>2. Len(right) = IF i + 1 <= Len(doc) THEN Len(doc) - (i + 1) + 1 ELSE 0
        BY <2>2
      <4>3. Len(right) = 0
        BY <4>1, <4>2, Zenon
      <4> QED
        BY <4>1, <4>3
    <3>3. i + 1 <= Len(doc) \/ i = Len(doc)
      <4>1. i \in Int /\ Len(doc) \in Int /\ i <= Len(doc)
        BY <1>1
      <4> QED
        BY <4>1
    <3> QED
      BY <3>1, <3>2, <3>3
  <2>5. ASSUME NEW j \in 1..(Len(doc) - i) PROVE right[j] = doc[i + j]
    <3>1. (i + 1) + j - 1 = i + j
      BY <1>1
    <3>2. right[j] = doc[(i + 1) + j - 1]
      BY <2>2, <2>3
    <3> QED
      BY <3>1, <3>2
  <2> QED
    BY <2>2, <2>4, <2>5
<1> HIDE DEF left, right
<1>4. /\ new \in Seq(Entries) /\ Len(new) = Len(doc) - 1
      /\ \A j \in 1..(Len(left) + Len(right)) :
           new[j] = IF j <= Len(left) THEN left[j] ELSE right[j - Len(left)]
  <2>1. left \in Seq(Entries) /\ right \in Seq(Entries)
    BY <1>2, <1>3
  <2>2. /\ new \in Seq(Entries) /\ Len(new) = Len(left) + Len(right)
        /\ \A j \in 1..(Len(left) + Len(right)) :
             new[j] = IF j <= Len(left) THEN left[j] ELSE right[j - Len(left)]
    BY <2>1, ConcatProperties
  <2>3. Len(left) + Len(right) = Len(doc) - 1
    BY <1>1, <1>2, <1>3
  <2> QED
    BY <2>2, <2>3
<1> HIDE DEF new
<1>5. /\ DOMAIN new = 1..(Len(doc) - 1)
      /\ \A j \in DOMAIN new :
           /\ j < i => new[j] = doc[j]
           /\ j >= i => new[j] = doc[j + 1]
  <2>1. DOMAIN new = 1..(Len(doc) - 1) /\ Len(left) + Len(right) = Len(doc) - 1
    BY <1>1, <1>2, <1>3, <1>4, LenProperties
  <2>2. ASSUME NEW j \in DOMAIN new, j < i PROVE new[j] = doc[j]
    BY <2>1, <2>2, <1>1, <1>2, <1>4
  <2>3. ASSUME NEW j \in DOMAIN new, j >= i PROVE new[j] = doc[j + 1]
    <3>1. new[j] = right[j - (i - 1)]
      BY <2>1, <2>3, <1>1, <1>2, <1>4
    <3>2. j - (i - 1) \in 1..(Len(doc) - i) /\ i + (j - (i - 1)) = j + 1
      BY <2>1, <2>3, <1>1
    <3> QED
      BY <3>1, <3>2, <1>3
  <2> QED
    BY <2>1, <2>2, <2>3
<1>6. \A l \in DOMAIN doc : l # i =>
        \E j \in DOMAIN new : new[j] = doc[l] /\ l = IF j < i THEN j ELSE j + 1
  <2> SUFFICES ASSUME NEW l \in DOMAIN doc, l # i
               PROVE  \E j \in DOMAIN new :
                        new[j] = doc[l] /\ l = IF j < i THEN j ELSE j + 1
    OBVIOUS
  <2>1. CASE l < i
    <3>1. l \in DOMAIN new
      BY <2>1, <1>1, <1>5
    <3> QED
      BY <2>1, <3>1, <1>5
  <2>2. CASE l > i
    <3>1. /\ l - 1 \in DOMAIN new /\ l - 1 >= i /\ (l - 1) + 1 = l
          /\ ~(l - 1 < i)
      BY <2>2, <1>1, <1>5
    <3> QED
      BY <3>1, <1>5
  <2> QED
    BY <2>1, <2>2, <1>1
<1>7. \A a \in DOMAIN new :
        \E l \in DOMAIN doc : l # i /\ new[a] = doc[l] /\ l = IF a < i THEN a ELSE a + 1
  <2> SUFFICES ASSUME NEW a \in DOMAIN new
               PROVE  \E l \in DOMAIN doc :
                        l # i /\ new[a] = doc[l] /\ l = IF a < i THEN a ELSE a + 1
    OBVIOUS
  <2>1. CASE a < i
    <3>1. a \in DOMAIN doc /\ a # i /\ new[a] = doc[a]
      BY <2>1, <1>1, <1>5
    <3> QED
      BY <2>1, <3>1
  <2>2. CASE a >= i
    <3>1. a + 1 \in DOMAIN doc /\ a + 1 # i /\ new[a] = doc[a + 1] /\ ~(a < i)
      BY <2>2, <1>1, <1>5
    <3> QED
      BY <2>2, <3>1
  <2> QED
    BY <2>1, <2>2, <1>1, <1>5
<1>8. ASSUME Unique(doc) PROVE Unique(new)
  <2> SUFFICES ASSUME NEW a \in DOMAIN new, NEW b \in DOMAIN new,
                      new[a].key = new[b].key
               PROVE  a = b
    BY DEF Unique
  <2>1. PICK l \in DOMAIN doc :
          l # i /\ new[a] = doc[l] /\ l = IF a < i THEN a ELSE a + 1
    BY <1>7
  <2>2. PICK m \in DOMAIN doc :
          m # i /\ new[b] = doc[m] /\ m = IF b < i THEN b ELSE b + 1
    BY <1>7
  <2>3. l = m
    BY <1>8, <2>1, <2>2 DEF Unique
  <2> QED
    BY <2>1, <2>2, <2>3, <1>1, <1>5
<1>9. ASSUME Routed(doc), Users(doc, k) = {} PROVE Routed(new)
  <2> SUFFICES ASSUME NEW a \in DOMAIN new, new[a].carrier # 0
               PROVE  new[a].carrier \in KeysOf(new)
    BY DEF Routed
  <2>1. PICK m \in DOMAIN doc : new[a] = doc[m]
    BY <1>7
  <2>2. new[a].carrier \in KeysOf(doc) /\ new[a].carrier # k
    BY <2>1, <1>9 DEF Routed, Users
  <2>3. PICK l \in DOMAIN doc : doc[l].key = new[a].carrier
    BY <2>2 DEF KeysOf
  <2>4. l # i
    BY <2>2, <2>3, <1>1
  <2>5. PICK j \in DOMAIN new : new[j] = doc[l]
    BY <2>4, <1>6
  <2> QED
    BY <2>3, <2>5 DEF KeysOf
<1>10. Others(new, k) = Others(doc, k)
  <2>1. ASSUME NEW a \in DOMAIN new, NEW b \in DOMAIN new, a <= b
        PROVE  \E l, m \in DOMAIN doc : l <= m /\ doc[l] = new[a] /\ doc[m] = new[b]
    <3>1. PICK l \in DOMAIN doc :
            l # i /\ new[a] = doc[l] /\ l = IF a < i THEN a ELSE a + 1
      BY <1>7
    <3>2. PICK m \in DOMAIN doc :
            m # i /\ new[b] = doc[m] /\ m = IF b < i THEN b ELSE b + 1
      BY <1>7
    <3>3. l <= m
      BY <1>1, <1>5, <2>1, <3>1, <3>2
    <3> QED
      BY <3>1, <3>2, <3>3
  <2>2. ASSUME NEW a \in DOMAIN doc, NEW b \in DOMAIN doc,
               doc[a].key # k, doc[b].key # k, a <= b
        PROVE  \E l, m \in DOMAIN new : l <= m /\ new[l] = doc[a] /\ new[m] = doc[b]
    <3>1. a # i /\ b # i
      BY <1>1, <2>2
    <3>2. PICK l \in DOMAIN new : new[l] = doc[a] /\ a = IF l < i THEN l ELSE l + 1
      BY <1>6, <3>1
    <3>3. PICK m \in DOMAIN new : new[m] = doc[b] /\ b = IF m < i THEN m ELSE m + 1
      BY <1>6, <3>1
    <3>4. l <= m
      BY <1>1, <1>5, <2>2, <3>2, <3>3
    <3> QED
      BY <3>2, <3>3, <3>4
  <2> QED
    BY <2>1, <2>2, SameOthers
<1> QED
  BY <1>4, <1>8, <1>9, <1>10 DEF new, left, right, i

(* One entry changed, but for its key. *)
LEMMA Replaced ==
    ASSUME NEW doc \in Seq(Entries), NEW i \in DOMAIN doc,
           NEW e \in Entries, e.key = doc[i].key
    PROVE  LET new == [doc EXCEPT ![i] = e]
           IN  /\ new \in Seq(Entries) /\ (Unique(doc) => Unique(new))
               /\ Routed(doc) /\ (e.carrier # 0 => e.carrier \in KeysOf(doc))
                    => Routed(new)
               /\ Others(new, e.key) = Others(doc, e.key)
<1> DEFINE new == [doc EXCEPT ![i] = e]
<1>1. /\ new \in Seq(Entries) /\ DOMAIN new = DOMAIN doc
      /\ \A j \in DOMAIN doc : new[j] = IF j = i THEN e ELSE doc[j]
  BY ExceptSeq, LenProperties
<1> HIDE DEF new
<1>2. \A j \in DOMAIN doc : new[j].key = doc[j].key
  BY <1>1
<1>3. KeysOf(new) = KeysOf(doc)
  BY <1>1, <1>2 DEF KeysOf
<1>4. /\ Unique(doc) => Unique(new)
      /\ Routed(doc) /\ (e.carrier # 0 => e.carrier \in KeysOf(doc)) => Routed(new)
  BY <1>1, <1>2, <1>3 DEF Unique, Routed
<1>5. Others(new, e.key) = Others(doc, e.key)
  <2>1. \A j \in DOMAIN doc : new[j].key # e.key \/ doc[j].key # e.key => new[j] = doc[j]
    BY <1>1
  <2> QED
    BY <1>1, <2>1, SameOthers
<1> QED
  BY <1>1, <1>4, <1>5 DEF new

(* What a method makes of a document it may change. *)
LEMMA ChangedFits ==
    ASSUME NEW doc \in Seq(Entries), NEW c \in Calls, Allowed(doc, c)
    PROVE  /\ Changed(doc, c) \in Seq(Entries)
           /\ Unique(doc) => Unique(Changed(doc, c))
           /\ Routed(doc)
              /\ (c.op = "remove" => Users(doc, c.key) = {})
              /\ (c.op = "route" /\ c.carrier # 0 => c.carrier \in KeysOf(doc))
                => Routed(Changed(doc, c))
           /\ Others(Changed(doc, c), c.key) = Others(doc, c.key)
<1> DEFINE i == Place(doc, c.key)
<1>1. c.key \in Keys /\ c.carrier \in 0..MaxInbox
      /\ c.op \in {"add", "rename", "remove", "route"}
  BY DEF Calls
<1>2. CASE c.op = "add"
  <2>1. c.key \notin KeysOf(doc) /\ Changed(doc, c) = Append(doc, NewEntry(c.key))
    BY <1>2 DEF Allowed, Changed
  <2> QED
    BY <2>1, <1>1, <1>2, Added
<1>3. ASSUME c.op # "add" PROVE c.key \in KeysOf(doc) /\ i \in DOMAIN doc
                                 /\ doc[i].key = c.key /\ doc[i] \in Entries
  BY <1>3, PlaceFound DEF Allowed
<1>4. CASE c.op = "remove"
  <2>1. Changed(doc, c) = SubSeq(doc, 1, i - 1) \o SubSeq(doc, i + 1, Len(doc))
    BY <1>4 DEF Changed
  <2> QED
    BY <2>1, <1>3, <1>4, Removed
<1>5. CASE c.op = "rename"
  <2> DEFINE e == [doc[i] EXCEPT !.label = "changed"]
  <2>1. e \in Entries /\ e.key = doc[i].key /\ e.carrier = doc[i].carrier
    BY <1>3, <1>5 DEF Entries
  <2>2. Changed(doc, c) = [doc EXCEPT ![i] = e]
    BY <1>5 DEF Changed
  <2>3. Routed(doc) => (e.carrier # 0 => e.carrier \in KeysOf(doc))
    BY <2>1, <1>3, <1>5 DEF Routed
  <2>4. e.key = c.key
    BY <2>1, <1>3, <1>5
  <2> HIDE DEF e, i
  <2>5. /\ Changed(doc, c) \in Seq(Entries)
        /\ Unique(doc) => Unique(Changed(doc, c))
        /\ Others(Changed(doc, c), c.key) = Others(doc, c.key)
        /\ Routed(doc) /\ (e.carrier # 0 => e.carrier \in KeysOf(doc))
             => Routed(Changed(doc, c))
    <3> DEFINE new == [doc EXCEPT ![i] = e]
    <3>1. i \in DOMAIN doc /\ e \in Entries /\ e.key = doc[i].key
      BY <2>1, <1>3, <1>5
    <3>2. /\ new \in Seq(Entries) /\ (Unique(doc) => Unique(new))
          /\ Others(new, e.key) = Others(doc, e.key)
          /\ Routed(doc) /\ (e.carrier # 0 => e.carrier \in KeysOf(doc)) => Routed(new)
      BY <3>1, Replaced
    <3>3. Changed(doc, c) = new
      BY <2>2
    <3> HIDE DEF new
    <3> QED
      BY <3>2, <3>3, <2>4
  <2> QED
    BY <2>3, <2>5
<1>6. CASE c.op = "route"
  <2> DEFINE e == [doc[i] EXCEPT !.carrier = c.carrier]
  <2>1. e \in Entries /\ e.key = doc[i].key /\ e.carrier = c.carrier
    BY <1>1, <1>3, <1>6 DEF Entries
  <2>2. Changed(doc, c) = [doc EXCEPT ![i] = e]
    BY <1>6 DEF Changed
  <2>3. e.key = c.key
    BY <2>1, <1>3, <1>6
  <2> HIDE DEF e, i
  <2>4. /\ Changed(doc, c) \in Seq(Entries)
        /\ Unique(doc) => Unique(Changed(doc, c))
        /\ Others(Changed(doc, c), c.key) = Others(doc, c.key)
        /\ Routed(doc) /\ (e.carrier # 0 => e.carrier \in KeysOf(doc))
             => Routed(Changed(doc, c))
    <3> DEFINE new == [doc EXCEPT ![i] = e]
    <3>1. i \in DOMAIN doc /\ e \in Entries /\ e.key = doc[i].key
      BY <2>1, <1>3, <1>6
    <3>2. /\ new \in Seq(Entries) /\ (Unique(doc) => Unique(new))
          /\ Others(new, e.key) = Others(doc, e.key)
          /\ Routed(doc) /\ (e.carrier # 0 => e.carrier \in KeysOf(doc)) => Routed(new)
      BY <3>1, Replaced
    <3>3. Changed(doc, c) = new
      BY <2>2
    <3> HIDE DEF new
    <3> QED
      BY <3>2, <3>3, <2>3
  <2> QED
    BY <2>1, <2>4, <1>6
<1> QED
  BY <1>1, <1>2, <1>4, <1>5, <1>6

-----------------------------------------------------------------------------
(* The actions keep the types, and the keys of every document unique. *)
LEMMA KeyedInit == RegistryInit => KeyedInv
<1> SUFFICES ASSUME RegistryInit PROVE KeyedInv
  OBVIOUS
<1>1. RegistryTypeOK
  <2>1. <<>> \in Seq(Entries)
    BY EmptySeq
  <2>2. crashes \in 0..MaxCrashes
    BY RegistryAssumption DEF RegistryInit
  <2> QED
    BY <2>1, <2>2 DEF RegistryInit, RegistryTypeOK
<1>2. Unique(manifest)
  BY DEF RegistryInit, Unique
<1>3. \A t \in ToolThreads : call[t].pc = "free"
  BY DEF RegistryInit, Free
<1> QED
  BY <1>1, <1>2, <1>3 DEF KeyedInv

(* A call that begins. *)
LEMMA KeyedBegins ==
    ASSUME KeyedInv, NEW t \in ToolThreads, NEW op \in {"add", "rename", "remove", "route"},
           NEW k \in Keys, NEW c \in 0..MaxInbox, NEW pc \in {"forget", "load"},
           Begins(t, op, k, c, pc)
    PROVE  KeyedInv'
<1> DEFINE new == [pc |-> pc, op |-> op, key |-> k, carrier |-> c,
                   services |-> manifest, doc |-> <<>>]
<1>1. new \in Calls /\ new.pc = pc
  BY EmptySeq DEF KeyedInv, RegistryTypeOK, Calls
<1>2. call' = [call EXCEPT ![t] = new]
  BY DEF Begins
<1> HIDE DEF new
<1> QED
  BY <1>1, <1>2 DEF Begins, KeyedInv, RegistryTypeOK, Unique

(* What two writers leave is a document too. *)
LEMMA OverlaidType ==
    ASSUME NEW doc \in Seq(Entries), NEW old \in Seq(Entries),
           NEW new \in Overlaid(doc, old)
    PROVE  new \in Seq(Entries)
<1>1. CASE new = doc
  BY <1>1
<1>2. CASE \E i \in 2..Len(old) : new = doc \o SubSeq(old, i, Len(old))
  <2>1. PICK i \in 2..Len(old) : new = doc \o SubSeq(old, i, Len(old))
    BY <1>2
  <2>2. i \in Int /\ Len(old) \in Int /\ \A j \in i..Len(old) : old[j] \in Entries
    BY <2>1, LenProperties, ElementOfSeq
  <2>3. SubSeq(old, i, Len(old)) \in Seq(Entries)
    BY <2>2, SubSeqProperties
  <2> QED
    BY <2>1, <2>3, ConcatProperties
<1> QED
  BY <1>1, <1>2 DEF Overlaid

LEMMA KeyedStep == KeyedInv /\ [RegistryNext]_registryVars => KeyedInv'
<1> SUFFICES ASSUME KeyedInv, [RegistryNext]_registryVars PROVE KeyedInv'
  OBVIOUS
<1>0. /\ Inbox \subseteq Keys /\ MailSources \subseteq Keys
      /\ Inbox \cup {0} \subseteq 0..MaxInbox
  BY RegistryAssumption DEF Keys, Inbox
<1>1. ASSUME NEW t \in ToolThreads, AddInbox(t) PROVE KeyedInv'
  <2>1. PICK k \in Inbox : Begins(t, "add", k, 0, "load")
    BY <1>1 DEF AddInbox
  <2> QED
    BY <2>1, <1>0, KeyedBegins
<1>2. ASSUME NEW t \in ToolThreads, NEW k \in Inbox, RenameInbox(t, k)
      PROVE  KeyedInv'
  BY <1>2, <1>0, KeyedBegins DEF RenameInbox
<1>3. ASSUME NEW t \in ToolThreads, NEW k \in Inbox, DeleteInbox(t, k)
      PROVE  KeyedInv'
  BY <1>3, <1>0, KeyedBegins DEF DeleteInbox
<1>4. ASSUME NEW t \in ToolThreads, NEW s \in MailSources, RemoveEmailSearch(t, s)
      PROVE  KeyedInv'
  BY <1>4, <1>0, KeyedBegins DEF RemoveEmailSearch
<1>5. ASSUME NEW t \in ToolThreads, NEW s \in MailSources, NEW k \in Inbox,
             SaveEmailSearch(t, s, k)
      PROVE  KeyedInv'
  BY <1>5, <1>0, KeyedBegins DEF SaveEmailSearch
<1>6. ASSUME NEW t \in ToolThreads, NEW s \in MailSources,
             NEW k \in Inbox \cup {0}, AddSource(t, s, k)
      PROVE  KeyedInv'
  BY <1>6, <1>0, KeyedBegins DEF AddSource
<1> USE DEF KeyedInv, RegistryTypeOK, Unique
<1>7. ASSUME NEW t \in ToolThreads, Forget(t) PROVE KeyedInv'
  <2>1. call[t] \in Calls
    BY <1>7, Busy DEF Forget, Free
  <2>2. [call[t] EXCEPT !.pc = "load"] \in Calls
    BY <2>1 DEF Calls
  <2> QED
    BY <1>7, <2>2 DEF Forget, Goes
<1>8. ASSUME NEW t \in ToolThreads, Load(t) PROVE KeyedInv'
  <2>1. call[t] \in Calls
    BY <1>8, Busy DEF Load, Free
  <2>2. CASE ~torn /\ Allowed(manifest, call[t])
    <3> DEFINE new == [call[t] EXCEPT !.doc = Changed(manifest, call[t]),
                                      !.pc = "dump"]
    <3>1. /\ Changed(manifest, call[t]) \in Seq(Entries)
          /\ ~crossed => Unique(Changed(manifest, call[t]))
      BY <2>1, <2>2, ChangedFits
    <3>2. new \in Calls /\ new.doc = Changed(manifest, call[t])
      BY <2>1, <3>1 DEF Calls
    <3>3. /\ call' = [call EXCEPT ![t] = new]
          /\ UNCHANGED <<manifest, torn, signedIn, crashes, sound, crossed>>
      BY <1>8, <2>2 DEF Load
    <3>4. new.pc = "dump"
      BY <2>1 DEF Calls
    <3> HIDE DEF new
    <3>5. /\ call' \in [ToolThreads -> Calls \cup {Free}]
          /\ call'[t] = new /\ \A u \in ToolThreads \ {t} : call'[u] = call[u]
      BY <3>2, <3>3
    <3>6. RegistryTypeOK'
      BY <3>3, <3>5 DEF RegistryTypeOK
    <3>7. ASSUME ~crossed, NEW u \in ToolThreads
          PROVE  /\ call'[u].pc \in {"dump", "write"} => Unique(call'[u].doc)
                 /\ call'[u].pc = "write" => call[u].pc = "write"
      <4>1. CASE u = t
        BY <3>1, <3>2, <3>4, <3>5, <3>7, <4>1
      <4>2. CASE u # t
        BY <3>5, <3>7, <4>2
      <4> QED
        BY <4>1, <4>2
    <3>8. Unique(manifest') <=> Unique(manifest)
      BY <3>3
    <3> QED
      BY <3>3, <3>6, <3>7, <3>8
  <2>3. CASE ~(~torn /\ Allowed(manifest, call[t]))
    BY <1>8, <2>3 DEF Load, Returns, Free
  <2> QED
    BY <2>2, <2>3
<1>9. ASSUME NEW t \in ToolThreads, Truncate(t) PROVE KeyedInv'
  <2>1. call[t] \in Calls /\ (~crossed => Unique(call[t].doc))
    BY <1>9, Busy DEF Truncate, Free
  <2> DEFINE new == [call[t] EXCEPT !.pc = "write"]
  <2>2. new \in Calls /\ new.doc = call[t].doc /\ call' = [call EXCEPT ![t] = new]
    BY <1>9, <2>1 DEF Calls, Truncate, Goes
  <2>3. /\ manifest' \in Seq(Entries) /\ manifest' = <<>> /\ torn' = FALSE
        /\ crossed' \in BOOLEAN
        /\ ~crossed' => ~crossed /\ \A u \in ToolThreads \ {t} : call[u].pc # "write"
    BY <1>9, EmptySeq DEF Truncate
  <2> HIDE DEF new
  <2>4. ASSUME ~crossed', NEW u \in ToolThreads
        PROVE  /\ call'[u].pc \in {"dump", "write"} => Unique(call'[u].doc)
               /\ call'[u].pc = "write" => u = t
    BY <2>1, <2>2, <2>3, <2>4
  <2>5. call' \in [ToolThreads -> Calls \cup {Free}]
    BY <2>2
  <2>6. Unique(manifest')
    BY <2>3
  <2>7. RegistryTypeOK'
    BY <1>9, <2>3, <2>5 DEF Truncate
  <2> QED
    BY <2>3, <2>4, <2>6, <2>7
<1>10. ASSUME NEW t \in ToolThreads, Write(t) PROVE KeyedInv'
  <2>1. /\ call[t] \in Calls /\ call[t].doc \in Seq(Entries)
        /\ call[t].pc = "write"
    BY <1>10, Busy DEF Write, Free, Calls
  <2>2. manifest' \in Seq(Entries) /\ torn' \in BOOLEAN
    BY <1>10, <2>1, OverlaidType DEF Write
  <2>3. ~crossed => manifest' = call[t].doc /\ Unique(manifest')
    BY <1>10, <2>1 DEF Write
  <2> DEFINE new == [call[t] EXCEPT !.pc = "search"]
  <2>4. /\ new \in Calls /\ new.pc = "search" /\ Free.pc = "free"
        /\ call' = [call EXCEPT ![t] = new] \/ call' = [call EXCEPT ![t] = Free]
    BY <1>10, <2>1 DEF Calls, Write, Goes, Returns, Free
  <2> HIDE DEF new
  <2>5. /\ call' \in [ToolThreads -> Calls \cup {Free}]
        /\ \A u \in ToolThreads :
             call'[u].pc \in {"dump", "write"} => u # t /\ call'[u] = call[u]
    BY <2>4
  <2>6. RegistryTypeOK'
    BY <1>10, <2>2, <2>5 DEF Write
  <2>7. ~crossed => \A u \in ToolThreads : call'[u].pc # "write"
    BY <2>1, <2>5
  <2>8. crossed' = crossed
    BY <1>10 DEF Write
  <2> QED
    BY <2>3, <2>5, <2>6, <2>7, <2>8
<1>11. ASSUME NEW t \in ToolThreads, Search(t) PROVE KeyedInv'
  <2>1. call[t] \in Calls
    BY <1>11, Busy DEF Search, Free
  <2> DEFINE new == [call[t] EXCEPT !.op = "route", !.pc = "load",
                                    !.services = manifest]
  <2>2. new \in Calls /\ new.pc = "load"
    BY <2>1 DEF Calls
  <2>3. call' = [call EXCEPT ![t] = new] \/ call' = [call EXCEPT ![t] = Free]
    BY <1>11 DEF Search, Returns
  <2> HIDE DEF new
  <2> QED
    BY <1>11, <2>2, <2>3 DEF Search, Free
<1>12. ASSUME NEW k \in Inbox, SignIn(k) PROVE KeyedInv'
  BY <1>12 DEF SignIn
<1>13. CASE Crash
  <2>1. crashes' \in 0..MaxCrashes
    BY <1>13, RegistryAssumption DEF Crash
  <2> QED
    BY <1>13, <2>1 DEF Crash, Free
<1>14. CASE UNCHANGED registryVars
  BY <1>14 DEF registryVars
<1> QED
  BY <1>1, <1>2, <1>3, <1>4, <1>5, <1>6, <1>7, <1>8, <1>9, <1>10, <1>11, <1>12,
     <1>13, <1>14 DEF RegistryNext, RegistryCall

LEMMA KeyedHolds == RegistrySpec => []KeyedInv
BY KeyedInit, KeyedStep, PTL DEF RegistrySpec

(* Every variable of the registry keeps its type. *)
THEOREM RegistryTyped == RegistrySpec => []RegistryTypeOK
<1>1. KeyedInv => RegistryTypeOK
  BY DEF KeyedInv
<1> QED
  BY <1>1, KeyedHolds, PTL

(* No key is twice in the manifest, however many calls overlap or are cut    *)
(* off, until two have the file open to write at once: ServiceManifest.add   *)
(* checks the document it writes.                                            *)
THEOREM KeysStayUnique == RegistrySpec => []KeysAreUnique
<1>1. KeyedInv => KeysAreUnique
  BY DEF KeyedInv, KeysAreUnique, Unique
<1> QED
  BY <1>1, KeyedHolds, PTL

-----------------------------------------------------------------------------
(* Routes, while no two calls overlap. *)
LEMMA FreePrepared == ASSUME NEW doc PROVE Prepared(Free, doc)
BY DEF Prepared, Free

LEMMA RoutedInit == RegistryInit => RoutedInv
<1> SUFFICES ASSUME RegistryInit PROVE RoutedInv
  OBVIOUS
<1>1. \A t \in ToolThreads : call[t] = Free
  BY DEF RegistryInit
<1>2. Routed(manifest) /\ ~crossed
  BY DEF RegistryInit, Routed
<1> QED
  BY <1>1, <1>2, FreePrepared DEF RoutedInv

(* One thread goes on, the others are free. *)
LEMMA OneGoesOn ==
    ASSUME KeyedInv, NEW t \in ToolThreads, NEW next,
           \A u \in ToolThreads \ {t} : call[u] = Free,
           call' = [call EXCEPT ![t] = next], ~crossed',
           Routed(manifest'), Prepared(next, manifest')
    PROVE  RoutedInv'
<1>1. call'[t] = next /\ \A u \in ToolThreads \ {t} : call'[u] = Free
  BY DEF KeyedInv, RegistryTypeOK
<1>2. \A u \in ToolThreads : Prepared(call'[u], manifest')
  BY <1>1, FreePrepared
<1> QED
  BY <1>1, <1>2 DEF RoutedInv

LEMMA RoutedBegins ==
    ASSUME KeyedInv, RoutedInv, NEW t \in ToolThreads,
           NEW op, NEW k, NEW c, NEW pc \in {"forget", "load"},
           op = "remove" => Users(manifest, k) = {},
           op = "route" /\ c # 0 => c \in KeysOf(manifest),
           Begins(t, op, k, c, pc)
    PROVE  RoutedInv'
<1> DEFINE new == [pc |-> pc, op |-> op, key |-> k, carrier |-> c,
                   services |-> manifest, doc |-> <<>>]
<1>1. Prepared(new, manifest)
  BY DEF Prepared, Checked
<1>2. call' = [call EXCEPT ![t] = new] /\ manifest' = manifest
  BY DEF Begins
<1>3. CASE ~sound'
  BY <1>3 DEF RoutedInv
<1>4. CASE sound'
  <2>1. sound /\ \A u \in ToolThreads : call[u] = Free
    BY <1>4 DEF Begins
  <2>2. Routed(manifest') /\ ~crossed'
    BY <1>2, <2>1 DEF RoutedInv, Begins
  <2> HIDE DEF new
  <2> QED
    BY <1>1, <1>2, <2>1, <2>2, OneGoesOn
<1> QED
  BY <1>3, <1>4

LEMMA RoutedStep ==
    KeyedInv /\ RoutedInv /\ [RegistryNext]_registryVars => RoutedInv'
<1> SUFFICES ASSUME KeyedInv, RoutedInv, [RegistryNext]_registryVars
             PROVE  RoutedInv'
  OBVIOUS
<1>1. ASSUME NEW t \in ToolThreads, AddInbox(t) PROVE RoutedInv'
  <2>1. PICK k \in Inbox : Begins(t, "add", k, 0, "load")
    BY <1>1 DEF AddInbox
  <2> QED
    BY <2>1, RoutedBegins
<1>2. ASSUME NEW t \in ToolThreads, NEW k \in Inbox, RenameInbox(t, k)
      PROVE  RoutedInv'
  BY <1>2, RoutedBegins DEF RenameInbox
<1>3. ASSUME NEW t \in ToolThreads, NEW k \in Inbox, DeleteInbox(t, k)
      PROVE  RoutedInv'
  BY <1>3, RoutedBegins DEF DeleteInbox
<1>4. ASSUME NEW t \in ToolThreads, NEW s \in MailSources, RemoveEmailSearch(t, s)
      PROVE  RoutedInv'
  BY <1>4, RoutedBegins DEF RemoveEmailSearch
<1>5. ASSUME NEW t \in ToolThreads, NEW s \in MailSources, NEW k \in Inbox,
             SaveEmailSearch(t, s, k)
      PROVE  RoutedInv'
  BY <1>5, RoutedBegins DEF SaveEmailSearch, Routable
<1>6. ASSUME NEW t \in ToolThreads, NEW s \in MailSources,
             NEW k \in Inbox \cup {0}, AddSource(t, s, k)
      PROVE  RoutedInv'
  BY <1>6, RoutedBegins DEF AddSource
<1>7. ASSUME NEW t \in ToolThreads, sound, call[t] # Free
      PROVE  /\ Routed(manifest) /\ Prepared(call[t], manifest)
             /\ call[t] \in Calls /\ ~crossed
             /\ \A u \in ToolThreads \ {t} : call[u] = Free
  BY <1>7, Busy DEF RoutedInv, KeyedInv, RegistryTypeOK
<1>8. ASSUME NEW t \in ToolThreads, Forget(t) PROVE RoutedInv'
  <2>1. CASE sound
    <3> DEFINE next == [call[t] EXCEPT !.pc = "load"]
    <3>1. /\ call[t] # Free /\ manifest' = manifest /\ crossed' = crossed
          /\ call' = [call EXCEPT ![t] = next]
      BY <1>8 DEF Forget, Goes, Free
    <3>2. Prepared(next, manifest)
      BY <1>7, <1>8, <2>1, <3>1 DEF Forget, Prepared, Checked, Calls
    <3> HIDE DEF next
    <3> QED
      BY <1>7, <2>1, <3>1, <3>2, OneGoesOn
  <2> QED
    BY <1>8, <2>1 DEF Forget, RoutedInv
<1>9. ASSUME NEW t \in ToolThreads, Load(t) PROVE RoutedInv'
  <2>1. CASE sound
    <3>1. call[t] # Free /\ manifest' = manifest /\ crossed' = crossed
      BY <1>9 DEF Load, Free
    <3>2. CASE ~torn /\ Allowed(manifest, call[t])
      <4> DEFINE next == [call[t] EXCEPT !.doc = Changed(manifest, call[t]),
                                         !.pc = "dump"]
      <4>1. /\ Routed(Changed(manifest, call[t]))
            /\ Others(Changed(manifest, call[t]), call[t].key)
                 = Others(call[t].services, call[t].key)
        <5>1. manifest \in Seq(Entries)
          BY DEF KeyedInv, RegistryTypeOK
        <5>2. /\ Checked(call[t], manifest) /\ Routed(manifest) /\ call[t] \in Calls
              /\ call[t].services = manifest
          BY <1>7, <1>9, <2>1, <3>1 DEF Load, Prepared
        <5> QED
          BY <3>2, <5>1, <5>2, ChangedFits DEF Checked
      <4>2. /\ next.pc = "dump" /\ next.doc = Changed(manifest, call[t])
            /\ next.key = call[t].key /\ next.services = call[t].services
        BY <1>7, <2>1, <3>1 DEF Calls
      <4>3. call' = [call EXCEPT ![t] = next]
        BY <1>9, <3>2 DEF Load
      <4> HIDE DEF next
      <4>4. Prepared(next, manifest)
        BY <4>1, <4>2 DEF Prepared
      <4> QED
        BY <1>7, <2>1, <3>1, <4>3, <4>4, OneGoesOn
    <3>3. CASE ~(~torn /\ Allowed(manifest, call[t]))
      <4>1. call' = [call EXCEPT ![t] = Free]
        BY <1>9, <3>3 DEF Load, Returns
      <4> QED
        BY <1>7, <2>1, <3>1, <4>1, FreePrepared, OneGoesOn
    <3> QED
      BY <3>2, <3>3
  <2> QED
    BY <1>9, <2>1 DEF Load, RoutedInv
<1>10. ASSUME NEW t \in ToolThreads, Truncate(t) PROVE RoutedInv'
  <2>1. CASE sound
    <3> DEFINE next == [call[t] EXCEPT !.pc = "write"]
    <3>1. call[t] # Free /\ manifest' = <<>> /\ call' = [call EXCEPT ![t] = next]
      BY <1>10 DEF Truncate, Goes, Free
    <3>2. Prepared(next, manifest')
      BY <1>7, <1>10, <2>1, <3>1 DEF Truncate, Prepared, Calls
    <3>3. Routed(manifest')
      BY <3>1 DEF Routed
    <3>4. ~crossed'
      <4>1. ~crossed /\ \A u \in ToolThreads \ {t} : call[u].pc = "free"
        BY <1>7, <2>1, <3>1 DEF Free
      <4>2. crossed' = (crossed \/ \E u \in ToolThreads \ {t} : call[u].pc = "write")
        BY <1>10 DEF Truncate
      <4> QED
        BY <4>1, <4>2
    <3> HIDE DEF next
    <3> QED
      BY <1>7, <2>1, <3>1, <3>2, <3>3, <3>4, OneGoesOn
  <2> QED
    BY <1>10, <2>1 DEF Truncate, RoutedInv
<1>11. ASSUME NEW t \in ToolThreads, Write(t) PROVE RoutedInv'
  <2>1. CASE sound
    <3> DEFINE next == [call[t] EXCEPT !.pc = "search"]
    <3>0. call[t] # Free /\ manifest = <<>> /\ ~torn
      BY <1>7, <1>11, <2>1 DEF Write, Free, KeyedInv, RoutedInv
    <3>1. /\ call[t] # Free /\ manifest' = call[t].doc /\ crossed' = crossed
          /\ call' = [call EXCEPT ![t] = next] \/ call' = [call EXCEPT ![t] = Free]
      BY <1>11, <3>0 DEF Write, Goes, Returns
    <3>2. Prepared(next, manifest')
      BY <1>7, <2>1, <3>1 DEF Prepared, Calls
    <3>3. Routed(manifest')
      BY <1>7, <1>11, <2>1, <3>1 DEF Write, Prepared
    <3> HIDE DEF next
    <3> QED
      BY <1>7, <2>1, <3>1, <3>2, <3>3, FreePrepared, OneGoesOn
  <2> QED
    BY <1>11, <2>1 DEF Write, RoutedInv
<1>12. ASSUME NEW t \in ToolThreads, Search(t) PROVE RoutedInv'
  <2>1. CASE sound
    <3>1. call[t] # Free /\ manifest' = manifest /\ crossed' = crossed
      BY <1>12 DEF Search, Free
    <3>2. CASE ~torn /\ Routable(call[t].key, call[t].carrier)
      <4> DEFINE next == [call[t] EXCEPT !.op = "route", !.pc = "load",
                                         !.services = manifest]
      <4>1. call' = [call EXCEPT ![t] = next]
        BY <1>12, <3>2 DEF Search
      <4>2. /\ next.op = "route" /\ next.pc = "load" /\ next.carrier = call[t].carrier
            /\ next.services = manifest
        BY <1>7, <2>1, <3>1 DEF Calls
      <4> HIDE DEF next
      <4>3. Prepared(next, manifest)
        BY <3>2, <4>2 DEF Prepared, Checked, Routable
      <4> QED
        BY <1>7, <2>1, <3>1, <4>1, <4>3, OneGoesOn
    <3>3. CASE ~(~torn /\ Routable(call[t].key, call[t].carrier))
      <4>1. call' = [call EXCEPT ![t] = Free]
        BY <1>12, <3>3 DEF Search, Returns
      <4> QED
        BY <1>7, <2>1, <3>1, <4>1, FreePrepared, OneGoesOn
    <3> QED
      BY <3>2, <3>3
  <2> QED
    BY <1>12, <2>1 DEF Search, RoutedInv
<1>13. ASSUME NEW k \in Inbox, SignIn(k) PROVE RoutedInv'
  BY <1>13 DEF SignIn, RoutedInv
<1>14. CASE Crash
  <2>1. \A t \in ToolThreads : call'[t] = Free
    BY <1>14 DEF Crash
  <2>2. manifest' = manifest /\ crossed' = crossed /\ (sound' => sound)
    BY <1>14 DEF Crash
  <2> QED
    BY <2>1, <2>2, FreePrepared DEF RoutedInv
<1>15. CASE UNCHANGED registryVars
  BY <1>15 DEF registryVars, RoutedInv
<1> QED
  BY <1>1, <1>2, <1>3, <1>4, <1>5, <1>6, <1>8, <1>9, <1>10, <1>11, <1>12, <1>13,
     <1>14, <1>15 DEF RegistryNext, RegistryCall

(* While no two calls overlap, and none is cut off, a source that arrives by *)
(* email has an inbox to arrive through: delete_inbox and save_email_search. *)
THEOREM RoutesLead == RegistrySpec => []RoutesLeadSomewhere
<1>1. RoutedInv => RoutesLeadSomewhere
  BY DEF RoutedInv, Routed, RoutesLeadSomewhere
<1> QED
  BY <1>1, RoutedInit, RoutedStep, KeyedHolds, PTL DEF RegistrySpec

(* A change is of one entry: while calls do not overlap, what is written is  *)
(* in all other entries, and their order, what the call found as it began:   *)
(* add, remove, update and save of ServiceManifest, cut at every access.     *)
THEOREM ChangesAreLocal == RegistrySpec => ChangeIsLocal
<1> DEFINE Local == \A t \in ToolThreads :
                      sound /\ call[t].pc = "write" /\ call'[t] # call[t]
                        /\ crashes' = crashes
                        => Others(manifest', call[t].key)
                             = Others(call[t].services, call[t].key)
<1>1. KeyedInv /\ RoutedInv /\ [RegistryNext]_registryVars => Local
  <2> SUFFICES ASSUME KeyedInv, RoutedInv, [RegistryNext]_registryVars,
                      NEW t \in ToolThreads, sound, call[t].pc = "write",
                      call'[t] # call[t], crashes' = crashes
               PROVE  Others(manifest', call[t].key)
                        = Others(call[t].services, call[t].key)
    OBVIOUS
  <2>1. call[t] # Free /\ call[t] \in Calls
    BY Busy DEF KeyedInv, RegistryTypeOK, Free
  <2>2. /\ Others(call[t].doc, call[t].key) = Others(call[t].services, call[t].key)
        /\ \A u \in ToolThreads \ {t} : call[u] = Free
    BY <2>1 DEF RoutedInv, Prepared
  <2>3. ASSUME NEW u \in ToolThreads, RegistryCall(u), ~Write(u) PROVE FALSE
    <3>1. CASE u = t
      BY <2>1, <2>3, <3>1
         DEF RegistryCall, AddInbox, RenameInbox, DeleteInbox, SaveEmailSearch,
             RemoveEmailSearch, AddSource, Begins, Forget, Load, Truncate, Search
    <3>2. CASE u # t
      <4>1. call[u].pc = "free"
        BY <2>2, <3>2 DEF Free
      <4>2. call'[t] = call[t]
        BY <2>3, <3>2, <4>1
           DEF KeyedInv, RegistryTypeOK, RegistryCall, AddInbox, RenameInbox,
               DeleteInbox, SaveEmailSearch, RemoveEmailSearch, AddSource, Begins,
               Forget, Load, Truncate, Search
      <4> QED
        BY <4>2
    <3> QED
      BY <3>1, <3>2
  <2>4. CASE Write(t)
    <3>1. manifest = <<>> /\ ~torn
      BY DEF KeyedInv, RoutedInv
    <3> QED
      BY <2>2, <2>4, <3>1 DEF Write
  <2>5. ASSUME NEW u \in ToolThreads, u # t, Write(u) PROVE FALSE
    BY <2>2, <2>5 DEF Write, Free
  <2>6. ASSUME NEW k \in Inbox, SignIn(k) PROVE FALSE
    BY <2>6 DEF SignIn
  <2>7. CASE Crash
    BY <2>7, RegistryAssumption DEF Crash, KeyedInv, RegistryTypeOK
  <2>8. CASE UNCHANGED registryVars
    BY <2>8 DEF registryVars
  <2> QED
    BY <2>3, <2>4, <2>5, <2>6, <2>7, <2>8 DEF RegistryNext
<1>2. RegistrySpec => [][Local]_registryVars
  BY <1>1, RoutedInit, RoutedStep, KeyedInit, KeyedStep, PTL DEF RegistrySpec
<1> QED
  BY <1>2 DEF ChangeIsLocal

-----------------------------------------------------------------------------
(* The runs of each feed. *)

(* The records of the calls that are under way, by what they are about: a    *)
(* scrape in its tool, the parsing of documents, a run on its way to disk.   *)
Scrapes == [pc : {"inside", "summary"}, feed : Feeds, own : Tally(MaxTotals),
            alone : BOOLEAN, month : Months]
Parses == [pc : {"parse"}, feed : Feeds, road : {"upload", "email"}, left : 1..MaxFetched]
Drafts == [feed : Feeds, road : Roads, month : Months, at : 0..MaxStamps]
Saves == [pc : {"stamp", "write", "dump"}, run : Drafts, left : 0..MaxFetched]

(* What a scrape has recorded is what its channel holds, unless another of   *)
(* its source is under way, and then neither takes itself to be alone.       *)
OwnChannel(c, checks) ==
    c.pc \in {"inside", "summary"} /\ c.alone => checks[c.feed] = c.own

Apart(c, d) ==
    c.pc \in {"inside", "summary"} /\ d.pc \in {"inside", "summary"} /\ c.feed = d.feed
      => ~c.alone

ChannelsAreOwn ==
    /\ \A t \in Runners : OwnChannel(job[t], totals)
    /\ \A t, u \in Runners : t # u => Apart(job[t], job[u])

(* The last run of a route is newer than the others that are there; and it   *)
(* is there, unless the next is being written or was cut short. A run that   *)
(* is stamped and not written yet is newer still, and the only one.          *)
NoneNewer(x, files, last) ==
    \A run \in files : <<run.feed, run.road>> = x => run.at <= last[x]

LastThere(x, files, last) ==
    last[x] # 0 => \E run \in files : <<run.feed, run.road>> = x /\ run.at = last[x]

Writes(c, x) == c.pc \in {"write", "dump"} /\ Road(c) = x
Cuts(c, x) == c.pc = "dump" /\ Road(c) = x

RunsAreDated ==
    /\ \A x \in Feeds \X Roads : newest[x] <= stamps
    /\ \A t \in Runners : job[t].pc \in {"write", "dump"} => job[t].run.at \in 1..stamps
    /\ \A x \in (Feeds \X Roads) \ raced :
         /\ NoneNewer(x, runs, newest)
         /\ x \notin spoiled /\ (\A t \in Runners : ~Cuts(job[t], x))
              => LastThere(x, runs, newest)
         /\ \A t \in Runners : Writes(job[t], x) =>
              /\ newest[x] < job[t].run.at
              /\ \A u \in Runners : Writes(job[u], x) => u = t
         /\ \A t \in Runners : Cuts(job[t], x) =>
              \A run \in runs : RunFile(run) # RunFile(job[t].run)

(* Only a fetch goes on to another document. *)
Whole(c) == c.pc \in {"stamp", "write", "dump"} /\ c.run.road = "scrape" => c.left = 0

ScrapesAreOne == \A t \in Runners : Whole(job[t])

IngestIInv == IngestTypeOK /\ ChannelsAreOwn /\ RunsAreDated /\ ScrapesAreOne

-----------------------------------------------------------------------------
LEMMA JobKinds == Jobs = Scrapes \cup Parses \cup Saves
  BY DEF Jobs, Scrapes, Parses, Saves, Drafts

LEMMA KindOfJob ==
    ASSUME NEW c \in Jobs \cup {Idle}
    PROVE  /\ c.pc \in {"inside", "summary"} => c \in Scrapes
           /\ c.pc = "parse" => c \in Parses
           /\ c.pc \in {"stamp", "write", "dump"} => c \in Saves
  BY JobKinds DEF Scrapes, Parses, Saves, Idle

LEMMA TallyIs ==
    ASSUME NEW n \in Nat
    PROVE  Tally(n) = {s \in Seq(BOOLEAN) : Len(s) <= n}
  <1>1. ASSUME NEW s \in Tally(n) PROVE s \in Seq(BOOLEAN) /\ Len(s) <= n
    <2>1. PICK k \in 0..n : s \in [1..k -> BOOLEAN] BY DEF Tally
    <2>2. k \in Nat /\ k <= n OBVIOUS
    <2>3. s \in Seq(BOOLEAN) /\ Len(s) = k BY <2>1, <2>2
    <2>q. QED BY <2>2, <2>3
  <1>2. ASSUME NEW s \in Seq(BOOLEAN), Len(s) <= n PROVE s \in Tally(n)
    <2>1. Len(s) \in 0..n /\ s \in [1..Len(s) -> BOOLEAN] BY <1>2
    <2>q. QED BY <2>1 DEF Tally
  <1>q. QED BY <1>1, <1>2

LEMMA IngestStarts == IngestInit => IngestIInv
  <1> SUFFICES ASSUME IngestInit PROVE IngestIInv OBVIOUS
  <1> USE IngestAssumption
  <1>1. IngestTypeOK
    <2>1. job \in [Runners -> Jobs \cup {Idle}] BY DEF IngestInit
    <2>2. newest \in [Feeds \X Roads -> 0..MaxStamps] BY DEF IngestInit
    <2>3. totals \in [Feeds -> Seq(BOOLEAN)] BY DEF IngestInit
    <2>q. QED BY <2>1, <2>2, <2>3 DEF IngestInit, IngestTypeOK
  <1>2. ChannelsAreOwn
    BY DEF IngestInit, ChannelsAreOwn, OwnChannel, Apart, Idle
  <1>3. RunsAreDated
    BY DEF IngestInit, RunsAreDated, NoneNewer, LastThere, Writes, Cuts, Idle
  <1>4. ScrapesAreOne BY DEF IngestInit, ScrapesAreOne, Whole, Idle
  <1>q. QED BY <1>1, <1>2, <1>3, <1>4 DEF IngestIInv

(* What keeps the channels: a step that sets one call, no scrape, or one     *)
(* that says the same of its channel.                                        *)
LEMMA OneJob ==
    ASSUME IngestTypeOK, NEW t \in Runners, NEW c \in Jobs \cup {Idle}, Proceeds(t, c)
    PROVE  /\ job' \in [Runners -> Jobs \cup {Idle}]
           /\ job'[t] = c /\ \A u \in Runners \ {t} : job'[u] = job[u]
  BY DEF IngestTypeOK, Proceeds

LEMMA NoScrape ==
    ASSUME IngestIInv, NEW t \in Runners, NEW c \in Jobs \cup {Idle}, Proceeds(t, c),
           c.pc \notin {"inside", "summary"}, totals' = totals
    PROVE  ChannelsAreOwn'
  <1>1. /\ job'[t] = c /\ \A u \in Runners \ {t} : job'[u] = job[u]
    BY OneJob DEF IngestIInv
  <1>q. QED BY <1>1 DEF IngestIInv, ChannelsAreOwn, OwnChannel, Apart

LEMMA NoWrite ==
    ASSUME IngestIInv, NEW t \in Runners, NEW c \in Jobs \cup {Idle}, Proceeds(t, c),
           c.pc \notin {"write", "dump"}, job[t].pc # "dump",
           UNCHANGED <<runs, stamps, raced, spoiled, newest>>
    PROVE  RunsAreDated'
  <1>1. /\ job'[t] = c /\ \A u \in Runners \ {t} : job'[u] = job[u]
    BY OneJob DEF IngestIInv
  <1>2. \A x : \A u \in Runners :
          /\ Writes(job'[u], x) => u # t /\ Writes(job[u], x) /\ job'[u] = job[u]
          /\ Cuts(job'[u], x) <=> Cuts(job[u], x)
          /\ Cuts(job'[u], x) => job'[u] = job[u]
    BY <1>1 DEF Writes, Cuts
  <1>3. \A u \in Runners : job'[u].pc \in {"write", "dump"} => job'[u] = job[u]
    BY <1>1
  <1>4. ASSUME NEW x \in (Feeds \X Roads) \ raced, NEW u \in Runners
        PROVE  /\ Writes(job'[u], x) =>
                    newest[x] < job'[u].run.at /\ \A v \in Runners : Writes(job'[v], x) => v = u
               /\ Cuts(job'[u], x) =>
                    \A run \in runs : RunFile(run) # RunFile(job'[u].run)
    BY <1>2 DEF IngestIInv, RunsAreDated
  <1>5. \A x \in (Feeds \X Roads) \ raced :
          /\ NoneNewer(x, runs, newest)
          /\ x \notin spoiled /\ (\A u \in Runners : ~Cuts(job'[u], x))
               => LastThere(x, runs, newest)
    BY <1>2 DEF IngestIInv, RunsAreDated
  <1>6. \A u \in Runners : job'[u].pc \in {"write", "dump"} => job'[u].run.at \in 1..stamps
    BY <1>3 DEF IngestIInv, RunsAreDated
  <1>7. \A x \in Feeds \X Roads : newest[x] <= stamps BY DEF IngestIInv, RunsAreDated
  <1>q. QED BY <1>4, <1>5, <1>6, <1>7 DEF RunsAreDated, NoneNewer, LastThere

LEMMA OneWhole ==
    ASSUME IngestIInv, NEW t \in Runners, NEW c \in Jobs \cup {Idle}, Proceeds(t, c), Whole(c)
    PROVE  ScrapesAreOne'
  <1>1. /\ job'[t] = c /\ \A u \in Runners \ {t} : job'[u] = job[u]
    BY OneJob DEF IngestIInv
  <1>2. ASSUME NEW u \in Runners PROVE Whole(job'[u])
    <2>1. Whole(job[u]) BY DEF IngestIInv, ScrapesAreOne
    <2>2. CASE u = t BY <1>1, <2>2
    <2>3. CASE u # t
      <3>1. job'[u] = job[u] BY <1>1, <2>3
      <3>q. QED BY <2>1, <3>1
    <2>q. QED BY <2>2, <2>3
  <1>q. QED BY <1>2 DEF ScrapesAreOne

(* Steps that set one job to what is no scrape and no run about to be        *)
(* written, and leave the rest alone.                                        *)
LEMMA Elsewhere ==
    ASSUME IngestIInv, NEW t \in Runners, NEW c \in Jobs \cup {Idle}, Proceeds(t, c),
           c.pc \notin {"inside", "summary", "write", "dump"}, job[t].pc # "dump", Whole(c),
           UNCHANGED <<runs, totals, stamps, raced, spoiled, newest>>
    PROVE  IngestIInv'
  <1>1. ChannelsAreOwn' BY NoScrape
  <1>2. RunsAreDated' BY NoWrite
  <1>3. job' \in [Runners -> Jobs \cup {Idle}] BY OneJob DEF IngestIInv
  <1>4. ScrapesAreOne' BY OneWhole
  <1>q. QED BY <1>1, <1>2, <1>3, <1>4 DEF IngestIInv, IngestTypeOK

LEMMA IdleIsJob == Idle \in Jobs \cup {Idle} /\ Idle.pc = "idle" /\ Whole(Idle)
  BY DEF Idle, Whole

LEMMA OpenChannelKeeps ==
    ASSUME IngestIInv, NEW t \in Runners, NEW f \in Feeds, OpenChannel(t, f)
    PROVE  IngestIInv'
  <1> USE IngestAssumption
  <1> DEFINE others == {u \in Runners : Scraping(u, f)}
             c == [pc |-> "inside", feed |-> f, own |-> <<>>,
                   alone |-> others = {}, month |-> 0]
  <1>1. /\ job[t] = Idle
        /\ totals' = [totals EXCEPT ![f] = <<>>]
        /\ job' = [u \in Runners |-> IF u = t THEN c
                                     ELSE IF u \in others THEN [job[u] EXCEPT !.alone = FALSE]
                                     ELSE job[u]]
        /\ UNCHANGED <<runs, stamps, raced, spoiled, newest>>
    BY DEF OpenChannel
  <1>2. job \in [Runners -> Jobs \cup {Idle}] BY DEF IngestIInv, IngestTypeOK
  <1>3. c \in Scrapes
    <2>1. <<>> \in Seq(BOOLEAN) /\ Len(<<>>) <= MaxTotals OBVIOUS
    <2>2. <<>> \in Tally(MaxTotals) BY <2>1, TallyIs
    <2>q. QED BY <2>2 DEF Scrapes, Months
  <1>4. ASSUME NEW u \in others
        PROVE  /\ [job[u] EXCEPT !.alone = FALSE] \in Scrapes
               /\ [job[u] EXCEPT !.alone = FALSE].alone = FALSE
               /\ [job[u] EXCEPT !.alone = FALSE].pc = job[u].pc
               /\ [job[u] EXCEPT !.alone = FALSE].feed = job[u].feed
    <2>1. job[u].pc \in {"inside", "summary"} BY DEF Scraping
    <2>2. job[u] \in Scrapes BY <1>2, <2>1, KindOfJob
    <2>q. QED BY <2>2 DEF Scrapes
  <1>5. \A u \in others : u \in Runners /\ job[u].feed = f /\ job[u].pc \in {"inside", "summary"}
    BY DEF Scraping
  <1>6. \A u \in Runners \ others : job[u].pc \in {"inside", "summary"} => job[u].feed # f
    BY DEF Scraping
  <1>7. c.pc = "inside" /\ c.feed = f /\ c.own = <<>> /\ (c.alone <=> others = {})
    OBVIOUS
  <1>8. t \notin others BY <1>1, <1>5, IdleIsJob
  <1> HIDE DEF c, others
  <1>9. /\ job'[t] = c
        /\ \A u \in others : job'[u] = [job[u] EXCEPT !.alone = FALSE]
        /\ \A u \in Runners \ (others \cup {t}) : job'[u] = job[u]
    BY <1>1, <1>5, <1>8
  <1>10. \A u \in others : /\ job'[u] \in Scrapes /\ ~job'[u].alone
                           /\ job'[u].pc = job[u].pc /\ job'[u].feed = f
    BY <1>4, <1>5, <1>9
  <1>11. job' \in [Runners -> Jobs \cup {Idle}]
    BY <1>1, <1>2, <1>3, <1>4, JobKinds
  <1>12. totals' \in [Feeds -> Seq(BOOLEAN)] /\ totals'[f] = <<>>
         /\ \A g \in Feeds \ {f} : totals'[g] = totals[g]
    BY <1>1 DEF IngestIInv, IngestTypeOK
  <1>13. ChannelsAreOwn'
    <2>1. ASSUME NEW u \in Runners PROVE OwnChannel(job'[u], totals')
      <3>1. CASE u = t BY <1>7, <1>9, <1>12, <3>1 DEF OwnChannel
      <3>2. CASE u \in others BY <1>10, <3>2 DEF OwnChannel
      <3>3. CASE u \notin others \cup {t}
        <4>1. job'[u] = job[u] BY <1>9, <3>3
        <4>2. OwnChannel(job[u], totals) BY DEF IngestIInv, ChannelsAreOwn
        <4>3. job[u].pc \in {"inside", "summary"} =>
                job[u].feed \in Feeds \ {f}
          BY <1>2, <1>6, <3>3, KindOfJob DEF Scrapes
        <4>q. QED BY <1>12, <4>1, <4>2, <4>3 DEF OwnChannel
      <3>q. QED BY <3>1, <3>2, <3>3
    <2>2. ASSUME NEW u \in Runners, NEW v \in Runners, u # v PROVE Apart(job'[u], job'[v])
      <3>1. CASE u \in others BY <1>10, <3>1 DEF Apart
      <3>2. CASE u = t /\ v \in others BY <1>7, <1>9, <3>2 DEF Apart
      <3>3. CASE u = t /\ v \notin others
        <4>1. job'[v] = job[v] BY <1>9, <2>2, <3>3
        <4>q. QED BY <1>6, <1>7, <1>9, <3>3, <4>1 DEF Apart
      <3>4. CASE u \notin others \cup {t}
        <4>1. job'[u] = job[u] BY <1>9, <3>4
        <4>2. CASE v = t BY <1>6, <1>7, <1>9, <3>4, <4>1, <4>2 DEF Apart
        <4>3. CASE v \in others
          BY <1>6, <1>10, <3>4, <4>1, <4>3 DEF Apart
        <4>4. CASE v \notin others \cup {t}
          BY <1>9, <2>2, <4>1, <4>4 DEF IngestIInv, ChannelsAreOwn, Apart
        <4>q. QED BY <4>2, <4>3, <4>4
      <3>q. QED BY <3>1, <3>2, <3>3, <3>4
    <2>q. QED BY <2>1, <2>2 DEF ChannelsAreOwn
  <1>14. RunsAreDated'
    <2>1. ASSUME NEW u \in Runners
          PROVE  /\ job'[u].pc \in {"write", "dump"} <=> job[u].pc \in {"write", "dump"}
                 /\ job'[u].pc \in {"write", "dump"} => job'[u] = job[u]
      <3>1. CASE u = t BY <1>1, <1>7, <1>9, <3>1, IdleIsJob
      <3>2. CASE u \in others BY <1>5, <1>10, <3>2
      <3>3. CASE u \notin others \cup {t} BY <1>9, <3>3
      <3>q. QED BY <3>1, <3>2, <3>3
    <2>2. \A x : \A u \in Runners :
            /\ Writes(job'[u], x) <=> Writes(job[u], x)
            /\ Cuts(job'[u], x) <=> Cuts(job[u], x)
            /\ Writes(job'[u], x) \/ Cuts(job'[u], x) => job'[u] = job[u]
      BY <2>1 DEF Writes, Cuts
    <2>3. UNCHANGED <<runs, stamps, raced, spoiled, newest>> BY <1>1
    <2>4. ASSUME NEW x \in (Feeds \X Roads) \ raced, NEW u \in Runners
          PROVE  /\ Writes(job'[u], x) =>
                      newest[x] < job'[u].run.at /\ \A v \in Runners : Writes(job'[v], x) => v = u
                 /\ Cuts(job'[u], x) =>
                      \A run \in runs : RunFile(run) # RunFile(job'[u].run)
      BY <2>2 DEF IngestIInv, RunsAreDated
    <2>5. \A x \in (Feeds \X Roads) \ raced :
            /\ NoneNewer(x, runs, newest)
            /\ x \notin spoiled /\ (\A u \in Runners : ~Cuts(job'[u], x))
                 => LastThere(x, runs, newest)
      BY <2>2 DEF IngestIInv, RunsAreDated
    <2>6. \A u \in Runners : job'[u].pc \in {"write", "dump"} => job'[u].run.at \in 1..stamps
      BY <2>1 DEF IngestIInv, RunsAreDated
    <2>7. \A x \in Feeds \X Roads : newest[x] <= stamps BY DEF IngestIInv, RunsAreDated
    <2>q. QED BY <2>3, <2>4, <2>5, <2>6, <2>7 DEF RunsAreDated, NoneNewer, LastThere
  <1>15. ASSUME NEW u \in Runners PROVE Whole(job'[u])
    <2>1. Whole(job[u]) BY DEF IngestIInv, ScrapesAreOne
    <2>2. CASE u \in others \cup {t} BY <1>5, <1>7, <1>9, <1>10, <2>2 DEF Whole
    <2>3. CASE u \notin others \cup {t}
      <3>1. job'[u] = job[u] BY <1>9, <2>3
      <3>q. QED BY <2>1, <3>1
    <2>q. QED BY <2>2, <2>3
  <1>16. ScrapesAreOne' BY <1>15 DEF ScrapesAreOne
  <1>q. QED BY <1>1, <1>11, <1>12, <1>13, <1>14, <1>16 DEF IngestIInv, IngestTypeOK

(* A scrape that moves on, and says the same of its channel. *)
LEMMA ScrapeGoesOn ==
    ASSUME IngestIInv, NEW t \in Runners, NEW c \in Scrapes, Proceeds(t, c),
           job[t].pc \in {"inside", "summary"},
           c.feed = job[t].feed, c.alone = job[t].alone,
           c.alone /\ totals[c.feed] = job[t].own => totals'[c.feed] = c.own,
           totals' \in [Feeds -> Seq(BOOLEAN)],
           \A g \in Feeds \ {c.feed} : totals'[g] = totals[g],
           UNCHANGED <<runs, stamps, raced, spoiled, newest>>
    PROVE  IngestIInv'
  <1>0. c \in Jobs \cup {Idle} /\ c.pc \in {"inside", "summary"} /\ c.feed \in Feeds
    BY JobKinds DEF Scrapes
  <1>1. /\ job' \in [Runners -> Jobs \cup {Idle}] /\ job \in [Runners -> Jobs \cup {Idle}]
        /\ job'[t] = c /\ \A u \in Runners \ {t} : job'[u] = job[u]
    BY <1>0, OneJob DEF IngestIInv, IngestTypeOK
  <1>2. RunsAreDated' BY <1>0, NoWrite
  <1>3. ASSUME NEW u \in Runners PROVE OwnChannel(job'[u], totals')
    <2>1. OwnChannel(job[u], totals) /\ OwnChannel(job[t], totals)
      BY DEF IngestIInv, ChannelsAreOwn
    <2>2. CASE u = t BY <1>0, <1>1, <2>1, <2>2 DEF OwnChannel
    <2>3. CASE u # t
      <3>1. job'[u] = job[u] BY <1>1, <2>3
      <3>2. job[u].pc \in {"inside", "summary"} => job[u].feed \in Feeds
        BY <1>1, KindOfJob DEF Scrapes
      <3>3. job[u].pc \in {"inside", "summary"} /\ job[u].alone => job[u].feed # c.feed
        BY <2>3 DEF IngestIInv, ChannelsAreOwn, Apart
      <3>q. QED BY <2>1, <3>1, <3>2, <3>3 DEF OwnChannel
    <2>q. QED BY <2>2, <2>3
  <1>4. ASSUME NEW u \in Runners, NEW v \in Runners, u # v PROVE Apart(job'[u], job'[v])
    <2>1. Apart(job[u], job[v]) BY <1>4 DEF IngestIInv, ChannelsAreOwn
    <2>2. /\ (job'[u].pc \in {"inside", "summary"}) <=> (job[u].pc \in {"inside", "summary"})
          /\ (job'[v].pc \in {"inside", "summary"}) <=> (job[v].pc \in {"inside", "summary"})
          /\ job'[u].feed = job[u].feed /\ job'[v].feed = job[v].feed
          /\ job'[u].alone = job[u].alone
      BY <1>0, <1>1
    <2>q. QED BY <2>1, <2>2 DEF Apart
  <1>5. ChannelsAreOwn' BY <1>3, <1>4 DEF ChannelsAreOwn
  <1>6. Whole(c) BY <1>0 DEF Whole
  <1>7. ScrapesAreOne' BY <1>0, <1>6, OneWhole
  <1>q. QED BY <1>1, <1>2, <1>5, <1>7 DEF IngestIInv, IngestTypeOK

LEMMA ScraperKeeps ==
    ASSUME IngestIInv, NEW t \in Runners,
           RecordTotal(t) \/ ScraperReturns(t) \/ ScraperRaises(t)
    PROVE  IngestIInv'
  <1> USE IngestAssumption
  <1>0. job[t].pc = "inside" BY DEF RecordTotal, ScraperReturns, ScraperRaises
  <1>1. job[t] \in Scrapes /\ totals \in [Feeds -> Seq(BOOLEAN)]
    BY <1>0, KindOfJob DEF IngestIInv, IngestTypeOK
  <1>2. CASE RecordTotal(t)
    <2>1. PICK balanced \in BOOLEAN :
            /\ Len(job[t].own) < MaxTotals
            /\ totals' = [totals EXCEPT ![job[t].feed] = Append(@, balanced)]
            /\ Proceeds(t, [job[t] EXCEPT !.own = Append(@, balanced)])
            /\ UNCHANGED <<runs, stamps, raced, spoiled, newest>>
      BY <1>2 DEF RecordTotal
    <2> DEFINE own == job[t].own  feed == job[t].feed  more == Append(own, balanced)
               c == [job[t] EXCEPT !.own = more]
    <2>2. own \in Tally(MaxTotals) /\ feed \in Feeds BY <1>1 DEF Scrapes
    <2>3. own \in Seq(BOOLEAN) /\ Len(own) \in Nat BY <2>2, TallyIs
    <2>4. more \in Seq(BOOLEAN) /\ Len(more) <= MaxTotals BY <2>1, <2>3
    <2>5. more \in Tally(MaxTotals) BY <2>4, TallyIs
    <2>6. Proceeds(t, c) BY <2>1
    <2> HIDE DEF more
    <2>7. c \in Scrapes /\ c.feed = feed /\ c.alone = job[t].alone /\ c.own = more
      BY <1>1, <2>5 DEF Scrapes
    <2>8. /\ totals' \in [Feeds -> Seq(BOOLEAN)]
          /\ totals'[feed] = Append(totals[feed], balanced)
          /\ \A g \in Feeds \ {feed} : totals'[g] = totals[g]
      BY <1>1, <2>1, <2>2
    <2>9. totals[feed] = own => totals'[feed] = more BY <2>8 DEF more
    <2> HIDE DEF c, own, feed
    <2>q. QED BY <1>0, <2>1, <2>6, <2>7, <2>8, <2>9, ScrapeGoesOn DEF own, feed
  <1>3. CASE ScraperReturns(t)
    <2>1. PICK m \in Months :
            /\ Proceeds(t, [job[t] EXCEPT !.pc = "summary", !.month = m])
            /\ UNCHANGED <<runs, totals, stamps, raced, spoiled, newest>>
      BY <1>3 DEF ScraperReturns
    <2> DEFINE c == [job[t] EXCEPT !.pc = "summary", !.month = m]
    <2>2. c \in Scrapes /\ c.feed = job[t].feed /\ c.alone = job[t].alone /\ c.own = job[t].own
      BY <1>1 DEF Scrapes
    <2> HIDE DEF c
    <2>q. QED BY <1>0, <1>1, <2>1, <2>2, ScrapeGoesOn DEF c
  <1>4. CASE ScraperRaises(t)
    BY <1>4, Elsewhere, IdleIsJob DEF ScraperRaises
  <1>q. QED BY <1>2, <1>3, <1>4

LEMMA PersistsIsJob ==
    ASSUME NEW f \in Feeds, NEW r \in Roads, NEW m \in Months, NEW n \in 0..MaxFetched
    PROVE  LET c == Persists(f, r, m, n)
           IN  /\ c \in Jobs \cup {Idle} /\ c.pc = "stamp"
               /\ r # "scrape" \/ n = 0 => Whole(c)
  <1> USE IngestAssumption
  <1>1. [feed |-> f, road |-> r, month |-> m, at |-> 0] \in Drafts
    BY DEF Drafts
  <1>q. QED BY <1>1, JobKinds DEF Persists, Saves, Whole

LEMMA ParseIsJob ==
    ASSUME NEW f \in Feeds, NEW r \in {"upload", "email"}, NEW n \in 1..MaxFetched
    PROVE  LET c == [pc |-> "parse", feed |-> f, road |-> r, left |-> n]
           IN  c \in Jobs \cup {Idle} /\ c.pc = "parse" /\ Whole(c)
  BY JobKinds DEF Parses, Whole

LEMMA CallsKeep ==
    ASSUME IngestIInv, NEW t \in Runners,
           \/ \E f \in Feeds : FetchAndIngest(t, f) \/ IngestDocument(t, f)
           \/ \E v \in {"unchecked", "short", "balanced"} : Summarise(t, v)
           \/ ParserReads(t) \/ ParserFails(t)
    PROVE  IngestIInv'
  <1> USE IngestAssumption
  <1>0. job[t] \in Jobs \cup {Idle} BY DEF IngestIInv, IngestTypeOK
  <1>1. CASE \E f \in Feeds : FetchAndIngest(t, f)
    <2>1. PICK f \in Feeds, n \in 1..MaxFetched :
            /\ job[t] = Idle
            /\ Proceeds(t, [pc |-> "parse", feed |-> f, road |-> "email", left |-> n])
            /\ UNCHANGED <<runs, totals, stamps, raced, spoiled, newest>>
      BY <1>1 DEF FetchAndIngest
    <2> DEFINE c == [pc |-> "parse", feed |-> f, road |-> "email", left |-> n]
    <2>2. c \in Jobs \cup {Idle} /\ c.pc = "parse" /\ Whole(c) BY ParseIsJob
    <2> HIDE DEF c
    <2>q. QED BY <2>1, <2>2, Elsewhere, IdleIsJob DEF c
  <1>2. CASE \E f \in Feeds : IngestDocument(t, f)
    <2>1. PICK f \in Feeds : 
            /\ job[t] = Idle
            /\ Proceeds(t, [pc |-> "parse", feed |-> f, road |-> "upload", left |-> 1])
            /\ UNCHANGED <<runs, totals, stamps, raced, spoiled, newest>>
      BY <1>2 DEF IngestDocument
    <2> DEFINE c == [pc |-> "parse", feed |-> f, road |-> "upload", left |-> 1]
    <2>2. c \in Jobs \cup {Idle} /\ c.pc = "parse" /\ Whole(c) BY ParseIsJob
    <2> HIDE DEF c
    <2>q. QED BY <2>1, <2>2, Elsewhere, IdleIsJob DEF c
  <1>3. CASE \E v \in {"unchecked", "short", "balanced"} : Summarise(t, v)
    <2>1. /\ job[t].pc = "summary"
          /\ \/ Proceeds(t, Idle)
             \/ \E f \in Feeds : Proceeds(t, Persists(f, "scrape", job[t].month, 0))
          /\ UNCHANGED <<runs, totals, stamps, raced, spoiled, newest>>
      BY <1>3 DEF Summarise
    <2>2. CASE Proceeds(t, Idle) BY <2>1, <2>2, Elsewhere, IdleIsJob
    <2>3. ASSUME NEW f \in Feeds, Proceeds(t, Persists(f, "scrape", job[t].month, 0))
          PROVE  IngestIInv'
      <3>1. job[t].month \in Months BY <1>0, <2>1, KindOfJob DEF Scrapes
      <3>2. /\ Persists(f, "scrape", job[t].month, 0) \in Jobs \cup {Idle}
            /\ Persists(f, "scrape", job[t].month, 0).pc = "stamp"
            /\ Whole(Persists(f, "scrape", job[t].month, 0))
        BY <3>1, PersistsIsJob DEF Roads
      <3>q. QED BY <2>1, <2>3, <3>2, Elsewhere
    <2>q. QED BY <2>1, <2>2, <2>3
  <1>4. CASE ParserReads(t)
    <2>1. PICK m \in Months :
            /\ job[t].pc = "parse"
            /\ Proceeds(t, Persists(job[t].feed, job[t].road, m, job[t].left - 1))
            /\ UNCHANGED <<runs, totals, stamps, raced, spoiled, newest>>
      BY <1>4 DEF ParserReads
    <2>2. /\ job[t].feed \in Feeds /\ job[t].road \in Roads /\ job[t].road # "scrape"
          /\ job[t].left - 1 \in 0..MaxFetched
      <3>1. job[t] \in Parses BY <1>0, <2>1, KindOfJob
      <3>q. QED BY <3>1 DEF Parses, Roads
    <2> DEFINE c == Persists(job[t].feed, job[t].road, m, job[t].left - 1)
    <2>3. c \in Jobs \cup {Idle} /\ c.pc = "stamp" /\ Whole(c) BY <2>2, PersistsIsJob
    <2> HIDE DEF c
    <2>q. QED BY <2>1, <2>3, Elsewhere DEF c
  <1>5. CASE ParserFails(t)
    BY <1>5, Elsewhere, IdleIsJob DEF ParserFails
  <1>q. QED BY <1>1, <1>2, <1>3, <1>4, <1>5

(* A run is stamped with a time that is later than any that was there. *)
LEMMA StampKeeps == ASSUME IngestIInv, NEW t \in Runners, Stamp(t) PROVE IngestIInv'
  <1> USE IngestAssumption
  <1>0. /\ job \in [Runners -> Jobs \cup {Idle}] /\ stamps \in Nat /\ stamps < MaxStamps
        /\ newest \in [Feeds \X Roads -> 0..MaxStamps] /\ raced \subseteq Feeds \X Roads
    BY DEF IngestIInv, IngestTypeOK, Stamp
  <1> DEFINE now == stamps + 1
             road == Road(job[t])
             c == [job[t] EXCEPT !.pc = "write", !.run.at = now]
             beaten == \E u \in Runners \ {t} :
                      job[u].pc \in {"write", "dump"} /\ Road(job[u]) = road
  <1>1. /\ job[t].pc = "stamp" /\ stamps' = now /\ Proceeds(t, c)
        /\ raced' = IF beaten THEN raced \cup {road} ELSE raced
        /\ UNCHANGED <<runs, totals, spoiled, newest>>
    BY DEF Stamp
  <1>2. job[t] \in Saves BY <1>0, <1>1, KindOfJob
  <1>3. /\ job[t].run \in Drafts /\ job[t].left \in 0..MaxFetched
        /\ job[t].run.feed \in Feeds /\ job[t].run.road \in Roads
    BY <1>2 DEF Saves, Drafts
  <1>4. now \in 0..MaxStamps BY <1>0
  <1>5. /\ c \in Saves /\ c.pc = "write" /\ c.run.at = now
        /\ c.run.feed = job[t].run.feed /\ c.run.road = job[t].run.road
        /\ c.left = job[t].left
    BY <1>2, <1>3, <1>4 DEF Saves, Drafts
  <1>6. road \in Feeds \X Roads BY <1>3 DEF Road
  <1>7. c \in Jobs \cup {Idle} /\ c.pc \notin {"inside", "summary"} BY <1>5, JobKinds
  <1>8. Road(c) = road BY <1>5 DEF Road
  <1>9. raced' \subseteq Feeds \X Roads /\ raced \subseteq raced' BY <1>0, <1>1, <1>6
  <1>10. beaten => road \in raced' BY <1>1
  <1>11. ChannelsAreOwn'
    <2> HIDE DEF c, road
    <2>q. QED BY <1>1, <1>7, NoScrape
  <1>12. ~beaten => \A u \in Runners \ {t} : ~Writes(job[u], road) BY DEF Writes
  <1>17. Whole(c) BY <1>1, <1>5 DEF IngestIInv, ScrapesAreOne, Whole
  <1> HIDE DEF c, road, beaten
  <1>18. ScrapesAreOne' BY <1>1, <1>7, <1>17, OneWhole
  <1>13. /\ job' \in [Runners -> Jobs \cup {Idle}]
         /\ job'[t] = c /\ \A u \in Runners \ {t} : job'[u] = job[u]
    BY <1>1, <1>7, OneJob DEF IngestIInv
  <1>14. stamps' = stamps + 1 BY <1>1
  <1>15. RunsAreDated'
    <2>1. \A x \in Feeds \X Roads : newest[x] <= stamps /\ newest[x] \in Nat
      BY <1>0 DEF IngestIInv, RunsAreDated
    <2>2. ASSUME NEW u \in Runners, job'[u].pc \in {"write", "dump"}
          PROVE  job'[u].run.at \in 1..stamps'
      <3>1. CASE u = t BY <1>0, <1>5, <1>13, <1>14, <3>1
      <3>2. CASE u # t
        <4>1. job'[u] = job[u] /\ job[u].run.at \in 1..stamps
          BY <1>13, <2>2, <3>2 DEF IngestIInv, RunsAreDated
        <4>q. QED BY <1>0, <1>14, <4>1
      <3>q. QED BY <3>1, <3>2
    <2>6. \A x : \A u \in Runners :
            /\ Cuts(job'[u], x) <=> Cuts(job[u], x)
            /\ Cuts(job'[u], x) => job'[u] = job[u]
      BY <1>1, <1>5, <1>13 DEF Cuts
    <2>3. ASSUME NEW x \in (Feeds \X Roads) \ raced'
          PROVE  /\ NoneNewer(x, runs', newest')
                 /\ x \notin spoiled' /\ (\A u \in Runners : ~Cuts(job'[u], x))
                      => LastThere(x, runs', newest')
                 /\ \A u \in Runners : Cuts(job'[u], x) =>
                      \A run \in runs' : RunFile(run) # RunFile(job'[u].run)
      <3>1. x \in (Feeds \X Roads) \ raced BY <1>9
      <3>q. QED BY <1>1, <2>6, <3>1 DEF IngestIInv, RunsAreDated, NoneNewer, LastThere
    <2>4. ASSUME NEW x \in (Feeds \X Roads) \ raced', NEW u \in Runners, Writes(job'[u], x)
          PROVE  newest'[x] < job'[u].run.at /\ \A v \in Runners : Writes(job'[v], x) => v = u
      <3>1. x \in (Feeds \X Roads) \ raced BY <1>9
      <3>2. CASE x = road
        <4>1. ~beaten BY <1>10, <3>2
        <4>2. \A v \in Runners \ {t} : ~Writes(job'[v], x)
          BY <1>12, <1>13, <3>2, <4>1
        <4>3. u = t BY <2>4, <4>2
        <4>4. newest'[x] = newest[x] /\ job'[u].run.at = stamps + 1
          BY <1>1, <1>5, <1>13, <4>3
        <4>q. QED BY <1>0, <2>1, <4>2, <4>3, <4>4
      <3>3. CASE x # road
        <4>1. ~Writes(job'[t], x) BY <1>8, <1>13, <3>3 DEF Writes
        <4>2. u # t BY <2>4, <4>1
        <4>3. \A v \in Runners \ {t} : Writes(job'[v], x) <=> Writes(job[v], x) BY <1>13
        <4>4. newest[x] < job[u].run.at /\ \A v \in Runners : Writes(job[v], x) => v = u
          BY <2>4, <3>1, <4>2, <4>3 DEF IngestIInv, RunsAreDated
        <4>q. QED BY <1>1, <1>13, <4>1, <4>2, <4>3, <4>4
      <3>q. QED BY <3>2, <3>3
    <2>5. \A x \in Feeds \X Roads : newest'[x] <= stamps'
      BY <1>0, <1>1, <1>14, <2>1
    <2>q. QED BY <2>2, <2>3, <2>4, <2>5 DEF RunsAreDated
  <1>16. stamps' \in 0..MaxStamps BY <1>1, <1>4
  <1>q. QED BY <1>1, <1>9, <1>11, <1>13, <1>15, <1>16, <1>18 DEF IngestIInv, IngestTypeOK

(* The file of a run is emptied: no other route loses one. *)
LEMMA TruncateRunKeeps ==
    ASSUME IngestIInv, NEW t \in Runners, TruncateRun(t) PROVE IngestIInv'
  <1> DEFINE c == [job[t] EXCEPT !.pc = "dump"]
             road == Road(job[t])
  <1>0. job \in [Runners -> Jobs \cup {Idle}] /\ runs \subseteq Runs
    BY DEF IngestIInv, IngestTypeOK
  <1>1. /\ job[t].pc = "write" /\ Proceeds(t, c) /\ runs' = OtherFiles(job[t].run)
        /\ UNCHANGED <<totals, stamps, raced, spoiled, newest>>
    BY DEF TruncateRun
  <1>2. job[t] \in Saves BY <1>0, <1>1, KindOfJob
  <1>3. /\ c \in Saves /\ c.pc = "dump" /\ c.run = job[t].run /\ c.left = job[t].left
    BY <1>2 DEF Saves
  <1>4. c \in Jobs \cup {Idle} /\ Road(c) = road BY <1>3, JobKinds DEF Road
  <1>5. Whole(c) BY <1>1, <1>3 DEF IngestIInv, ScrapesAreOne, Whole
  <1> HIDE DEF c, road
  <1>6. ChannelsAreOwn' BY <1>1, <1>3, <1>4, NoScrape
  <1>7. ScrapesAreOne' BY <1>1, <1>4, <1>5, OneWhole
  <1>8. /\ job' \in [Runners -> Jobs \cup {Idle}]
        /\ job'[t] = c /\ \A u \in Runners \ {t} : job'[u] = job[u]
    BY <1>1, <1>4, OneJob DEF IngestIInv
  <1>9. \A x : \A u \in Runners :
          /\ Writes(job'[u], x) <=> Writes(job[u], x)
          /\ job'[u].run = job[u].run
          /\ u # t => (Cuts(job'[u], x) <=> Cuts(job[u], x))
          /\ job'[u].pc \in {"write", "dump"} <=> job[u].pc \in {"write", "dump"}
    BY <1>1, <1>3, <1>4, <1>8 DEF Writes, Cuts, road
  <1>10. Cuts(job'[t], road) BY <1>3, <1>4, <1>8 DEF Cuts
  <1>11. /\ runs' \subseteq runs
         /\ \A run \in runs' : RunFile(run) # RunFile(job[t].run)
         /\ \A run \in runs : <<run.feed, run.road>> # road => run \in runs'
    BY <1>1 DEF OtherFiles, RunFile, Road, road
  <1>12. ASSUME NEW x \in (Feeds \X Roads) \ raced
         PROVE  /\ NoneNewer(x, runs', newest)
                /\ x \notin spoiled /\ (\A u \in Runners : ~Cuts(job'[u], x))
                     => LastThere(x, runs', newest)
                /\ \A u \in Runners : Writes(job'[u], x) =>
                     newest[x] < job'[u].run.at /\ \A v \in Runners : Writes(job'[v], x) => v = u
                /\ \A u \in Runners : Cuts(job'[u], x) =>
                     \A run \in runs' : RunFile(run) # RunFile(job'[u].run)
    <2>1. NoneNewer(x, runs', newest)
      BY <1>11 DEF IngestIInv, RunsAreDated, NoneNewer
    <2>2. ASSUME x \notin spoiled, \A u \in Runners : ~Cuts(job'[u], x)
          PROVE  LastThere(x, runs', newest)
      <3>1. x # road BY <1>10, <2>2
      <3>2. ~Cuts(job[t], x) BY <1>1 DEF Cuts
      <3>3. \A u \in Runners : ~Cuts(job[u], x) BY <1>9, <2>2, <3>2
      <3>4. LastThere(x, runs, newest) BY <2>2, <3>3 DEF IngestIInv, RunsAreDated
      <3>q. QED BY <1>11, <3>1, <3>4 DEF LastThere
    <2>3. ASSUME NEW u \in Runners, Writes(job'[u], x)
          PROVE  newest[x] < job'[u].run.at /\ \A v \in Runners : Writes(job'[v], x) => v = u
      <3>1. newest[x] < job[u].run.at /\ \A v \in Runners : Writes(job[v], x) => v = u
        BY <1>9, <2>3 DEF IngestIInv, RunsAreDated
      <3>q. QED BY <1>9, <3>1
    <2>4. ASSUME NEW u \in Runners, Cuts(job'[u], x), NEW run \in runs'
          PROVE  RunFile(run) # RunFile(job'[u].run)
      <3>1. CASE u = t BY <1>9, <1>11, <3>1
      <3>2. CASE u # t
        <4>1. Cuts(job[u], x) BY <1>9, <2>4, <3>2
        <4>2. RunFile(run) # RunFile(job[u].run)
          BY <1>11, <4>1 DEF IngestIInv, RunsAreDated
        <4>q. QED BY <1>9, <4>2
      <3>q. QED BY <3>1, <3>2
    <2>q. QED BY <2>1, <2>2, <2>3, <2>4
  <1>13. \A u \in Runners : job'[u].pc \in {"write", "dump"} => job'[u].run.at \in 1..stamps
    BY <1>9 DEF IngestIInv, RunsAreDated
  <1>14. \A x \in Feeds \X Roads : newest[x] <= stamps BY DEF IngestIInv, RunsAreDated
  <1>15. RunsAreDated'
    BY <1>1, <1>12, <1>13, <1>14 DEF RunsAreDated, NoneNewer, LastThere
  <1>q. QED BY <1>0, <1>1, <1>6, <1>7, <1>8, <1>11, <1>15 DEF IngestIInv, IngestTypeOK

(* A run that is written is the newest of its route, if no two were stamped  *)
(* and not written at once.                                                  *)
LEMMA WriteRunKeeps == ASSUME IngestIInv, NEW t \in Runners, WriteRun(t) PROVE IngestIInv'
  <1> USE IngestAssumption
  <1> DEFINE c == job[t]  run == c.run  road == Road(c)
             next == IF c.left = 0 THEN Idle
                     ELSE [pc |-> "parse", feed |-> run.feed, road |-> run.road,
                           left |-> c.left]
  <1>0. /\ job \in [Runners -> Jobs \cup {Idle}] /\ stamps \in Nat /\ stamps <= MaxStamps
        /\ newest \in [Feeds \X Roads -> 0..MaxStamps] /\ raced \subseteq Feeds \X Roads
        /\ runs \subseteq Runs
    BY DEF IngestIInv, IngestTypeOK
  <1>1. /\ c.pc = "dump"
        /\ \/ runs' = OtherFiles(run) \cup {run}
           \/ runs # OtherFiles(run) /\ runs' = OtherFiles(run)
        /\ newest' = [newest EXCEPT ![road] = run.at]
        /\ spoiled' = spoiled \ {road}
        /\ Proceeds(t, next)
        /\ UNCHANGED <<totals, stamps, raced>>
    BY DEF WriteRun
  <1>22. runs' \subseteq runs \cup {run} /\ OtherFiles(run) \subseteq runs'
    BY <1>1 DEF OtherFiles
  <1>2. c \in Saves BY <1>0, <1>1, KindOfJob
  <1>3. /\ run \in Drafts /\ c.left \in 0..MaxFetched
        /\ run.feed \in Feeds /\ run.road \in Roads
    BY <1>2 DEF Saves, Drafts
  <1>4. run.at \in 1..stamps /\ (run.road = "scrape" => c.left = 0)
    BY <1>1 DEF IngestIInv, RunsAreDated, ScrapesAreOne, Whole
  <1>5. run \in Runs BY <1>0, <1>3, <1>4 DEF Drafts, Runs
  <1>6. next \in Jobs \cup {Idle} /\ next.pc \in {"idle", "parse"} /\ Whole(next)
    <2>1. CASE c.left = 0 BY <2>1, IdleIsJob
    <2>2. CASE c.left # 0
      <3>1. run.road \in {"upload", "email"} BY <1>3, <1>4, <2>2 DEF Roads
      <3>2. c.left \in 1..MaxFetched BY <1>3, <2>2
      <3>q. QED BY <1>3, <2>2, <3>1, <3>2, ParseIsJob
    <2>q. QED BY <2>1, <2>2
  <1>7. road \in Feeds \X Roads /\ run.at \in 0..MaxStamps /\ run.at \in Nat /\ run.at # 0
        /\ run.at <= stamps
    BY <1>0, <1>3, <1>4 DEF Road
  <1>8. Writes(job[t], road) /\ Cuts(job[t], road) BY <1>1 DEF Writes, Cuts
  <1>9. <<run.feed, run.road>> = road BY DEF Road
  <1> HIDE DEF next
  <1>10. ChannelsAreOwn' BY <1>1, <1>6, NoScrape
  <1>11. ScrapesAreOne' BY <1>1, <1>6, OneWhole
  <1>12. /\ job' \in [Runners -> Jobs \cup {Idle}]
         /\ job'[t] = next /\ \A u \in Runners \ {t} : job'[u] = job[u]
    BY <1>1, <1>6, OneJob DEF IngestIInv
  <1>23. road \notin raced => runs' = runs \cup {run}
    <2>1. road \notin raced => \A r \in runs : RunFile(r) # RunFile(run)
      BY <1>7, <1>8 DEF IngestIInv, RunsAreDated
    <2>q. QED BY <1>1, <2>1 DEF OtherFiles
  <1> HIDE DEF c, run, road
  <1>13. /\ newest' \in [Feeds \X Roads -> 0..MaxStamps] /\ newest'[road] = run.at
         /\ \A x \in Feeds \X Roads : x # road => newest'[x] = newest[x]
    BY <1>0, <1>1, <1>7
  <1>14. ~(\E x : Writes(job'[t], x) \/ Cuts(job'[t], x)) BY <1>6, <1>12 DEF Writes, Cuts
  <1>15. \A x \in Feeds \X Roads : newest[x] \in Nat /\ newest[x] <= stamps
    BY <1>0 DEF IngestIInv, RunsAreDated
  <1>24. \A r : <<r.feed, r.road>> # road => RunFile(r) # RunFile(run)
    BY <1>9 DEF RunFile
  <1>16. ASSUME NEW x \in (Feeds \X Roads) \ raced
         PROVE  /\ NoneNewer(x, runs', newest')
                /\ x \notin spoiled' /\ (\A u \in Runners : ~Cuts(job'[u], x))
                     => LastThere(x, runs', newest')
    <2>1. NoneNewer(x, runs, newest) BY <1>16 DEF IngestIInv, RunsAreDated
    <2>2. CASE x = road
      <3>1. newest[x] < run.at
        BY <1>8, <1>16, <2>2 DEF IngestIInv, RunsAreDated, run, c
      <3>2. \A r \in runs : r.at \in Nat BY <1>0 DEF Runs
      <3>3. \A r \in runs : <<r.feed, r.road>> = x => r.at <= run.at
        BY <1>7, <1>15, <2>1, <3>1, <3>2 DEF NoneNewer
      <3>4. NoneNewer(x, runs', newest')
        BY <1>7, <1>13, <1>22, <2>2, <3>3 DEF NoneNewer
      <3>5. LastThere(x, runs', newest')
        BY <1>9, <1>13, <1>16, <1>23, <2>2 DEF LastThere
      <3>q. QED BY <3>4, <3>5
    <2>3. CASE x # road
      <3>1. newest'[x] = newest[x] BY <1>13, <2>3
      <3>2. \A r \in runs : <<r.feed, r.road>> = x => r \in runs'
        BY <1>22, <1>24, <2>3 DEF OtherFiles
      <3>3. \A r \in runs' : <<r.feed, r.road>> = x => r \in runs
        BY <1>9, <1>22, <2>3
      <3>4. NoneNewer(x, runs', newest') BY <2>1, <3>1, <3>3 DEF NoneNewer
      <3>5. ASSUME x \notin spoiled', \A u \in Runners : ~Cuts(job'[u], x)
            PROVE  LastThere(x, runs', newest')
        <4>1. x \notin spoiled BY <1>1, <2>3, <3>5
        <4>2. ~Cuts(job[t], x) BY <1>8, <2>3 DEF Cuts
        <4>3. \A u \in Runners : ~Cuts(job[u], x) BY <1>12, <3>5, <4>2
        <4>4. LastThere(x, runs, newest)
          BY <1>16, <4>1, <4>3 DEF IngestIInv, RunsAreDated
        <4>q. QED BY <3>1, <3>2, <4>4 DEF LastThere
      <3>q. QED BY <3>4, <3>5
    <2>q. QED BY <2>2, <2>3
  <1>17. ASSUME NEW x \in (Feeds \X Roads) \ raced, NEW u \in Runners, Writes(job'[u], x)
         PROVE  newest'[x] < job'[u].run.at /\ \A v \in Runners : Writes(job'[v], x) => v = u
    <2>1. u # t /\ job'[u] = job[u] BY <1>12, <1>14, <1>17
    <2>2. Writes(job[u], x) BY <1>17, <2>1
    <2>3. newest[x] < job[u].run.at /\ \A v \in Runners : Writes(job[v], x) => v = u
      BY <2>2 DEF IngestIInv, RunsAreDated
    <2>4. x # road BY <1>8, <2>1, <2>3
    <2>5. \A v \in Runners : Writes(job'[v], x) => v = u
      <3>1. \A v \in Runners \ {t} : Writes(job'[v], x) <=> Writes(job[v], x) BY <1>12
      <3>q. QED BY <1>14, <2>3, <3>1
    <2>q. QED BY <1>13, <2>1, <2>3, <2>4, <2>5
  <1>18. ASSUME NEW u \in Runners, job'[u].pc \in {"write", "dump"}
         PROVE  job'[u].run.at \in 1..stamps'
    <2>1. u # t BY <1>6, <1>12, <1>18
    <2>2. job'[u] = job[u] BY <1>12, <2>1
    <2>q. QED BY <1>1, <1>18, <2>2 DEF IngestIInv, RunsAreDated
  <1>25. ASSUME NEW x \in (Feeds \X Roads) \ raced, NEW u \in Runners, Cuts(job'[u], x),
                NEW r \in runs'
         PROVE  RunFile(r) # RunFile(job'[u].run)
    <2>1. u # t /\ job'[u] = job[u] BY <1>12, <1>14, <1>25
    <2>2. Cuts(job[u], x) /\ Writes(job[u], x) BY <1>25, <2>1 DEF Cuts, Writes
    <2>3. x # road
      BY <1>8, <2>1, <2>2 DEF IngestIInv, RunsAreDated
    <2>4. CASE r \in runs BY <2>1, <2>2, <2>4 DEF IngestIInv, RunsAreDated
    <2>5. CASE r = run
      <3>1. Road(job[u]) = x BY <2>2 DEF Cuts
      <3>q. QED BY <1>9, <2>1, <2>3, <2>5, <3>1 DEF Road, RunFile
    <2>q. QED BY <1>22, <2>4, <2>5
  <1>19. \A x \in Feeds \X Roads : newest'[x] <= stamps'
    BY <1>1, <1>7, <1>13, <1>15
  <1>20. RunsAreDated' BY <1>1, <1>16, <1>17, <1>18, <1>19, <1>25 DEF RunsAreDated
  <1>21. runs' \subseteq Runs BY <1>0, <1>5, <1>22
  <1>26. spoiled' \subseteq Feeds \X Roads BY <1>1 DEF IngestIInv, IngestTypeOK
  <1>q. QED BY <1>1, <1>10, <1>11, <1>12, <1>13, <1>20, <1>21, <1>26 DEF IngestIInv, IngestTypeOK

(* The server goes down: of what was being written the last may be missing.  *)
LEMMA ServerStopsKeeps == ASSUME IngestIInv, ServerStops PROVE IngestIInv'
  <1>1. /\ job' = [t \in Runners |-> Idle] /\ totals' = [f \in Feeds |-> <<>>]
        /\ spoiled' = spoiled \cup {Road(job[t]) : t \in {u \in Runners : job[u].pc = "dump"}}
        /\ UNCHANGED <<runs, stamps, raced, newest>>
    BY DEF ServerStops
  <1>2. \A t \in Runners : job'[t] = Idle /\ job'[t].pc = "idle" BY <1>1, IdleIsJob
  <1>3. IngestTypeOK'
    <2>1. <<>> \in Seq(BOOLEAN) OBVIOUS
    <2>2. totals' \in [Feeds -> Seq(BOOLEAN)] BY <1>1, <2>1
    <2>3. job' \in [Runners -> Jobs \cup {Idle}] BY <1>1
    <2>4. ASSUME NEW t \in Runners, job[t].pc = "dump" PROVE Road(job[t]) \in Feeds \X Roads
      <3>1. job[t] \in Saves BY <2>4, KindOfJob DEF IngestIInv, IngestTypeOK
      <3>q. QED BY <3>1 DEF Saves, Drafts, Road
    <2>5. spoiled' \subseteq Feeds \X Roads BY <1>1, <2>4 DEF IngestIInv, IngestTypeOK
    <2>q. QED BY <1>1, <2>2, <2>3, <2>5 DEF IngestIInv, IngestTypeOK
  <1>4. ChannelsAreOwn' BY <1>2 DEF ChannelsAreOwn, OwnChannel, Apart
  <1>5. ScrapesAreOne' BY <1>2 DEF ScrapesAreOne, Whole
  <1>6. ASSUME NEW x \in (Feeds \X Roads) \ raced, x \notin spoiled'
        PROVE  LastThere(x, runs, newest)
    <2>1. \A t \in Runners : ~Cuts(job[t], x) BY <1>1, <1>6 DEF Cuts
    <2>2. x \notin spoiled BY <1>1, <1>6
    <2>q. QED BY <2>1, <2>2 DEF IngestIInv, RunsAreDated
  <1>7. \A t \in Runners : \A x : ~Writes(job'[t], x) /\ ~Cuts(job'[t], x)
    BY <1>2 DEF Writes, Cuts
  <1>8. RunsAreDated'
    BY <1>1, <1>2, <1>6, <1>7 DEF IngestIInv, RunsAreDated, NoneNewer, LastThere
  <1>q. QED BY <1>3, <1>4, <1>5, <1>8 DEF IngestIInv

LEMMA IngestKeeps == IngestIInv /\ [IngestNext]_ingestVars => IngestIInv'
  <1> SUFFICES ASSUME IngestIInv, [IngestNext]_ingestVars PROVE IngestIInv' OBVIOUS
  <1>1. ASSUME NEW t \in Runners, IngestCall(t) PROVE IngestIInv'
    BY <1>1, OpenChannelKeeps, ScraperKeeps, CallsKeep, StampKeeps, TruncateRunKeeps,
       WriteRunKeeps
    DEF IngestCall
  <1>2. CASE UNCHANGED ingestVars
    BY <1>2 DEF ingestVars, IngestIInv, IngestTypeOK, ChannelsAreOwn, RunsAreDated,
                ScrapesAreOne, NoneNewer, LastThere, Writes, Cuts, Whole, OwnChannel, Apart
  <1>q. QED BY <1>1, <1>2, ServerStopsKeeps DEF IngestNext

LEMMA IngestInvariant == IngestSpec => []IngestIInv
  BY IngestStarts, IngestKeeps, PTL DEF IngestSpec

(* Every variable of the ingest has its type. *)
THEOREM IngestTyped == IngestSpec => []IngestTypeOK
  <1>1. IngestIInv => IngestTypeOK BY DEF IngestIInv
  <1>q. QED BY <1>1, IngestInvariant, PTL

(* What the graph shows of a route is the last run it delivered. *)
LEMMA NewestShows == IngestIInv => NewestIsShown
  <1> SUFFICES ASSUME IngestIInv, NEW f \in Feeds, NEW r \in Roads,
                      <<f, r>> \notin raced \cup spoiled,
                      \A t \in Runners : job[t].pc = "dump" => Road(job[t]) # <<f, r>>
               PROVE  Shown(f, r) = newest[<<f, r>>]
    BY DEF NewestIsShown
  <1> DEFINE at == {run.at : run \in {x \in runs : x.feed = f /\ x.road = r}}
             last == newest[<<f, r>>]
  <1>1. NoneNewer(<<f, r>>, runs, newest) /\ LastThere(<<f, r>>, runs, newest)
    BY DEF IngestIInv, RunsAreDated, Cuts
  <1>2. runs \subseteq Runs /\ last \in Nat BY DEF IngestIInv, IngestTypeOK
  <1>3. at \subseteq Nat BY <1>2 DEF Runs
  <1>4. last \in at \cup {0} /\ \A b \in at : b <= last BY <1>1 DEF NoneNewer, LastThere
  <1>5. ASSUME NEW a \in at \cup {0}, \A b \in at : b <= a PROVE a = last
    <2>1. a \in Nat /\ a >= 0 BY <1>3
    <2>2. CASE last \in at
      <3>1. last <= a BY <1>5, <2>2
      <3>2. a <= last BY <1>2, <1>4
      <3>q. QED BY <1>2, <2>1, <3>1, <3>2
    <2>3. CASE last = 0
      <3>1. a \in at => a <= 0 BY <1>4, <2>3
      <3>q. QED BY <2>1, <2>3, <3>1
    <2>q. QED BY <1>4, <2>2, <2>3
  <1> DEFINE shown == CHOOSE a \in at \cup {0} : \A b \in at : b <= a
  <1>6. shown \in at \cup {0} /\ \A b \in at : b <= shown BY <1>4
  <1>7. Shown(f, r) = shown BY DEF Shown
  <1> HIDE DEF shown, at, last
  <1>8. shown = last BY <1>5, <1>6
  <1>q. QED BY <1>7, <1>8 DEF last

THEOREM NewestRunShows == IngestSpec => []NewestIsShown
  BY NewestShows, IngestInvariant, PTL

(* The verdict on a scrape is on the totals it recorded itself. *)
THEOREM VerdictsAreOwn == IngestSpec => VerdictIsOwn
  <1> DEFINE A == \A t \in Runners, v \in {"unchecked", "short", "balanced"} :
                    job[t].pc = "summary" /\ job[t].alone /\ Summarise(t, v)
                      => v = IF job[t].own = <<>> THEN "unchecked"
                             ELSE IF \A i \in DOMAIN job[t].own : job[t].own[i]
                             THEN "balanced" ELSE "short"
  <1>1. IngestIInv => A
    <2> SUFFICES ASSUME IngestIInv, NEW t \in Runners,
                        NEW v \in {"unchecked", "short", "balanced"},
                        job[t].pc = "summary", job[t].alone, Summarise(t, v)
                 PROVE  v = IF job[t].own = <<>> THEN "unchecked"
                            ELSE IF \A i \in DOMAIN job[t].own : job[t].own[i]
                            THEN "balanced" ELSE "short"
      OBVIOUS
    <2>1. v = Verdict(totals[job[t].feed]) BY DEF Summarise
    <2>2. totals[job[t].feed] = job[t].own
      BY DEF IngestIInv, ChannelsAreOwn, OwnChannel
    <2>q. QED BY <2>1, <2>2 DEF Verdict
  <1>2. IngestSpec => [][A]_ingestVars
    <2>1. IngestIInv /\ [IngestNext]_ingestVars => [A]_ingestVars BY <1>1
    <2>q. QED BY <2>1, IngestInvariant, PTL DEF IngestSpec
  <1>q. QED BY <1>2 DEF VerdictIsOwn

-----------------------------------------------------------------------------
Loads == [pc : {"load"}, of : Portals, op : {"save", "reset"}, value : Stored]
Edits == [pc : {"truncate", "dump"}, of : Portals,
          op : {"save", "reset", "run"}, value : Stored, doc : File]
Visits == [pc : {"portal", "select"}, of : Portals, value : Choices,
           found : SUBSET Properties, answered : BOOLEAN]

Editing(c) == c.pc \in {"truncate", "dump"}
PullingOf(c, s) ==
    \/ c.pc \in {"portal", "select"} /\ c.of = s
    \/ c.pc \in {"truncate", "dump"} /\ c.of = s /\ c.op = "run"

(* What a run writes is what it has found at its own portal. *)
RunFits(c) ==
    Editing(c) /\ c.op = "run" => c.value \in Choices /\ c.doc.discovered[c.of] \subseteq Properties

RunsFit == \A t \in Desks : RunFits(desk[t])

(* What a call is about to write is the file as it is, but for its own part. *)
OwnPart(c, src, disc) ==
    Editing(c) =>
      IF c.op = "run"
      THEN c.doc.sources = src /\ \A s \in Portals : s # c.of => c.doc.discovered[s] = disc[s]
      ELSE c.doc.sources = [src EXCEPT ![c.of] = c.value] /\ c.doc.discovered = disc

(* A run that selects knows what the file says was found. *)
Knows(c, disc) == c.pc = "select" /\ c.answered => disc[c.of] = c.found

(* A choice that a run which found these properties cannot keep. *)
LeftOut(v, found) ==
    v # "all" /\ (v \notin found \ Never \/ v \in Properties \ Numeric)

(* Of all that: while it is clear, one call edits the file, one run pulls    *)
(* from a portal, and what could not be kept is not among what was found, or *)
(* has no number for its id.                                                 *)
Unhindered ==
    /\ sources = chosen
    /\ \A t, u \in Desks : Editing(desk[t]) /\ Editing(desk[u]) => t = u
    /\ emptied => \E t \in Desks : desk[t].pc = "dump"
    /\ \A t \in Desks : desk[t].pc = "dump" => emptied
    /\ \A t \in Desks : OwnPart(desk[t], sources, discovered)
    /\ \A t, u \in Desks, s \in Portals :
         PullingOf(desk[t], s) /\ PullingOf(desk[u], s) => t = u
    /\ \A t \in Desks : Knows(desk[t], discovered)
    /\ \A s \in Portals : fellBack[s] # Unchosen =>
         /\ LeftOut(fellBack[s], discovered[s])
         /\ \A t \in Desks : ~PullingOf(desk[t], s)

SettingsIInv == SettingsTypeOK /\ RunsFit /\ (clear => Unhindered)

-----------------------------------------------------------------------------
LEMMA DeskKinds == AtDesk = Loads \cup Edits \cup Visits
  BY DEF AtDesk, Loads, Edits, Visits

LEMMA KindOfDesk ==
    ASSUME NEW c \in AtDesk \cup {Off}
    PROVE  /\ c.pc = "load" => c \in Loads
           /\ c.pc \in {"truncate", "dump"} => c \in Edits
           /\ c.pc \in {"portal", "select"} => c \in Visits
  BY DeskKinds DEF Loads, Edits, Visits, Off

LEMMA OffIsDesk ==
    /\ Off \in AtDesk \cup {Off} /\ Off.pc = "off"
    /\ RunFits(Off)
  BY DEF Off, RunFits, Editing

LEMMA FileIs ==
    /\ [sources |-> sources, discovered |-> discovered] \in File
         => sources \in [Portals -> Stored] /\ discovered \in [Portals -> Found]
    /\ Blank \in File
  <1>1. Never \in Found /\ Unchosen \in Stored BY DEF Found, Stored
  <1>2. Blank \in File BY <1>1 DEF File, Blank
  <1>3. ASSUME [sources |-> sources, discovered |-> discovered] \in File
        PROVE  sources \in [Portals -> Stored] /\ discovered \in [Portals -> Found]
    BY <1>3 DEF File
  <1>q. QED BY <1>2, <1>3

LEMMA ReadFileType == SettingsTypeOK => ReadFile \in File
  BY FileIs DEF SettingsTypeOK, ReadFile

LEMMA SettingsStarts == SettingsInit => SettingsIInv
  <1> SUFFICES ASSUME SettingsInit PROVE SettingsIInv OBVIOUS
  <1> USE SettingsAssumption
  <1>1. SettingsTypeOK
    <2>1. [sources |-> sources, discovered |-> discovered] \in File
      <3>1. sources = Blank.sources /\ discovered = Blank.discovered BY DEF SettingsInit
      <3>2. Blank = [sources |-> Blank.sources, discovered |-> Blank.discovered] BY DEF Blank
      <3>q. QED BY <3>1, <3>2, FileIs
    <2>2. desk \in [Desks -> AtDesk \cup {Off}] BY DEF SettingsInit
    <2>3. chosen \in [Portals -> Stored] /\ fellBack \in [Portals -> Stored]
      BY DEF SettingsInit, Blank, Stored
    <2>4. offers \in [Portals -> SUBSET Properties] BY DEF SettingsInit
    <2>5. visits \in 0..MaxVisits
      <3>1. visits = 0 BY DEF SettingsInit
      <3>q. QED BY <3>1
    <2>6. {emptied, clear} \subseteq BOOLEAN BY DEF SettingsInit
    <2>q. QED BY <2>1, <2>2, <2>3, <2>4, <2>5, <2>6 DEF SettingsTypeOK
  <1>2. \A t \in Desks : desk[t] = Off BY DEF SettingsInit
  <1>3. RunsFit BY <1>2, OffIsDesk DEF RunsFit
  <1>4. \A s \in Portals : fellBack[s] = Unchosen BY DEF SettingsInit, Blank
  <1>5. Unhindered
    BY <1>2, <1>4, OffIsDesk DEF SettingsInit, Unhindered, Editing, PullingOf, OwnPart, Knows
  <1>q. QED BY <1>1, <1>3, <1>5 DEF SettingsIInv

(* A step that sets one desk. *)
LEMMA OneDesk ==
    ASSUME SettingsIInv, NEW t \in Desks, NEW c \in AtDesk \cup {Off}, RunFits(c),
           desk' = [desk EXCEPT ![t] = c]
    PROVE  /\ desk' \in [Desks -> AtDesk \cup {Off}]
           /\ desk'[t] = c /\ \A u \in Desks \ {t} : desk'[u] = desk[u]
           /\ RunsFit'
  <1>1. /\ desk' \in [Desks -> AtDesk \cup {Off}]
        /\ desk'[t] = c /\ \A u \in Desks \ {t} : desk'[u] = desk[u]
    BY DEF SettingsIInv, SettingsTypeOK
  <1>2. ASSUME NEW u \in Desks PROVE RunFits(desk'[u])
    <2>1. RunFits(desk[u]) BY DEF SettingsIInv, RunsFit
    <2>2. CASE u = t BY <1>1, <2>2
    <2>3. CASE u # t
      <3>1. desk'[u] = desk[u] BY <1>1, <2>3
      <3>q. QED BY <2>1, <3>1
    <2>q. QED BY <2>2, <2>3
  <1>q. QED BY <1>1, <1>2 DEF RunsFit

(* A desk that edits nothing, and pulls from where it did or from nowhere.   *)
LEMMA DeskGoesOn ==
    ASSUME SettingsIInv, NEW t \in Desks, NEW c \in AtDesk \cup {Off},
           desk' = [desk EXCEPT ![t] = c], desk[t].pc \notin {"truncate", "dump"},
           c.pc \notin {"truncate", "dump"},
           \A s \in Portals : PullingOf(c, s) => PullingOf(desk[t], s),
           Unhindered => Knows(c, discovered),
           UNCHANGED <<sources, discovered, emptied, chosen, fellBack>>
    PROVE  RunsFit' /\ (Unhindered => Unhindered') /\ desk' \in [Desks -> AtDesk \cup {Off}]
  <1>1. RunFits(c) BY DEF RunFits, Editing
  <1>2. /\ desk' \in [Desks -> AtDesk \cup {Off}]
        /\ desk'[t] = c /\ \A u \in Desks \ {t} : desk'[u] = desk[u]
        /\ RunsFit'
    BY <1>1, OneDesk
  <1>3. ASSUME Unhindered PROVE Unhindered'
    <2>1. ASSUME NEW u \in Desks
          PROVE  /\ Editing(desk'[u]) => Editing(desk[u]) /\ desk'[u] = desk[u]
                 /\ \A s \in Portals : PullingOf(desk'[u], s) => PullingOf(desk[u], s)
                 /\ OwnPart(desk'[u], sources', discovered')
                 /\ Knows(desk'[u], discovered')
      <3>1. CASE u = t BY <1>2, <1>3, <3>1 DEF Editing, OwnPart
      <3>2. CASE u # t
        <4>1. desk'[u] = desk[u] BY <1>2, <3>2
        <4>2. OwnPart(desk[u], sources, discovered) /\ Knows(desk[u], discovered)
          BY <1>3 DEF Unhindered
        <4>q. QED BY <4>1, <4>2
      <3>q. QED BY <3>1, <3>2
    <2>2. \A u \in Desks : desk'[u].pc = "dump" <=> desk[u].pc = "dump" BY <1>2
    <2>3. (emptied => \E u \in Desks : desk[u].pc = "dump")
          /\ \A u \in Desks : desk[u].pc = "dump" => emptied
      BY <1>3 DEF Unhindered
    <2>4. /\ emptied' => \E u \in Desks : desk'[u].pc = "dump"
          /\ \A u \in Desks : desk'[u].pc = "dump" => emptied'
      BY <2>2, <2>3
    <2>5. \A u, v \in Desks : Editing(desk'[u]) /\ Editing(desk'[v]) => u = v
      BY <1>3, <2>1 DEF Unhindered
    <2>6. \A u, v \in Desks, s \in Portals :
            PullingOf(desk'[u], s) /\ PullingOf(desk'[v], s) => u = v
      BY <1>3, <2>1 DEF Unhindered
    <2>7. \A s \in Portals : fellBack'[s] # Unchosen =>
            /\ LeftOut(fellBack'[s], discovered'[s])
            /\ \A u \in Desks : ~PullingOf(desk'[u], s)
      BY <1>3, <2>1 DEF Unhindered
    <2>8. sources' = chosen' BY <1>3 DEF Unhindered
    <2>q. QED BY <2>1, <2>4, <2>5, <2>6, <2>7, <2>8 DEF Unhindered
  <1>q. QED BY <1>2, <1>3

LEMMA Comings ==
    ASSUME SettingsIInv, NEW t \in Desks, NEW c, Comes(t, c)
    PROVE  /\ desk[t] = Off /\ desk[t].pc = "off" /\ visits' \in 0..MaxVisits
           /\ desk' = [desk EXCEPT ![t] = c]
  BY SettingsAssumption, OffIsDesk DEF Comes, SettingsIInv, SettingsTypeOK

LEMMA SavesKeep ==
    ASSUME SettingsIInv, NEW t \in Desks, NEW s \in Portals, SaveFor(t, s) \/ ResetFor(t, s)
    PROVE  SettingsIInv'
  <1>1. PICK c \in Loads : Sits(t, c)
    <2>1. CASE ResetFor(t, s)
      <3>1. [pc |-> "load", of |-> s, op |-> "reset", value |-> Unchosen] \in Loads
        BY DEF Loads, Stored
      <3>q. QED BY <2>1, <3>1 DEF ResetFor
    <2>2. CASE SaveFor(t, s)
      <3>1. PICK v \in Schema(ReadFile, s) :
              Sits(t, [pc |-> "load", of |-> s, op |-> "save", value |-> v])
        BY <2>2 DEF SaveFor
      <3>2. ReadFile.discovered[s] \in Found
        BY ReadFileType DEF SettingsIInv, File
      <3>3. ReadFile.discovered[s] \ Never \subseteq Properties BY <3>2 DEF Found
      <3>4. v \in Stored BY <3>1, <3>3 DEF Schema, Stored, Choices
      <3>5. [pc |-> "load", of |-> s, op |-> "save", value |-> v] \in Loads
        BY <3>4 DEF Loads
      <3>q. QED BY <3>1, <3>5
    <2>q. QED BY <2>1, <2>2
  <1>2. c \in AtDesk \cup {Off} /\ c.pc = "load" BY DeskKinds DEF Loads
  <1>3. /\ desk' = [desk EXCEPT ![t] = c] /\ desk[t].pc = "off" /\ visits' \in 0..MaxVisits
        /\ UNCHANGED <<sources, discovered, emptied, offers, chosen, fellBack, clear>>
    BY <1>1, Comings DEF Sits
  <1>4. RunsFit' /\ (Unhindered => Unhindered') /\ desk' \in [Desks -> AtDesk \cup {Off}]
    BY <1>2, <1>3, DeskGoesOn DEF PullingOf, Knows
  <1>q. QED BY <1>3, <1>4 DEF SettingsIInv, SettingsTypeOK

(* A call that has read the file while no other has is about to write it as  *)
(* it is, but for its own part.                                              *)
LEMMA EditBegins ==
    ASSUME SettingsIInv, NEW t \in Desks, NEW c \in Edits, c.pc = "truncate", RunFits(c),
           desk' = [desk EXCEPT ![t] = c], Reads(t),
           ~emptied => OwnPart(c, sources, discovered),
           \A s \in Portals : PullingOf(c, s) => PullingOf(desk[t], s),
           UNCHANGED <<visits, sources, discovered, emptied, offers, chosen, fellBack>>
    PROVE  SettingsIInv'
  <1>0. c \in AtDesk \cup {Off} BY DeskKinds
  <1>1. /\ desk' \in [Desks -> AtDesk \cup {Off}]
        /\ desk'[t] = c /\ \A u \in Desks \ {t} : desk'[u] = desk[u]
        /\ RunsFit'
    BY <1>0, OneDesk
  <1>2. ASSUME clear' PROVE Unhindered'
    <2>1. Unhindered /\ \A u \in Desks : ~Editing(desk[u]) BY <1>2 DEF Reads, SettingsIInv, Editing
    <2>2. ~emptied BY <2>1 DEF Unhindered, Editing
    <2>3. ASSUME NEW u \in Desks
          PROVE  /\ Editing(desk'[u]) => u = t
                 /\ \A s \in Portals : PullingOf(desk'[u], s) => PullingOf(desk[u], s)
                 /\ OwnPart(desk'[u], sources', discovered')
                 /\ Knows(desk'[u], discovered')
                 /\ desk'[u].pc # "dump"
      <3>1. CASE u = t BY <1>1, <2>2, <3>1 DEF Knows
      <3>2. CASE u # t
        <4>1. desk'[u] = desk[u] BY <1>1, <3>2
        <4>2. OwnPart(desk[u], sources, discovered) /\ Knows(desk[u], discovered)
          BY <2>1 DEF Unhindered
        <4>q. QED BY <2>1, <4>1, <4>2 DEF Editing
      <3>q. QED BY <3>1, <3>2
    <2>4. \A u, v \in Desks : Editing(desk'[u]) /\ Editing(desk'[v]) => u = v BY <2>3
    <2>5. \A u, v \in Desks, s \in Portals :
            PullingOf(desk'[u], s) /\ PullingOf(desk'[v], s) => u = v
      BY <2>1, <2>3 DEF Unhindered
    <2>6. \A s \in Portals : fellBack'[s] # Unchosen =>
            /\ LeftOut(fellBack'[s], discovered'[s])
            /\ \A u \in Desks : ~PullingOf(desk'[u], s)
      BY <2>1, <2>3 DEF Unhindered
    <2>7. sources' = chosen' BY <2>1 DEF Unhindered
    <2>8. ~emptied' BY <2>2
    <2>q. QED BY <2>3, <2>4, <2>5, <2>6, <2>7, <2>8 DEF Unhindered
  <1>3. clear' \in BOOLEAN BY DEF Reads, SettingsIInv, SettingsTypeOK
  <1>q. QED BY <1>1, <1>2, <1>3 DEF SettingsIInv, SettingsTypeOK

LEMMA LoadFileKeeps == ASSUME SettingsIInv, NEW t \in Desks, LoadFile(t) PROVE SettingsIInv'
  <1> DEFINE c == desk[t]  f == ReadFile
             doc == [f EXCEPT !.sources[c.of] = c.value]
             d == [pc |-> "truncate", of |-> c.of, op |-> c.op, value |-> c.value, doc |-> doc]
  <1>1. /\ c.pc = "load" /\ desk' = [desk EXCEPT ![t] = d] /\ Reads(t)
        /\ UNCHANGED <<visits, sources, discovered, emptied, offers, chosen, fellBack>>
    BY DEF LoadFile, Turn
  <1>2. c \in Loads BY <1>1, KindOfDesk DEF SettingsIInv, SettingsTypeOK
  <1>3. f \in File BY ReadFileType DEF SettingsIInv
  <1>4. c.of \in Portals /\ c.value \in Stored /\ c.op \in {"save", "reset"}
    BY <1>2 DEF Loads
  <1>5. f.sources \in [Portals -> Stored] /\ f.discovered \in [Portals -> Found]
    BY <1>3 DEF File
  <1>6. doc.sources = [f.sources EXCEPT ![c.of] = c.value] /\ doc.discovered = f.discovered
        /\ doc \in File
    BY <1>3, <1>4 DEF File
  <1>7. ~emptied => f.sources = sources /\ f.discovered = discovered BY DEF ReadFile
  <1> HIDE DEF doc, f
  <1>8. d \in Edits /\ d.pc = "truncate" /\ d.of = c.of /\ d.op = c.op /\ d.doc = doc
        /\ d.value = c.value
    BY <1>4, <1>6 DEF Edits
  <1> HIDE DEF d
  <1>9. ~emptied => OwnPart(d, sources, discovered)
    BY <1>4, <1>6, <1>7, <1>8 DEF OwnPart
  <1>10. \A s \in Portals : ~PullingOf(d, s) BY <1>4, <1>8 DEF PullingOf
  <1>11. RunFits(d) BY <1>4, <1>8 DEF RunFits
  <1>q. QED BY <1>1, <1>8, <1>9, <1>10, <1>11, EditBegins

LEMMA RecordKeeps == ASSUME SettingsIInv, NEW t \in Desks, Record(t) PROVE SettingsIInv'
  <1> DEFINE c == desk[t]  f == ReadFile  found == offers[c.of]
             doc == [f EXCEPT !.discovered[c.of] = found]
             d == [pc |-> "truncate", of |-> c.of, op |-> "run", value |-> c.value, doc |-> doc]
             e == [c EXCEPT !.pc = "select", !.found = found]
  <1>1. /\ c.pc = "portal"
        /\ desk' = [desk EXCEPT ![t] = IF f.discovered[c.of] = found THEN e ELSE d]
        /\ IF f.discovered[c.of] = found THEN UNCHANGED clear ELSE Reads(t)
        /\ UNCHANGED <<visits, sources, discovered, emptied, offers, chosen, fellBack>>
    BY DEF Record, Turn
  <1>2. c \in Visits BY <1>1, KindOfDesk DEF SettingsIInv, SettingsTypeOK
  <1>3. f \in File BY ReadFileType DEF SettingsIInv
  <1>4. c.of \in Portals /\ c.value \in Choices BY <1>2 DEF Visits
  <1>5. f.sources \in [Portals -> Stored] /\ f.discovered \in [Portals -> Found]
    BY <1>3 DEF File
  <1>6. found \in SUBSET Properties /\ found \in Found
    BY <1>4 DEF SettingsIInv, SettingsTypeOK, Found
  <1>7. ~emptied => f.sources = sources /\ f.discovered = discovered BY DEF ReadFile
  <1>8. CASE f.discovered[c.of] = found
    <2>1. e \in Visits /\ e.pc = "select" /\ e.of = c.of /\ e.found = found
      BY <1>2, <1>6 DEF Visits
    <2>2. emptied => f.discovered[c.of] = Never BY <1>4 DEF ReadFile, Blank
    <2>3. found # Never BY <1>6, SettingsAssumption DEF Never
    <2>4. ~emptied BY <1>8, <2>2, <2>3
    <2>5. Knows(e, discovered) BY <1>7, <1>8, <2>1, <2>4 DEF Knows
    <2>6. \A s \in Portals : PullingOf(e, s) => PullingOf(c, s)
      BY <1>1, <2>1 DEF PullingOf
    <2>7. e \in AtDesk \cup {Off} BY <2>1, DeskKinds
    <2>8. desk' = [desk EXCEPT ![t] = e] BY <1>1, <1>8
    <2> HIDE DEF e, f, found
    <2>9. RunsFit' /\ (Unhindered => Unhindered') /\ desk' \in [Desks -> AtDesk \cup {Off}]
      BY <1>1, <2>1, <2>5, <2>6, <2>7, <2>8, DeskGoesOn
    <2>q. QED BY <1>1, <1>8, <2>9 DEF SettingsIInv, SettingsTypeOK
  <1>9. CASE f.discovered[c.of] # found
    <2>1. /\ doc.discovered = [f.discovered EXCEPT ![c.of] = found]
          /\ doc.sources = f.sources /\ doc \in File
      BY <1>3, <1>4, <1>6 DEF File
    <2> HIDE DEF doc, f, found
    <2>2. d \in Edits /\ d.pc = "truncate" /\ d.of = c.of /\ d.op = "run" /\ d.doc = doc
          /\ d.value = c.value
      BY <1>4, <2>1 DEF Edits, Stored
    <2>3. desk' = [desk EXCEPT ![t] = d] BY <1>1, <1>9
    <2> HIDE DEF d
    <2>4. ~emptied => OwnPart(d, sources, discovered)
      BY <1>4, <1>5, <1>7, <2>1, <2>2 DEF OwnPart
    <2>5. \A s \in Portals : PullingOf(d, s) => PullingOf(c, s)
      BY <1>1, <2>2 DEF PullingOf
    <2>6. RunFits(d)
      BY <1>4, <1>5, <1>6, <2>1, <2>2 DEF RunFits
    <2>q. QED BY <1>1, <1>9, <2>2, <2>3, <2>4, <2>5, <2>6, EditBegins
  <1>q. QED BY <1>8, <1>9

LEMMA RunKeeps ==
    ASSUME SettingsIInv, NEW t \in Desks, NEW s \in Portals, Run(t, s) PROVE SettingsIInv'
  <1> DEFINE c == [pc |-> "portal", of |-> s, value |-> ValueFor(ReadFile, s),
                   found |-> {}, answered |-> TRUE]
  <1>1. /\ Comes(t, c) /\ fellBack' = [fellBack EXCEPT ![s] = Unchosen]
        /\ clear' = (clear /\ \A u \in Desks : ~Pulling(u, s))
        /\ UNCHANGED <<sources, discovered, emptied, offers, chosen>>
    BY DEF Run
  <1>2. ValueFor(ReadFile, s) \in Choices
    <2>1. ReadFile.sources[s] \in Stored BY ReadFileType DEF SettingsIInv, File
    <2>q. QED BY <2>1 DEF ValueFor, Stored, Choices
  <1>3. c \in Visits /\ c.pc = "portal" /\ c.of = s BY <1>2 DEF Visits
  <1>4. /\ desk[t].pc = "off" /\ visits' \in 0..MaxVisits /\ desk' = [desk EXCEPT ![t] = c]
    BY <1>1, Comings
  <1> HIDE DEF c
  <1>5. c \in AtDesk \cup {Off} BY <1>3, DeskKinds
  <1>6. RunFits(c) BY <1>3 DEF RunFits, Editing
  <1>7. /\ desk' \in [Desks -> AtDesk \cup {Off}]
        /\ desk'[t] = c /\ \A u \in Desks \ {t} : desk'[u] = desk[u]
        /\ RunsFit'
    BY <1>4, <1>5, <1>6, OneDesk
  <1>8. fellBack \in [Portals -> Stored] /\ Unchosen \in Stored
    BY DEF SettingsIInv, SettingsTypeOK, Stored
  <1>9. /\ fellBack' \in [Portals -> Stored] /\ fellBack'[s] = Unchosen
        /\ \A r \in Portals \ {s} : fellBack'[r] = fellBack[r]
    BY <1>1, <1>8
  <1>10. ASSUME clear' PROVE Unhindered'
    <2>1. Unhindered /\ \A u \in Desks : ~PullingOf(desk[u], s)
      BY <1>1, <1>10 DEF SettingsIInv, Pulling, PullingOf
    <2>2. ASSUME NEW u \in Desks
          PROVE  /\ Editing(desk'[u]) => Editing(desk[u])
                 /\ \A r \in Portals : PullingOf(desk'[u], r) =>
                      PullingOf(desk[u], r) \/ (u = t /\ r = s)
                 /\ OwnPart(desk'[u], sources', discovered')
                 /\ Knows(desk'[u], discovered')
                 /\ desk'[u].pc = "dump" <=> desk[u].pc = "dump"
      <3>1. CASE u = t BY <1>3, <1>4, <1>7, <3>1 DEF Editing, OwnPart, Knows, PullingOf
      <3>2. CASE u # t
        <4>1. desk'[u] = desk[u] BY <1>7, <3>2
        <4>2. OwnPart(desk[u], sources, discovered) /\ Knows(desk[u], discovered)
          BY <2>1 DEF Unhindered
        <4>q. QED BY <1>1, <4>1, <4>2
      <3>q. QED BY <3>1, <3>2
    <2>3. \A u, v \in Desks : Editing(desk'[u]) /\ Editing(desk'[v]) => u = v
      BY <2>1, <2>2 DEF Unhindered
    <2>4. \A u, v \in Desks, r \in Portals :
            PullingOf(desk'[u], r) /\ PullingOf(desk'[v], r) => u = v
      BY <2>1, <2>2 DEF Unhindered
    <2>5. ASSUME NEW r \in Portals, fellBack'[r] # Unchosen
          PROVE  /\ LeftOut(fellBack'[r], discovered'[r])
                 /\ \A u \in Desks : ~PullingOf(desk'[u], r)
      <3>1. r # s /\ fellBack'[r] = fellBack[r] BY <1>9, <2>5
      <3>2. /\ LeftOut(fellBack[r], discovered[r])
            /\ \A u \in Desks : ~PullingOf(desk[u], r)
        BY <2>1, <2>5, <3>1 DEF Unhindered
      <3>q. QED BY <1>1, <2>2, <3>1, <3>2
    <2>6. /\ emptied' => \E u \in Desks : desk'[u].pc = "dump"
          /\ \A u \in Desks : desk'[u].pc = "dump" => emptied'
      BY <1>1, <2>1, <2>2 DEF Unhindered
    <2>7. sources' = chosen' BY <1>1, <2>1 DEF Unhindered
    <2>q. QED BY <2>2, <2>3, <2>4, <2>5, <2>6, <2>7 DEF Unhindered
  <1>11. clear' \in BOOLEAN BY <1>1 DEF SettingsIInv, SettingsTypeOK
  <1>q. QED BY <1>1, <1>4, <1>7, <1>9, <1>10, <1>11 DEF SettingsIInv, SettingsTypeOK

LEMMA PortalFailsKeeps ==
    ASSUME SettingsIInv, NEW t \in Desks, PortalFails(t) PROVE SettingsIInv'
  <1> DEFINE c == [desk[t] EXCEPT !.pc = "select", !.answered = FALSE]
  <1>1. /\ desk[t].pc = "portal"
        /\ desk' = [desk EXCEPT ![t] = Off] \/ desk' = [desk EXCEPT ![t] = c]
        /\ UNCHANGED <<visits, sources, discovered, emptied, offers, chosen, fellBack, clear>>
    BY DEF PortalFails, Turn
  <1>2. desk[t] \in Visits BY <1>1, KindOfDesk DEF SettingsIInv, SettingsTypeOK
  <1>3. c \in Visits /\ c.pc = "select" /\ c.of = desk[t].of /\ c.answered = FALSE
    BY <1>2 DEF Visits
  <1>4. c \in AtDesk \cup {Off} BY <1>3, DeskKinds
  <1>5. \A s \in Portals : PullingOf(c, s) => PullingOf(desk[t], s)
    BY <1>1, <1>3 DEF PullingOf
  <1> HIDE DEF c
  <1>6. RunsFit' /\ (Unhindered => Unhindered') /\ desk' \in [Desks -> AtDesk \cup {Off}]
    <2>1. CASE desk' = [desk EXCEPT ![t] = Off]
      BY <1>1, <2>1, OffIsDesk, DeskGoesOn DEF PullingOf, Knows
    <2>2. CASE desk' = [desk EXCEPT ![t] = c]
      <3>1. Knows(c, discovered) BY <1>3 DEF Knows
      <3>q. QED BY <1>1, <1>3, <1>4, <1>5, <2>2, <3>1, DeskGoesOn
    <2>q. QED BY <1>1, <2>1, <2>2
  <1>q. QED BY <1>1, <1>6 DEF SettingsIInv, SettingsTypeOK

LEMMA TruncateKeeps ==
    ASSUME SettingsIInv, NEW t \in Desks, TruncateFile(t) PROVE SettingsIInv'
  <1> DEFINE c == desk[t]  d == [c EXCEPT !.pc = "dump"]
  <1>1. /\ c.pc = "truncate" /\ emptied' = TRUE /\ desk' = [desk EXCEPT ![t] = d]
        /\ UNCHANGED <<visits, sources, discovered, offers, chosen, fellBack, clear>>
    BY DEF TruncateFile, Turn
  <1>2. c \in Edits BY <1>1, KindOfDesk DEF SettingsIInv, SettingsTypeOK
  <1>3. /\ d \in Edits /\ d.pc = "dump" /\ d.of = c.of /\ d.op = c.op /\ d.doc = c.doc
        /\ d.value = c.value
    BY <1>2 DEF Edits
  <1> HIDE DEF d
  <1>4. d \in AtDesk \cup {Off} BY <1>3, DeskKinds
  <1>5. RunFits(d) BY <1>1, <1>3 DEF RunFits, Editing, SettingsIInv, RunsFit
  <1>6. /\ desk' \in [Desks -> AtDesk \cup {Off}]
        /\ desk'[t] = d /\ \A u \in Desks \ {t} : desk'[u] = desk[u]
        /\ RunsFit'
    BY <1>1, <1>4, <1>5, OneDesk
  <1>7. ASSUME Unhindered PROVE Unhindered'
    <2>1. ASSUME NEW u \in Desks
          PROVE  /\ Editing(desk'[u]) <=> Editing(desk[u])
                 /\ \A s \in Portals : PullingOf(desk'[u], s) <=> PullingOf(desk[u], s)
                 /\ OwnPart(desk'[u], sources', discovered')
                 /\ Knows(desk'[u], discovered')
      <3>1. OwnPart(desk[u], sources, discovered) /\ Knows(desk[u], discovered)
        BY <1>7 DEF Unhindered
      <3>2. CASE u = t
        BY <1>1, <1>3, <1>6, <3>1, <3>2 DEF Editing, PullingOf, OwnPart, Knows
      <3>3. CASE u # t
        <4>1. desk'[u] = desk[u] BY <1>6, <3>3
        <4>q. QED BY <1>1, <3>1, <4>1
      <3>q. QED BY <3>2, <3>3
    <2>2. \A u, v \in Desks : Editing(desk'[u]) /\ Editing(desk'[v]) => u = v
      BY <1>7, <2>1 DEF Unhindered
    <2>3. \A u, v \in Desks, s \in Portals :
            PullingOf(desk'[u], s) /\ PullingOf(desk'[v], s) => u = v
      BY <1>7, <2>1 DEF Unhindered
    <2>4. \A s \in Portals : fellBack'[s] # Unchosen =>
            /\ LeftOut(fellBack'[s], discovered'[s])
            /\ \A u \in Desks : ~PullingOf(desk'[u], s)
      BY <1>1, <1>7, <2>1 DEF Unhindered
    <2>5. emptied' /\ desk'[t].pc = "dump" BY <1>1, <1>3, <1>6
    <2>6. sources' = chosen' BY <1>1, <1>7 DEF Unhindered
    <2>q. QED BY <2>1, <2>2, <2>3, <2>4, <2>5, <2>6 DEF Unhindered
  <1>q. QED BY <1>1, <1>6, <1>7 DEF SettingsIInv, SettingsTypeOK

(* What the file holds after a call has written it is what it held, but for  *)
(* the call's own part.                                                      *)
LEMMA DumpKeeps == ASSUME SettingsIInv, NEW t \in Desks, DumpFile(t) PROVE SettingsIInv'
  <1> DEFINE c == desk[t]
             d == IF c.op = "run"
                  THEN [pc |-> "select", of |-> c.of, value |-> c.value,
                        found |-> c.doc.discovered[c.of], answered |-> TRUE]
                  ELSE Off
  <1>1. /\ c.pc = "dump" /\ sources' = c.doc.sources /\ discovered' = c.doc.discovered
        /\ emptied' = FALSE /\ desk' = [desk EXCEPT ![t] = d]
        /\ chosen' = IF c.op = "run" THEN chosen ELSE [chosen EXCEPT ![c.of] = c.value]
        /\ UNCHANGED <<visits, offers, fellBack, clear>>
    BY DEF DumpFile, Turn
  <1>2. c \in Edits /\ Editing(c) BY <1>1, KindOfDesk DEF SettingsIInv, SettingsTypeOK, Editing
  <1>3. c.doc \in File /\ c.of \in Portals /\ c.value \in Stored BY <1>2 DEF Edits
  <1>4. c.op = "run" => c.value \in Choices /\ c.doc.discovered[c.of] \subseteq Properties
    BY <1>2 DEF SettingsIInv, RunsFit, RunFits
  <1>5. [sources |-> sources', discovered |-> discovered'] \in File
    BY <1>1, <1>3 DEF File
  <1>6. chosen \in [Portals -> Stored] BY DEF SettingsIInv, SettingsTypeOK
  <1>7. chosen' \in [Portals -> Stored] BY <1>1, <1>3, <1>6
  <1>8. /\ d \in AtDesk \cup {Off} /\ d.pc \in {"off", "select"}
        /\ d.pc = "select" => c.op = "run" /\ d.of = c.of /\ d.found = c.doc.discovered[c.of]
    <2>1. CASE c.op = "run"
      <3>1. d \in Visits /\ d.pc = "select" /\ d.of = c.of /\ d.found = c.doc.discovered[c.of]
        BY <1>3, <1>4, <2>1 DEF Visits
      <3>q. QED BY <2>1, <3>1, DeskKinds
    <2>2. CASE c.op # "run" BY <2>2, OffIsDesk
    <2>q. QED BY <2>1, <2>2
  <1> HIDE DEF d
  <1>9. RunFits(d) BY <1>8 DEF RunFits, Editing
  <1>10. /\ desk' \in [Desks -> AtDesk \cup {Off}]
         /\ desk'[t] = d /\ \A u \in Desks \ {t} : desk'[u] = desk[u]
         /\ RunsFit'
    BY <1>1, <1>8, <1>9, OneDesk
  <1>11. ASSUME Unhindered PROVE Unhindered'
    <2>1. OwnPart(c, sources, discovered) /\ sources = chosen BY <1>11 DEF Unhindered
    <2>2. \A u \in Desks \ {t} : ~Editing(desk[u]) BY <1>2, <1>11 DEF Unhindered
    <2>3. /\ \A s \in Portals : PullingOf(d, s) => PullingOf(c, s)
          /\ \A s \in Portals : discovered'[s] # discovered[s] => PullingOf(c, s)
      <3>1. \A s \in Portals : PullingOf(d, s) => PullingOf(c, s)
        BY <1>1, <1>8 DEF PullingOf
      <3>2. \A s \in Portals : discovered'[s] # discovered[s] => PullingOf(c, s)
        BY <1>1, <1>2, <2>1 DEF OwnPart, PullingOf
      <3>q. QED BY <3>1, <3>2
    <2>4. sources' = chosen' BY <1>1, <1>2, <2>1 DEF OwnPart
    <2>5. ASSUME NEW u \in Desks
          PROVE  /\ ~Editing(desk'[u]) /\ desk'[u].pc # "dump"
                 /\ \A s \in Portals : PullingOf(desk'[u], s) => PullingOf(desk[u], s)
                 /\ OwnPart(desk'[u], sources', discovered')
                 /\ Knows(desk'[u], discovered')
      <3>1. CASE u = t
        BY <1>1, <1>8, <1>10, <2>3, <3>1 DEF Editing, OwnPart, Knows
      <3>2. CASE u # t
        <4>1. desk'[u] = desk[u] BY <1>10, <3>2
        <4>2. ~Editing(desk[u]) BY <2>2, <3>2
        <4>3. Knows(desk[u], discovered') 
          <5> SUFFICES ASSUME desk[u].pc = "select", desk[u].answered
                       PROVE  discovered'[desk[u].of] = desk[u].found
            BY DEF Knows
          <5>1. desk[u] \in Visits BY KindOfDesk DEF SettingsIInv, SettingsTypeOK
          <5>2. desk[u].of \in Portals /\ PullingOf(desk[u], desk[u].of)
            BY <5>1 DEF Visits, PullingOf
          <5>3. ~PullingOf(c, desk[u].of) BY <1>11, <3>2, <5>2 DEF Unhindered
          <5>4. discovered'[desk[u].of] = discovered[desk[u].of] BY <2>3, <5>2, <5>3
          <5>q. QED BY <1>11, <5>4 DEF Unhindered, Knows
        <4>q. QED BY <4>1, <4>2, <4>3 DEF Editing, OwnPart
      <3>q. QED BY <3>1, <3>2
    <2>6. \A u, v \in Desks, s \in Portals :
            PullingOf(desk'[u], s) /\ PullingOf(desk'[v], s) => u = v
      BY <1>11, <2>5 DEF Unhindered
    <2>7. ASSUME NEW s \in Portals, fellBack'[s] # Unchosen
          PROVE  /\ LeftOut(fellBack'[s], discovered'[s])
                 /\ \A u \in Desks : ~PullingOf(desk'[u], s)
      <3>1. /\ LeftOut(fellBack[s], discovered[s])
            /\ \A u \in Desks : ~PullingOf(desk[u], s)
        BY <1>1, <1>11, <2>7 DEF Unhindered
      <3>2. discovered'[s] = discovered[s] BY <2>3, <3>1
      <3>q. QED BY <1>1, <2>5, <3>1, <3>2
    <2>8. ~emptied' BY <1>1
    <2>q. QED BY <2>4, <2>5, <2>6, <2>7, <2>8 DEF Unhindered
  <1>12. {emptied', clear'} \subseteq BOOLEAN BY <1>1 DEF SettingsIInv, SettingsTypeOK
  <1>q. QED BY <1>1, <1>5, <1>7, <1>10, <1>11, <1>12 DEF SettingsIInv, SettingsTypeOK

LEMMA SelectKeeps == ASSUME SettingsIInv, NEW t \in Desks, Select(t) PROVE SettingsIInv'
  <1> DEFINE c == desk[t]
             v == IF c.value \in (c.found \cap Numeric) \cup {"all"} \/ ~c.answered
                  THEN Unchosen ELSE c.value
  <1>1. /\ c.pc = "select" /\ fellBack' = [fellBack EXCEPT ![c.of] = v]
        /\ desk' = [desk EXCEPT ![t] = Off]
        /\ UNCHANGED <<visits, sources, discovered, emptied, offers, chosen, clear>>
    BY DEF Select, Turn
  <1>2. c \in Visits BY <1>1, KindOfDesk DEF SettingsIInv, SettingsTypeOK
  <1>3. c.of \in Portals /\ c.value \in Choices BY <1>2 DEF Visits
  <1>4. v \in Stored BY <1>3 DEF Stored
  <1>5. /\ desk' \in [Desks -> AtDesk \cup {Off}]
        /\ desk'[t] = Off /\ \A u \in Desks \ {t} : desk'[u] = desk[u]
        /\ RunsFit'
    BY <1>1, OffIsDesk, OneDesk
  <1>6. v # Unchosen => LeftOut(v, c.found) /\ c.answered
    BY <1>2, <1>3, SettingsAssumption DEF LeftOut, Choices, Visits
  <1> HIDE DEF v
  <1>7. fellBack \in [Portals -> Stored] BY DEF SettingsIInv, SettingsTypeOK
  <1>8. /\ fellBack' \in [Portals -> Stored] /\ fellBack'[c.of] = v
        /\ \A r \in Portals : r # c.of => fellBack'[r] = fellBack[r]
    BY <1>1, <1>3, <1>4, <1>7
  <1>9. ASSUME Unhindered PROVE Unhindered'
    <2>1. ASSUME NEW u \in Desks
          PROVE  /\ Editing(desk'[u]) <=> Editing(desk[u])
                 /\ \A s \in Portals : PullingOf(desk'[u], s) => PullingOf(desk[u], s) /\ u # t
                 /\ OwnPart(desk'[u], sources', discovered')
                 /\ Knows(desk'[u], discovered')
                 /\ desk'[u].pc = "dump" <=> desk[u].pc = "dump"
      <3>1. CASE u = t
        BY <1>1, <1>5, <3>1, OffIsDesk DEF Editing, OwnPart, Knows, PullingOf
      <3>2. CASE u # t
        <4>1. desk'[u] = desk[u] BY <1>5, <3>2
        <4>2. OwnPart(desk[u], sources, discovered) /\ Knows(desk[u], discovered)
          BY <1>9 DEF Unhindered
        <4>q. QED BY <1>1, <3>2, <4>1, <4>2
      <3>q. QED BY <3>1, <3>2
    <2>2. \A u, w \in Desks : Editing(desk'[u]) /\ Editing(desk'[w]) => u = w
      BY <1>9, <2>1 DEF Unhindered
    <2>3. \A u, w \in Desks, s \in Portals :
            PullingOf(desk'[u], s) /\ PullingOf(desk'[w], s) => u = w
      BY <1>9, <2>1 DEF Unhindered
    <2>4. ASSUME NEW s \in Portals, fellBack'[s] # Unchosen
          PROVE  /\ LeftOut(fellBack'[s], discovered'[s])
                 /\ \A u \in Desks : ~PullingOf(desk'[u], s)
      <3>1. CASE s = c.of
        <4>1. LeftOut(v, c.found) /\ c.answered BY <1>6, <1>8, <2>4, <3>1
        <4>2. discovered[c.of] = c.found BY <1>1, <1>9, <4>1 DEF Unhindered, Knows
        <4>3. PullingOf(c, s) BY <1>1, <3>1 DEF PullingOf
        <4>4. \A u \in Desks \ {t} : ~PullingOf(desk[u], s) BY <1>9, <4>3 DEF Unhindered
        <4>q. QED BY <1>1, <1>8, <2>1, <3>1, <4>1, <4>2, <4>4
      <3>2. CASE s # c.of
        <4>1. fellBack'[s] = fellBack[s] BY <1>8, <3>2
        <4>2. /\ LeftOut(fellBack[s], discovered[s])
              /\ \A u \in Desks : ~PullingOf(desk[u], s)
          BY <1>9, <2>4, <4>1 DEF Unhindered
        <4>q. QED BY <1>1, <2>1, <4>1, <4>2
      <3>q. QED BY <3>1, <3>2
    <2>5. /\ emptied' => \E u \in Desks : desk'[u].pc = "dump"
          /\ \A u \in Desks : desk'[u].pc = "dump" => emptied'
      BY <1>1, <1>9, <2>1 DEF Unhindered
    <2>6. sources' = chosen' BY <1>1, <1>9 DEF Unhindered
    <2>q. QED BY <2>1, <2>2, <2>3, <2>4, <2>5, <2>6 DEF Unhindered
  <1>q. QED BY <1>1, <1>5, <1>8, <1>9 DEF SettingsIInv, SettingsTypeOK

LEMMA WorldKeeps ==
    ASSUME SettingsIInv, GoesDown \/ \E s \in Portals : PortalChanges(s) PROVE SettingsIInv'
  <1>1. CASE GoesDown
    <2>1. /\ desk' = [t \in Desks |-> Off] /\ clear' = (clear /\ ~emptied)
          /\ UNCHANGED <<visits, sources, discovered, emptied, offers, chosen, fellBack>>
      BY <1>1 DEF GoesDown
    <2>2. \A t \in Desks : desk'[t] = Off BY <2>1
    <2>3. \A t \in Desks : /\ desk'[t].pc = "off" /\ RunFits(desk'[t])
                           /\ ~Editing(desk'[t]) /\ \A s : ~PullingOf(desk'[t], s)
      BY <2>2, OffIsDesk DEF Editing, PullingOf
    <2>4. RunsFit' BY <2>3 DEF RunsFit
    <2>5. ASSUME clear' PROVE Unhindered'
      <3>1. Unhindered /\ ~emptied' BY <2>1, <2>5 DEF SettingsIInv
      <3>2. \A t \in Desks : OwnPart(desk'[t], sources', discovered') /\ Knows(desk'[t], discovered')
        BY <2>3 DEF OwnPart, Knows
      <3>q. QED BY <2>1, <2>3, <3>1, <3>2 DEF Unhindered
    <2>6. desk' \in [Desks -> AtDesk \cup {Off}] BY <2>1
    <2>7. clear' \in BOOLEAN BY <2>1 DEF SettingsIInv, SettingsTypeOK
    <2>q. QED BY <2>1, <2>4, <2>5, <2>6, <2>7 DEF SettingsIInv, SettingsTypeOK
  <1>2. CASE \E s \in Portals : PortalChanges(s)
    <2>1. /\ offers' \in [Portals -> SUBSET Properties]
          /\ UNCHANGED <<visits, sources, discovered, emptied, desk, chosen, fellBack, clear>>
      BY <1>2 DEF PortalChanges
    <2>q. QED BY <2>1 DEF SettingsIInv, SettingsTypeOK, RunsFit, Unhindered
  <1>q. QED BY <1>1, <1>2

LEMMA SettingsKeep == SettingsIInv /\ [SettingsNext]_settingsVars => SettingsIInv'
  <1> SUFFICES ASSUME SettingsIInv, [SettingsNext]_settingsVars PROVE SettingsIInv' OBVIOUS
  <1>1. CASE SettingsNext
    BY <1>1, SavesKeep, RunKeeps, LoadFileKeeps, RecordKeeps, PortalFailsKeeps, TruncateKeeps,
       DumpKeeps, SelectKeeps, WorldKeeps
    DEF SettingsNext
  <1>2. CASE UNCHANGED settingsVars
    BY <1>2 DEF settingsVars, SettingsIInv, SettingsTypeOK, RunsFit, Unhindered
  <1>q. QED BY <1>1, <1>2

LEMMA SettingsInvariant == SettingsSpec => []SettingsIInv
  BY SettingsStarts, SettingsKeep, PTL DEF SettingsSpec

(* Every variable of the settings has its type. *)
THEOREM SettingsTyped == SettingsSpec => []SettingsTypeOK
  <1>1. SettingsIInv => SettingsTypeOK BY DEF SettingsIInv
  <1>q. QED BY <1>1, SettingsInvariant, PTL

(* What the operator chose is kept, and what could not be kept is stale, or  *)
(* has no number for its id.                                                 *)
LEMMA ChoicesKept == SettingsIInv => ChoicesAreKept
  <1> SUFFICES ASSUME SettingsIInv, clear, ~emptied PROVE ChoicesAreKept
    BY DEF ChoicesAreKept
  <1>1. Unhindered BY DEF SettingsIInv
  <1>2. ASSUME NEW s \in Portals, fellBack[s] # Unchosen, fellBack[s] = sources[s]
        PROVE  Stale(ReadFile, s) \/ fellBack[s] \in Properties \ Numeric
    BY <1>1, <1>2 DEF Unhindered, LeftOut, Stale, Schema, ReadFile
  <1>q. QED BY <1>1, <1>2 DEF ChoicesAreKept, Unhindered

THEOREM ChoicesStay == SettingsSpec => []ChoicesAreKept
  BY ChoicesKept, SettingsInvariant, PTL

-----------------------------------------------------------------------------
(* A call in the store has something to write; only a provider is pointed at.*)
Fits(c) ==
    /\ c.pc \in {"dump", "write"} => c.todo # <<>>
    /\ c.pc = "point" => c.of \in Providers
CallsFit == \A t \in Writers : writer[t] # Away => Fits(writer[t])

(* Nothing is left of the old shape of the pointer. *)
Settled(v) == v.active = Nobody \/ v.legacy = 0

Own(c) == [of |-> c.of, secret |-> c.secret]
Ptr(p) == [of |-> "pointer", active |-> p]
Erase(c) == [of |-> c.of, secret |-> Absent]

(* What a call c still has to write to a store v, the secrets given being    *)
(* those of ty. The secret it carries is the one it means.                   *)
Meant(c, ty) == c.secret = (IF c.fresh # 0 THEN c.fresh ELSE ty[c.of])
SavesOwn(c, v, ty) ==
    c.todo = <<Own(c)>> /\ Meant(c, ty) /\ (c.of \in Providers => Settled(v))
Points(c, v) ==
    /\ c.of \in Providers /\ c.todo = <<Ptr(c.of)>> /\ Settled(v)
    /\ v.secret[c.of] # Absent
Unpoints(c, v, ty) ==
    /\ c.todo = <<Ptr(v.active), Own(c)>> /\ Meant(c, ty)
    /\ v.active \in Providers /\ v.secret[v.active] # Absent
Lifts(c, v, ty) ==
    /\ c.todo = <<[of |-> v.active, secret |-> v.legacy], Ptr(v.active), Own(c)>>
    /\ Meant(c, ty) /\ v.active \in Providers /\ v.secret[v.active] = Absent
Planned(c, v, ty) ==
    SavesOwn(c, v, ty) \/ Points(c, v) \/ Unpoints(c, v, ty) \/ Lifts(c, v, ty)
Forgets(c, todo) == c.of \in SignIns /\ c.fresh = 0 /\ c.todo = todo

Doing(c, v, ty) ==
    /\ c.pc = "migrate" => Meant(c, ty)
    /\ c.pc = "load" => Planned(c, v, ty) \/ Forgets(c, <<>>)
    /\ c.pc \in {"dump", "write"} =>
         /\ Planned(c, v, ty) \/ Forgets(c, <<Erase(c)>>)
         /\ c.doc = Applied(v, Head(c.todo))
    /\ c.pc = "point" => Settled(v) /\ v.secret[c.of] # Absent

(* Calls that nothing has disturbed: one at a time, each on its way; and the *)
(* store, however far it has come, gives every record the secret it was      *)
(* given.                                                                    *)
OneCall == \A t, u \in Writers : writer[t] # Away /\ writer[u] # Away => t = u
CutIsWriting == cut <=> \E t \in Writers : writer[t].pc = "write"
Kin(v, ty) == \A r \in Records : KeyIn(v, r) = ty[r]
Clean(e, ty) == \A p \in Providers : ty[p] = 0 => e[p] = 0
Bare(v) == v.active = Nobody => v.legacy = 0
Orderly ==
    /\ OneCall /\ CutIsWriting
    /\ \A t \in Writers : writer[t] # Away => Doing(writer[t], vault, typed)
    /\ Kin(vault, typed) /\ Clean(environ, typed) /\ Bare(vault)

VaultIInv == VaultTypeOK /\ CallsFit /\ (undisturbed => Orderly)

-----------------------------------------------------------------------------
LEMMA Names ==
    /\ Nobody \notin Providers /\ "pointer" \notin Records
    /\ SignIns \cap Providers = {} /\ Providers \subseteq Records
    /\ SignIns \subseteq Records /\ Absent \notin Secrets
    /\ 0 \in Secrets /\ 1 \in Secrets /\ Secrets \subseteq Nat
  BY VaultAssumption DEF Providers, Records, Nobody, Absent, Secrets

LEMMA Kept ==
    ASSUME NEW v \in Vaults, NEW s \in Sets
    PROVE  Applied(v, s) \in Vaults
  <1>1. CASE s.of = "pointer"
    <2>1. s.active \in Providers
      BY <1>1, Names DEF Sets
    <2> QED BY <1>1, <2>1, Names DEF Applied, Vaults
  <1>2. CASE s.of # "pointer"
    <2>1. s.of \in Records /\ s.secret \in Secrets \cup {Absent}
      BY <1>2 DEF Sets
    <2> QED BY <1>2, <2>1 DEF Applied, Vaults
  <1> QED BY <1>1, <1>2

(* What a call is made of. *)
LEMMA Fields ==
    ASSUME VaultTypeOK, NEW t \in Writers, writer[t] # Away
    PROVE  writer[t] \in Writing
  BY DEF VaultTypeOK

LEMMA NotAway == \A c \in Writing : c # Away /\ c.pc # "away"
  BY DEF Writing, Away

LEMMA AtWork ==
    ASSUME VaultTypeOK, NEW t \in Writers, writer[t].pc # "away"
    PROVE  writer[t] # Away /\ writer[t] \in Writing
  BY DEF VaultTypeOK, Away

LEMMA KeyTyped ==
    ASSUME NEW v \in Vaults, NEW r \in Records
    PROVE  KeyIn(v, r) \in Secrets
  BY Names DEF KeyIn, Vaults

LEMMA StoredTyped ==
    ASSUME VaultTypeOK, NEW r \in Records
    PROVE  StoredKey(r) \in Secrets
  BY KeyTyped, Names DEF StoredKey, VaultTypeOK

(* One call takes its next step. *)
LEMMA StepTypes ==
    ASSUME VaultTypeOK, CallsFit, NEW t \in Writers, NEW c, Steps(t, c),
           c = Away \/ (c \in Writing /\ Fits(c))
    PROVE  /\ writer' \in [Writers -> Writing \cup {Away}]
           /\ CallsFit'
           /\ writer'[t] = c
           /\ \A u \in Writers \ {t} : writer'[u] = writer[u]
  <1>1. writer \in [Writers -> Writing \cup {Away}]
    BY DEF VaultTypeOK
  <1>2. writer' = [writer EXCEPT ![t] = c]
    BY DEF Steps
  <1>3. writer'[t] = c /\ \A u \in Writers \ {t} : writer'[u] = writer[u]
    BY <1>1, <1>2
  <1>4. writer' \in [Writers -> Writing \cup {Away}]
    BY <1>1, <1>2
  <1>5. ASSUME NEW u \in Writers, writer'[u] # Away PROVE Fits(writer'[u])
    <2>1. CASE u = t
      BY <2>1, <1>3, <1>5
    <2>2. CASE u # t
      <3>1. writer'[u] = writer[u]
        BY <1>3, <2>2
      <3>2. Fits(writer[u])
        BY <3>1, <1>5 DEF CallsFit
      <3> QED BY <3>1, <3>2
    <2> QED BY <2>1, <2>2
  <1> QED BY <1>3, <1>4, <1>5 DEF CallsFit

LEMMA InitTypes == VaultInit => VaultTypeOK /\ CallsFit
  <1> SUFFICES ASSUME VaultInit PROVE VaultTypeOK /\ CallsFit
    OBVIOUS
  <1>1. PICK p \in Providers \cup {Nobody} :
          LET n == IF p = Nobody THEN 0 ELSE 1
          IN  /\ vault = [NoVault EXCEPT !.active = p, !.legacy = n]
              /\ typed = [r \in Records |-> IF r = p THEN n ELSE 0]
              /\ given = n
    BY DEF VaultInit
  <1> DEFINE n == IF p = Nobody THEN 0 ELSE 1
  <1>2. n \in Secrets
    BY Names
  <1>3. vault = [NoVault EXCEPT !.active = p, !.legacy = n] /\ given = n
        /\ typed = [r \in Records |-> IF r = p THEN n ELSE 0]
    BY <1>1
  <1> HIDE DEF n
  <1>4. vault \in Vaults
    BY <1>2, <1>3, Names DEF Vaults, NoVault
  <1>5. typed \in [Records -> Secrets] /\ given \in Secrets
    BY <1>2, <1>3, Names
  <1>6. cut \in BOOLEAN /\ undisturbed \in BOOLEAN
    BY DEF VaultInit
  <1>9. changes \in 0..MaxChanges
    BY VaultAssumption DEF VaultInit
  <1>7. environ \in [Providers -> Secrets] /\ writer \in [Writers -> Writing \cup {Away}]
    BY Names DEF VaultInit
  <1>8. CallsFit
    BY DEF VaultInit, CallsFit
  <1> QED BY <1>4, <1>5, <1>6, <1>7, <1>8, <1>9 DEF VaultTypeOK

LEMMA AskTypes ==
    ASSUME VaultTypeOK, CallsFit, NEW t \in Writers, NEW r \in Records,
           NEW pc \in {"reuse", "load"}, NEW fresh \in Secrets,
           NEW activate \in BOOLEAN, Asks(t, r, pc, fresh, activate)
    PROVE  /\ writer' \in [Writers -> Writing \cup {Away}] /\ CallsFit'
           /\ changes' \in 0..MaxChanges /\ undisturbed' \in BOOLEAN
  <1> DEFINE c == [pc |-> pc, of |-> r, fresh |-> fresh, secret |-> fresh,
                   activate |-> activate, pointed |-> FALSE, todo |-> <<>>,
                   doc |-> NoVault]
  <1>1. NoVault \in Vaults
    BY Names DEF NoVault, Vaults
  <1>2. c \in Writing
    BY <1>1 DEF Writing
  <1>3. Fits(c)
    BY DEF Fits
  <1>4. Steps(t, c)
    BY DEF Asks
  <1>5. writer' \in [Writers -> Writing \cup {Away}] /\ CallsFit'
    <2> HIDE DEF c
    <2> QED BY <1>2, <1>3, <1>4, StepTypes
  <1>6. changes' \in 0..MaxChanges
    BY VaultAssumption DEF Asks, VaultTypeOK
  <1>7. undisturbed' \in BOOLEAN
    BY DEF Asks
  <1> QED BY <1>5, <1>6, <1>7

LEMMA LiftedSets == VaultTypeOK => Lifted \in Seq(Sets)
  <1> SUFFICES ASSUME VaultTypeOK PROVE Lifted \in Seq(Sets)
    OBVIOUS
  <1>1. CASE cut \/ vault.active = Nobody \/ vault.legacy = 0
    BY <1>1 DEF Lifted
  <1>2. CASE ~(cut \/ vault.active = Nobody \/ vault.legacy = 0)
    <2>1. vault.active \in Providers /\ vault.legacy \in Secrets
      BY <1>2 DEF VaultTypeOK, Vaults
    <2>2. /\ [of |-> vault.active, secret |-> vault.legacy] \in Sets
          /\ [of |-> "pointer", active |-> vault.active] \in Sets
      BY <2>1, Names DEF Sets
    <2> QED BY <1>2, <2>2 DEF Lifted
  <1> QED BY <1>1, <1>2

LEMMA TypesStep ==
    VaultTypeOK /\ CallsFit /\ [VaultNext]_vaultVars => VaultTypeOK' /\ CallsFit'
  <1> SUFFICES ASSUME VaultTypeOK, CallsFit, [VaultNext]_vaultVars
               PROVE  VaultTypeOK' /\ CallsFit'
    OBVIOUS
  <1>s. /\ vault \in Vaults /\ cut \in BOOLEAN /\ undisturbed \in BOOLEAN
        /\ environ \in [Providers -> Secrets]
        /\ writer \in [Writers -> Writing \cup {Away}]
        /\ typed \in [Records -> Secrets]
        /\ given \in Secrets /\ changes \in 0..MaxChanges
    BY DEF VaultTypeOK
  <1>1. ASSUME NEW t \in Writers, NEW r \in Records, NEW activate \in BOOLEAN,
               SetSecret(t, r, activate)
        PROVE  VaultTypeOK' /\ CallsFit'
    <2>1. CASE Asks(t, r, "reuse", 0, activate) /\ UNCHANGED given
      <3>1. /\ writer' \in [Writers -> Writing \cup {Away}] /\ CallsFit'
            /\ changes' \in 0..MaxChanges /\ undisturbed' \in BOOLEAN
        BY <2>1, AskTypes, Names
      <3>2. UNCHANGED <<vault, cut, environ, typed, given>>
        BY <2>1 DEF Asks
      <3> QED BY <1>s, <3>1, <3>2 DEF VaultTypeOK
    <2>2. CASE given < MaxTyped /\ given' = given + 1
               /\ Asks(t, r, "reuse", given + 1, activate)
      <3>0. given + 1 \in Secrets
        BY <1>s, <2>2, VaultAssumption DEF Secrets
      <3>1. /\ writer' \in [Writers -> Writing \cup {Away}] /\ CallsFit'
            /\ changes' \in 0..MaxChanges /\ undisturbed' \in BOOLEAN
        BY <2>2, <3>0, AskTypes
      <3>2. UNCHANGED <<vault, cut, environ, typed>>
        BY <2>2 DEF Asks
      <3> QED BY <1>s, <2>2, <3>0, <3>1, <3>2 DEF VaultTypeOK
    <2> QED BY <1>1, <2>1, <2>2 DEF SetSecret
  <1>2. ASSUME NEW t \in Writers, NEW r \in SignIns, ForgetSecret(t, r)
        PROVE  VaultTypeOK' /\ CallsFit'
    <2>0. r \in Records /\ Asks(t, r, "load", 0, TRUE) /\ UNCHANGED given
      BY <1>2, Names DEF ForgetSecret
    <2>1. /\ writer' \in [Writers -> Writing \cup {Away}] /\ CallsFit'
          /\ changes' \in 0..MaxChanges /\ undisturbed' \in BOOLEAN
      BY <2>0, AskTypes, Names
    <2>2. UNCHANGED <<vault, cut, environ, typed, given>>
      BY <2>0 DEF Asks
    <2> QED BY <1>s, <2>1, <2>2 DEF VaultTypeOK
  <1>3. ASSUME NEW t \in Writers, Reuse(t)
        PROVE  VaultTypeOK' /\ CallsFit'
    <2> DEFINE c == writer[t]
               s == IF c.fresh # 0 THEN c.fresh ELSE StoredKey(c.of)
               d == [c EXCEPT !.pc = "migrate", !.secret = s]
    <2>1. c \in Writing
      BY <1>3, AtWork DEF Reuse
    <2>2. s \in Secrets
      BY <2>1, StoredTyped DEF Writing
    <2>3. d \in Writing /\ Fits(d)
      BY <2>1, <2>2 DEF Writing, Fits
    <2>4. Steps(t, Away) \/ Steps(t, d)
      BY <1>3 DEF Reuse
    <2>5. Quiet
      BY <1>3 DEF Reuse
    <2>6. writer' \in [Writers -> Writing \cup {Away}] /\ CallsFit'
      <3> HIDE DEF d
      <3> QED BY <2>3, <2>4, StepTypes
    <2> QED BY <1>s, <2>5, <2>6 DEF VaultTypeOK, Quiet
  <1>4. ASSUME NEW t \in Writers, Migrate(t)
        PROVE  VaultTypeOK' /\ CallsFit'
    <2> DEFINE c == writer[t]
               l == (IF c.of \in Providers THEN Lifted ELSE <<>>)
                      \o <<[of |-> c.of, secret |-> c.secret]>>
               d == [c EXCEPT !.pc = "load", !.todo = l]
    <2>1. c \in Writing
      BY <1>4, AtWork DEF Migrate
    <2>2. [of |-> c.of, secret |-> c.secret] \in Sets
      BY <2>1 DEF Sets, Writing
    <2>3. l \in Seq(Sets)
      BY <2>2, LiftedSets
    <2>4. d \in Writing /\ Fits(d)
      BY <2>1, <2>3 DEF Writing, Fits
    <2>5. Steps(t, d) /\ Quiet
      BY <1>4 DEF Migrate
    <2>6. writer' \in [Writers -> Writing \cup {Away}] /\ CallsFit'
      <3> HIDE DEF d
      <3> QED BY <2>4, <2>5, StepTypes
    <2> QED BY <1>s, <2>5, <2>6 DEF VaultTypeOK, Quiet
  <1>5. ASSUME NEW t \in Writers, LoadVault(t)
        PROVE  VaultTypeOK' /\ CallsFit'
    <2> DEFINE c == writer[t]
               todo == IF c.todo = <<>> THEN <<[of |-> c.of, secret |-> Absent]>>
                       ELSE c.todo
               d == [c EXCEPT !.pc = "dump", !.todo = todo,
                              !.doc = Applied(vault, Head(todo))]
    <2>1. c \in Writing
      BY <1>5, AtWork DEF LoadVault
    <2>2. [of |-> c.of, secret |-> Absent] \in Sets
      BY <2>1 DEF Sets, Writing
    <2>3. todo \in Seq(Sets) /\ todo # <<>>
      BY <2>1, <2>2 DEF Writing
    <2>4. Applied(vault, Head(todo)) \in Vaults
      <3>1. Head(todo) \in Sets
        BY <2>3
      <3> QED BY <1>s, <3>1, Kept
    <2>5. d \in Writing /\ Fits(d)
      <3> HIDE DEF todo
      <3>1. d \in Writing
        BY <2>1, <2>3, <2>4 DEF Writing
      <3>2. d.pc = "dump" /\ d.todo # <<>>
        BY <2>1, <2>3 DEF Writing
      <3> QED BY <3>1, <3>2 DEF Fits
    <2>6. Steps(t, Away) \/ Steps(t, d)
      BY <1>5 DEF LoadVault
    <2>7. Quiet
      BY <1>5 DEF LoadVault
    <2>8. writer' \in [Writers -> Writing \cup {Away}] /\ CallsFit'
      <3> HIDE DEF d
      <3> QED BY <2>5, <2>6, StepTypes
    <2> QED BY <1>s, <2>7, <2>8 DEF VaultTypeOK, Quiet
  <1>6. ASSUME NEW t \in Writers, TruncateVault(t)
        PROVE  VaultTypeOK' /\ CallsFit'
    <2> DEFINE d == [writer[t] EXCEPT !.pc = "write"]
    <2>1. writer[t] \in Writing /\ writer[t] # Away
      BY <1>6, AtWork DEF TruncateVault
    <2>2. writer[t].todo # <<>>
      BY <1>6, <2>1 DEF TruncateVault, CallsFit, Fits
    <2>3. d \in Writing /\ Fits(d)
      BY <2>1, <2>2 DEF Writing, Fits
    <2>4. Steps(t, d) /\ cut' = TRUE
          /\ UNCHANGED <<vault, environ, typed, given, changes, undisturbed>>
      BY <1>6 DEF TruncateVault
    <2>5. writer' \in [Writers -> Writing \cup {Away}] /\ CallsFit'
      <3> HIDE DEF d
      <3> QED BY <2>3, <2>4, StepTypes
    <2> QED BY <1>s, <2>4, <2>5 DEF VaultTypeOK
  <1>7. ASSUME NEW t \in Writers, WriteVault(t)
        PROVE  VaultTypeOK' /\ CallsFit'
    <2> DEFINE c == writer[t]
               s == Head(c.todo)
               left == Tail(c.todo)
               next == [c EXCEPT !.doc = NoVault, !.todo = left]
               ahead == [next EXCEPT !.pc = "load"]
               after == [next EXCEPT !.pc = IF c.pointed THEN "env" ELSE "point"]
    <2>1. c \in Writing /\ c # Away
      BY <1>7, AtWork DEF WriteVault
    <2>2. c.todo # <<>>
      BY <1>7, <2>1 DEF WriteVault, CallsFit, Fits
    <2>3. left \in Seq(Sets)
      BY <2>1, <2>2 DEF Writing
    <2>4. NoVault \in Vaults
      BY Names DEF NoVault, Vaults
    <2>5. ahead \in Writing /\ Fits(ahead)
      <3> HIDE DEF left
      <3> QED BY <2>1, <2>3, <2>4 DEF Writing, Fits
    <2>6. c.of \notin SignIns => after \in Writing /\ Fits(after)
      <3> HIDE DEF left
      <3>1. after \in Writing /\ after.of = c.of /\ after.pc \in {"env", "point"}
        BY <2>1, <2>3, <2>4 DEF Writing
      <3>2. c.of \in Records
        BY <2>1 DEF Writing
      <3> QED BY <3>1, <3>2 DEF Fits, Records
    <2>7. Steps(t, Away) \/ Steps(t, ahead) \/ (c.of \notin SignIns /\ Steps(t, after))
      BY <1>7 DEF WriteVault
    <2>8. writer' \in [Writers -> Writing \cup {Away}] /\ CallsFit'
      <3> HIDE DEF ahead, after
      <3> QED BY <2>5, <2>6, <2>7, StepTypes
    <2>9. vault' = c.doc /\ cut' = FALSE
          /\ UNCHANGED <<environ, given, changes, undisturbed>>
      BY <1>7 DEF WriteVault
    <2>10. vault' \in Vaults
      BY <2>1, <2>9 DEF Writing
    <2>11. typed' \in [Records -> Secrets]
      <3>1. c.fresh \in Secrets /\ c.of \in Records
        BY <2>1 DEF Writing
      <3>2. typed' = IF s.of # c.of \/ (c.fresh # 0 /\ s.secret # c.fresh) THEN typed
                    ELSE [typed EXCEPT ![c.of] =
                            IF s.secret = Absent THEN 0
                            ELSE IF c.fresh # 0 THEN c.fresh ELSE @]
        BY <1>7 DEF WriteVault
      <3> HIDE DEF c, s
      <3> QED BY <1>s, <3>1, <3>2, Names
    <2> QED BY <1>s, <2>8, <2>9, <2>10, <2>11 DEF VaultTypeOK
  <1>8. ASSUME NEW t \in Writers, Point(t)
        PROVE  VaultTypeOK' /\ CallsFit'
    <2> DEFINE c == writer[t]
               d == [c EXCEPT !.pc = "load", !.pointed = TRUE,
                       !.todo = <<[of |-> "pointer", active |-> c.of]>>]
               e == [c EXCEPT !.pc = "env"]
    <2>1. c \in Writing /\ c # Away
      BY <1>8, AtWork DEF Point
    <2>2. c.of \in Providers
      BY <1>8, <2>1 DEF Point, CallsFit, Fits
    <2>3. <<[of |-> "pointer", active |-> c.of]>> \in Seq(Sets)
      BY <2>2 DEF Sets
    <2>4. d \in Writing /\ Fits(d)
      BY <2>1, <2>3 DEF Writing, Fits
    <2>5. e \in Writing /\ Fits(e)
      BY <2>1 DEF Writing, Fits
    <2>6. (Steps(t, d) \/ Steps(t, e)) /\ Quiet
      BY <1>8 DEF Point
    <2>7. writer' \in [Writers -> Writing \cup {Away}] /\ CallsFit'
      <3> HIDE DEF d, e
      <3> QED BY <2>4, <2>5, <2>6, StepTypes
    <2> QED BY <1>s, <2>6, <2>7 DEF VaultTypeOK, Quiet
  <1>9. ASSUME NEW t \in Writers, LoadIntoEnv(t)
        PROVE  VaultTypeOK' /\ CallsFit'
    <2> DEFINE p == ActiveProvider
    <2>1. Steps(t, Away) /\ UNCHANGED <<vault, cut, typed, given, changes, undisturbed>>
      BY <1>9 DEF LoadIntoEnv
    <2>2. writer' \in [Writers -> Writing \cup {Away}] /\ CallsFit'
      BY <2>1, StepTypes
    <2>3. environ' \in [Providers -> Secrets]
      <3>1. environ' = IF p \in {"openai_compatible", "anthropic"}
                           /\ (p = "anthropic" => StoredKey(p) # 0)
                      THEN [environ EXCEPT ![p] = StoredKey(p)] ELSE environ
        BY <1>9 DEF LoadIntoEnv
      <3>2. p \in {"openai_compatible", "anthropic"} => p \in Records
        BY DEF Records, Providers
      <3>3. p \in {"openai_compatible", "anthropic"} => StoredKey(p) \in Secrets
        BY <3>2, StoredTyped
      <3> HIDE DEF p
      <3> QED BY <1>s, <3>1, <3>3
    <2> QED BY <1>s, <2>1, <2>2, <2>3 DEF VaultTypeOK
  <1>10. CASE AppRestarts
    <2>1. /\ writer' = [t \in Writers |-> Away]
          /\ UNCHANGED <<vault, cut, typed, given, changes>>
      BY <1>10 DEF AppRestarts
    <2>2. environ' \in [Providers -> Secrets]
      BY <1>10, Names DEF AppRestarts
    <2>3. undisturbed' \in BOOLEAN
      BY <1>10 DEF AppRestarts
    <2>4. CallsFit'
      BY <2>1 DEF CallsFit
    <2>5. writer' \in [Writers -> Writing \cup {Away}]
      BY <2>1
    <2> QED BY <1>s, <2>1, <2>2, <2>3, <2>4, <2>5 DEF VaultTypeOK
  <1>11. CASE UNCHANGED vaultVars
    BY <1>s, <1>11 DEF vaultVars, VaultTypeOK, CallsFit, Fits
  <1> QED
    BY <1>1, <1>2, <1>3, <1>4, <1>5, <1>6, <1>7, <1>8, <1>9, <1>10, <1>11
       DEF VaultNext

(* Every variable of the vault has its type: its calls read and write whole  *)
(* stores.                                                                   *)
THEOREM VaultTyped == VaultSpec => []VaultTypeOK
  <1>1. VaultSpec => [](VaultTypeOK /\ CallsFit)
    BY InitTypes, TypesStep, PTL DEF VaultSpec
  <1> QED BY <1>1, PTL

-----------------------------------------------------------------------------
(* What one set() does to the keys that are in a store. *)
LEMMA PutsRecord ==
    ASSUME NEW v \in Vaults, NEW r \in Records, NEW x \in Secrets \cup {Absent},
           NEW w, w = Applied(v, [of |-> r, secret |-> x])
    PROVE  /\ w.active = v.active /\ w.legacy = v.legacy /\ w.secret[r] = x
           /\ \A q \in Records \ {r} : w.secret[q] = v.secret[q]
           /\ \A q \in Records \ {r} : KeyIn(w, q) = KeyIn(v, q)
  <1>1. w = [v EXCEPT !.secret[r] = x]
    BY Names DEF Applied
  <1>2. w.active = v.active /\ w.legacy = v.legacy /\ w.secret[r] = x
        /\ \A q \in Records \ {r} : w.secret[q] = v.secret[q]
    BY <1>1 DEF Vaults
  <1>3. \A q \in Records \ {r} : KeyIn(w, q) = KeyIn(v, q)
    BY <1>2 DEF KeyIn
  <1> QED BY <1>2, <1>3

LEMMA PutsPointer ==
    ASSUME NEW v \in Vaults, NEW p \in Providers, NEW w, w = Applied(v, Ptr(p)),
           Settled(v) \/ v.secret[v.active] # Absent
    PROVE  /\ w.active = p /\ w.legacy = 0 /\ w.secret = v.secret
           /\ \A q \in Records : KeyIn(w, q) = KeyIn(v, q)
  <1>1. w = [v EXCEPT !.active = p, !.legacy = 0]
    BY DEF Applied, Ptr
  <1>2. w.active = p /\ w.legacy = 0 /\ w.secret = v.secret
    BY <1>1 DEF Vaults
  <1>3. ASSUME NEW q \in Records PROVE KeyIn(w, q) = KeyIn(v, q)
    BY <1>2, Names DEF KeyIn, Settled
  <1> QED BY <1>2, <1>3

LEMMA NotCut ==
    ASSUME VaultTypeOK, Orderly, NEW t \in Writers, writer[t] # Away,
           writer[t].pc # "write"
    PROVE  cut = FALSE
  <1>1. \A u \in Writers : writer[u].pc # "write"
    <2>1. ASSUME NEW u \in Writers, writer[u].pc = "write" PROVE FALSE
      <3>1. writer[u] # Away
        BY <2>1 DEF Away
      <3>2. u = t
        BY <3>1 DEF Orderly, OneCall
      <3> QED BY <2>1, <3>2
    <2> QED BY <2>1
  <1>2. cut \in BOOLEAN
    BY DEF VaultTypeOK
  <1> QED BY <1>1, <1>2 DEF Orderly, CutIsWriting

LEMMA StoredMeans ==
    ASSUME Orderly, cut = FALSE, NEW r \in Records
    PROVE  StoredKey(r) = typed[r]
  BY DEF Orderly, Kin, StoredKey

(* The one call that is on its way takes a step. *)
LEMMA CallProceeds ==
    ASSUME VaultTypeOK, Orderly, NEW t \in Writers, writer[t] # Away, NEW c,
           Steps(t, c), cut' <=> c.pc = "write",
           c # Away => Doing(c, vault', typed'),
           Kin(vault', typed'), Clean(environ', typed'), Bare(vault')
    PROVE  Orderly'
  <1>1. writer' = [writer EXCEPT ![t] = c] /\ writer \in [Writers -> Writing \cup {Away}]
    BY DEF VaultTypeOK, Steps
  <1>2. writer'[t] = c /\ \A u \in Writers \ {t} : writer'[u] = writer[u]
    BY <1>1
  <1>3. \A u \in Writers \ {t} : writer'[u] = Away
    BY <1>2 DEF Orderly, OneCall
  <1>4. OneCall'
    BY <1>3 DEF OneCall
  <1>5. CutIsWriting'
    <2>1. \A u \in Writers \ {t} : writer'[u].pc # "write"
      BY <1>3 DEF Away
    <2>2. (\E u \in Writers : writer'[u].pc = "write") <=> c.pc = "write"
      BY <2>1, <1>2
    <2> QED BY <2>2 DEF CutIsWriting
  <1>6. ASSUME NEW u \in Writers, writer'[u] # Away
        PROVE  Doing(writer'[u], vault', typed')
    BY <1>2, <1>3, <1>6
  <1> QED BY <1>4, <1>5, <1>6 DEF Orderly

LEMMA ProceedsQuietly ==
    ASSUME VaultTypeOK, Orderly, NEW t \in Writers, writer[t] # Away,
           writer[t].pc # "write", NEW c, Steps(t, c), Quiet, c.pc # "write",
           c # Away => Doing(c, vault, typed)
    PROVE  Orderly'
  <1>1. vault' = vault /\ cut' = cut /\ environ' = environ /\ typed' = typed
    BY DEF Quiet
  <1>2. cut' <=> c.pc = "write"
    BY <1>1, NotCut
  <1>3. Kin(vault', typed') /\ Clean(environ', typed') /\ Bare(vault')
    BY <1>1 DEF Orderly
  <1>4. c # Away => Doing(c, vault', typed')
    BY <1>1
  <1> QED BY <1>2, <1>3, <1>4, CallProceeds

(* What the write of a call leaves, for each thing it may be about to write. *)
LEMMA Written ==
    ASSUME VaultTypeOK, CallsFit, Orderly, NEW t \in Writers, WriteVault(t)
    PROVE  Orderly'
  <1> DEFINE c == writer[t]
             s == Head(c.todo)
             left == Tail(c.todo)
             next == [c EXCEPT !.doc = NoVault, !.todo = left]
             ahead == [next EXCEPT !.pc = "load"]
             after == [next EXCEPT !.pc = IF c.pointed THEN "env" ELSE "point"]
  <1>1. c \in Writing /\ c # Away /\ c.pc = "write"
    BY AtWork DEF WriteVault
  <1>2. /\ c.of \in Records /\ c.fresh \in Secrets /\ c.pointed \in BOOLEAN
        /\ c.todo \in Seq(Sets)
    BY <1>1 DEF Writing
  <1>3. vault \in Vaults /\ typed \in [Records -> Secrets]
    BY DEF VaultTypeOK
  <1>4. vault' = c.doc /\ cut' = FALSE /\ environ' = environ
    BY DEF WriteVault
  <1>5. typed' = IF s.of # c.of \/ (c.fresh # 0 /\ s.secret # c.fresh) THEN typed
                 ELSE [typed EXCEPT ![c.of] =
                         IF s.secret = Absent THEN 0
                         ELSE IF c.fresh # 0 THEN c.fresh ELSE @]
    BY DEF WriteVault
  <1>6. Steps(t, IF left # <<>> THEN ahead
                 ELSE IF c.of \in SignIns THEN Away ELSE after)
    BY DEF WriteVault
  <1>7. /\ Planned(c, vault, typed) \/ Forgets(c, <<Erase(c)>>)
        /\ vault' = Applied(vault, s)
    BY <1>1, <1>4 DEF Orderly, Doing
  <1>8. Kin(vault, typed) /\ Clean(environ, typed) /\ Bare(vault)
    BY DEF Orderly
  <1>9. /\ ahead.pc = "load" /\ ahead.todo = left /\ ahead.of = c.of
        /\ ahead.secret = c.secret /\ ahead.fresh = c.fresh
    BY <1>1 DEF Writing
  <1>10. after.pc \in {"env", "point"} /\ after.of = c.of
    BY <1>1 DEF Writing
  <1>11. Away.pc # "write"
    BY DEF Away
  <1> HIDE DEF c, s, left, ahead, after
  <1>a. ASSUME Kin(vault', typed'), Clean(environ, typed'), Bare(vault'),
               left # <<>> => Planned(ahead, vault', typed'),
               left = <<>> /\ c.of \notin SignIns =>
                 Settled(vault') /\ vault'.secret[c.of] # Absent
        PROVE  Orderly'
    <2>0. writer[t] # Away
      BY <1>1 DEF c
    <2>1. CASE left # <<>>
      <3>1. Doing(ahead, vault', typed')
        BY <1>9, <1>a, <2>1 DEF Doing
      <3> QED BY <1>4, <1>6, <1>9, <1>a, <2>0, <2>1, <3>1, CallProceeds
    <2>2. CASE left = <<>> /\ c.of \in SignIns
      <3>1. Steps(t, Away)
        BY <1>6, <2>2
      <3> QED BY <1>4, <1>11, <1>a, <2>0, <3>1, CallProceeds
    <2>3. CASE left = <<>> /\ c.of \notin SignIns
      <3>1. Steps(t, after)
        BY <1>6, <2>3
      <3>2. Doing(after, vault', typed')
        BY <1>10, <1>a, <2>3 DEF Doing
      <3>3. after.pc # "write"
        BY <1>10
      <3> QED BY <1>4, <1>a, <2>0, <3>1, <3>2, <3>3, CallProceeds
    <2> QED BY <2>1, <2>2, <2>3
  <1>b. CASE SavesOwn(c, vault, typed)
    <2>1. c.todo = <<Own(c)>> /\ Meant(c, typed) /\ (c.of \in Providers => Settled(vault))
      BY <1>b DEF SavesOwn
    <2>2. s = Own(c) /\ left = <<>>
      BY <2>1 DEF s, left
    <2>3. c.secret \in Secrets
      BY <1>2, <1>3, <2>1 DEF Meant
    <2>4. vault' = Applied(vault, [of |-> c.of, secret |-> c.secret])
      BY <1>7, <2>2 DEF Own
    <2>5. /\ vault'.active = vault.active /\ vault'.legacy = vault.legacy
          /\ vault'.secret[c.of] = c.secret
          /\ \A q \in Records \ {c.of} : KeyIn(vault', q) = KeyIn(vault, q)
      BY <1>2, <1>3, <2>3, <2>4, PutsRecord
    <2>6. KeyIn(vault', c.of) = c.secret
      BY <2>3, <2>5, Names DEF KeyIn
    <2>7. s.of = c.of /\ s.secret = c.secret
      BY <2>2 DEF Own
    <2>8. typed' = [typed EXCEPT ![c.of] = c.secret]
      <3>1. CASE c.fresh # 0
        BY <1>5, <2>1, <2>3, <2>7, <3>1, Names DEF Meant
      <3>2. CASE c.fresh = 0
        BY <1>2, <1>3, <1>5, <2>1, <2>3, <2>7, <3>2, Names DEF Meant
      <3> QED BY <3>1, <3>2
    <2>9. Kin(vault', typed')
      <3>1. typed'[c.of] = c.secret /\ \A q \in Records \ {c.of} : typed'[q] = typed[q]
        BY <1>2, <1>3, <2>8
      <3> QED BY <1>8, <2>5, <2>6, <3>1 DEF Kin
    <2>10. Clean(environ, typed')
      <3>1. c.secret = 0 => typed[c.of] = 0
        BY <2>1 DEF Meant
      <3>2. ASSUME NEW p \in Providers, typed'[p] = 0 PROVE typed[p] = 0
        <4>1. p \in Records
          BY Names
        <4>2. typed'[p] = IF p = c.of THEN c.secret ELSE typed[p]
          BY <1>3, <2>8, <4>1
        <4> QED BY <3>1, <3>2, <4>2
      <3> QED BY <1>8, <3>2 DEF Clean
    <2>11. Bare(vault')
      BY <1>8, <2>5 DEF Bare
    <2>12. c.of \notin SignIns => Settled(vault') /\ vault'.secret[c.of] # Absent
      BY <1>2, <2>1, <2>3, <2>5, Names DEF Settled, Records
    <2> QED BY <1>a, <2>2, <2>9, <2>10, <2>11, <2>12
  <1>c. CASE Points(c, vault)
    <2>1. c.of \in Providers /\ s = Ptr(c.of) /\ left = <<>>
          /\ Settled(vault) /\ vault.secret[c.of] # Absent
      BY <1>c DEF Points, s, left
    <2>2. /\ vault'.active = c.of /\ vault'.legacy = 0 /\ vault'.secret = vault.secret
          /\ \A q \in Records : KeyIn(vault', q) = KeyIn(vault, q)
      BY <1>3, <1>7, <2>1, PutsPointer
    <2>3. s.of = "pointer" /\ s.of # c.of
      BY <1>2, <2>1, Names DEF Ptr
    <2>4. typed' = typed
      BY <1>5, <2>3
    <2>5. Kin(vault', typed') /\ Clean(environ, typed')
      BY <1>8, <2>2, <2>4 DEF Kin
    <2>6. Bare(vault') /\ Settled(vault')
      BY <2>2 DEF Bare, Settled
    <2> QED BY <1>a, <2>1, <2>2, <2>5, <2>6
  <1>d. CASE Unpoints(c, vault, typed)
    <2>1. /\ s = Ptr(vault.active) /\ left = <<Own(c)>> /\ Meant(c, typed)
          /\ vault.active \in Providers /\ vault.secret[vault.active] # Absent
      BY <1>d DEF Unpoints, s, left
    <2>2. /\ vault'.legacy = 0
          /\ \A q \in Records : KeyIn(vault', q) = KeyIn(vault, q)
      BY <1>3, <1>7, <2>1, PutsPointer
    <2>3. s.of = "pointer" /\ s.of # c.of
      BY <1>2, <2>1, Names DEF Ptr
    <2>4. typed' = typed
      BY <1>5, <2>3
    <2>5. Kin(vault', typed') /\ Clean(environ, typed')
      BY <1>8, <2>2, <2>4 DEF Kin
    <2>6. Bare(vault') /\ Settled(vault')
      BY <2>2 DEF Bare, Settled
    <2>7. SavesOwn(ahead, vault', typed')
      BY <1>9, <2>1, <2>4, <2>6 DEF SavesOwn, Own, Meant
    <2>8. left # <<>>
      BY <2>1
    <2> QED BY <1>a, <2>5, <2>6, <2>7, <2>8 DEF Planned
  <1>e. CASE Lifts(c, vault, typed)
    <2>1. /\ s = [of |-> vault.active, secret |-> vault.legacy]
          /\ left = <<Ptr(vault.active), Own(c)>> /\ Meant(c, typed)
          /\ vault.active \in Providers /\ vault.secret[vault.active] = Absent
      BY <1>e DEF Lifts, s, left
    <2>2. vault.active \in Records /\ vault.legacy \in Secrets
      BY <1>3, <2>1, Names DEF Vaults
    <2>3. /\ vault'.active = vault.active /\ vault'.legacy = vault.legacy
          /\ vault'.secret[vault.active] = vault.legacy
          /\ \A q \in Records \ {vault.active} : KeyIn(vault', q) = KeyIn(vault, q)
      BY <1>3, <1>7, <2>1, <2>2, PutsRecord
    <2>4. KeyIn(vault, vault.active) = vault.legacy
      BY <2>1 DEF KeyIn
    <2>5. KeyIn(vault', vault.active) = vault.legacy
      BY <2>2, <2>3, Names DEF KeyIn
    <2>6. typed[vault.active] = vault.legacy
      BY <1>8, <2>2, <2>4 DEF Kin
    <2>7. typed' = typed
      <3>1. CASE s.of = c.of /\ (c.fresh # 0 => s.secret = c.fresh)
        <4>1. c.of = vault.active /\ s.secret = vault.legacy /\ s.secret # Absent
          BY <2>1, <2>2, <3>1, Names
        <4>2. typed' = [typed EXCEPT ![c.of] = typed[c.of]]
          BY <1>2, <1>3, <1>5, <2>6, <3>1, <4>1
        <4> QED BY <1>3, <4>2
      <3>2. CASE s.of # c.of \/ (c.fresh # 0 /\ s.secret # c.fresh)
        BY <1>5, <3>2
      <3> QED BY <3>1, <3>2
    <2>8. Kin(vault', typed') /\ Clean(environ, typed')
      BY <1>8, <2>3, <2>4, <2>5, <2>7 DEF Kin
    <2>9. Bare(vault')
      BY <1>8, <2>3 DEF Bare
    <2>10. vault'.secret[vault'.active] # Absent
      BY <2>2, <2>3, Names
    <2>11. Unpoints(ahead, vault', typed')
      BY <1>9, <2>1, <2>3, <2>7, <2>10 DEF Unpoints, Own, Meant
    <2>12. left # <<>>
      BY <2>1
    <2> QED BY <1>a, <2>8, <2>9, <2>11, <2>12 DEF Planned
  <1>f. CASE Forgets(c, <<Erase(c)>>)
    <2>1. c.of \in SignIns /\ c.fresh = 0 /\ s = Erase(c) /\ left = <<>>
      BY <1>f DEF Forgets, s, left
    <2>2. vault' = Applied(vault, [of |-> c.of, secret |-> Absent])
      BY <1>7, <2>1 DEF Erase
    <2>3. /\ vault'.active = vault.active /\ vault'.legacy = vault.legacy
          /\ vault'.secret[c.of] = Absent
          /\ \A q \in Records \ {c.of} : KeyIn(vault', q) = KeyIn(vault, q)
      BY <1>2, <1>3, <2>2, PutsRecord
    <2>4. KeyIn(vault', c.of) = 0
      BY <2>1, <2>3, Names DEF KeyIn
    <2>5. typed' = [typed EXCEPT ![c.of] = 0]
      BY <1>5, <2>1 DEF Erase
    <2>6. typed'[c.of] = 0 /\ \A q \in Records \ {c.of} : typed'[q] = typed[q]
      BY <1>2, <1>3, <2>5
    <2>7. Kin(vault', typed')
      BY <1>8, <2>3, <2>4, <2>6 DEF Kin
    <2>8. Clean(environ, typed')
      <3>1. \A p \in Providers : p \in Records \ {c.of}
        BY <2>1, Names
      <3> QED BY <1>8, <2>6, <3>1 DEF Clean
    <2>9. Bare(vault')
      BY <1>8, <2>3 DEF Bare
    <2> QED BY <1>a, <2>1, <2>7, <2>8, <2>9
  <1> QED BY <1>7, <1>b, <1>c, <1>d, <1>e, <1>f DEF Planned

(* A call that begins alone. *)
LEMMA CallBegins ==
    ASSUME VaultTypeOK, Orderly, NEW t \in Writers, NEW r \in Records,
           NEW pc \in {"reuse", "load"}, NEW fresh \in Secrets, NEW activate,
           Asks(t, r, pc, fresh, activate), undisturbed',
           pc = "load" => r \in SignIns /\ fresh = 0
    PROVE  Orderly'
  <1> DEFINE c == [pc |-> pc, of |-> r, fresh |-> fresh, secret |-> fresh,
                   activate |-> activate, pointed |-> FALSE, todo |-> <<>>,
                   doc |-> NoVault]
  <1>1. Steps(t, c) /\ UNCHANGED <<vault, cut, environ, typed>>
    BY DEF Asks
  <1>2. \A u \in Writers : writer[u] = Away
    BY DEF Asks
  <1>3. cut = FALSE
    <2>1. \A u \in Writers : writer[u].pc # "write"
      BY <1>2 DEF Away
    <2>2. cut \in BOOLEAN
      BY DEF VaultTypeOK
    <2> QED BY <2>1, <2>2 DEF Orderly, CutIsWriting
  <1>4. Doing(c, vault, typed)
    BY DEF Doing, Forgets
  <1>5. c.pc # "write"
    OBVIOUS
  <1> HIDE DEF c
  <1>6. /\ writer'[t] = c
        /\ \A u \in Writers \ {t} : writer'[u] = Away
    <2>1. writer \in [Writers -> Writing \cup {Away}] /\ writer' = [writer EXCEPT ![t] = c]
      BY <1>1 DEF VaultTypeOK, Steps
    <2> QED BY <1>2, <2>1
  <1>7. OneCall'
    BY <1>6 DEF OneCall
  <1>8. \A u \in Writers : writer'[u].pc # "write"
    BY <1>5, <1>6 DEF Away
  <1>9. CutIsWriting'
    BY <1>1, <1>3, <1>8 DEF CutIsWriting
  <1>10. ASSUME NEW u \in Writers, writer'[u] # Away
         PROVE  Doing(writer'[u], vault', typed')
    BY <1>1, <1>4, <1>6, <1>10
  <1>11. Kin(vault', typed') /\ Clean(environ', typed') /\ Bare(vault')
    BY <1>1 DEF Orderly
  <1> QED BY <1>7, <1>9, <1>10, <1>11 DEF Orderly

LEMMA Joined ==
    ASSUME NEW a, NEW b, NEW c
    PROVE  /\ <<>> \o <<a>> = <<a>> /\ <<a>> \o <<b>> = <<a, b>>
           /\ <<a, b>> \o <<c>> = <<a, b, c>>
  <1> DEFINE S == {a, b, c}
  <1>1. <<>> \in Seq(S) /\ <<a>> \in Seq(S) /\ <<b>> \in Seq(S) /\ <<c>> \in Seq(S) /\ <<a, b>> \in Seq(S)
        /\ <<a, b, c>> \in Seq(S)
    OBVIOUS
  <1>2. <<>> \o <<a>> = <<a>>
    BY <1>1, SMTT(20)
  <1>3. <<a>> \o <<b>> = <<a, b>>
    <2>1. <<a>> \o <<b>> \in Seq(S) /\ Len(<<a>> \o <<b>>) = 2 
      BY <1>1
    <2>2. (<<a>> \o <<b>>)[1] = a /\ (<<a>> \o <<b>>)[2] = b
      BY <1>1
    <2>3. Len(<<a, b>>) = 2 /\ \A i \in 1..2 : (<<a>> \o <<b>>)[i] = <<a, b>>[i]
      BY <2>2
    <2> HIDE DEF S
    <2> QED BY <1>1, <2>1, <2>3, SeqEqual
  <1>4. <<a, b>> \o <<c>> = <<a, b, c>>
    <2>1. <<a, b>> \o <<c>> \in Seq(S) /\ Len(<<a, b>> \o <<c>>) = 3
      BY <1>1
    <2>2. (<<a, b>> \o <<c>>)[1] = a /\ (<<a, b>> \o <<c>>)[2] = b /\ (<<a, b>> \o <<c>>)[3] = c
      BY <1>1
    <2>3. /\ Len(<<a, b, c>>) = 3
          /\ \A i \in 1..3 : (<<a, b>> \o <<c>>)[i] = <<a, b, c>>[i]
      BY <2>2
    <2> HIDE DEF S
    <2> QED BY <1>1, <2>1, <2>3, SeqEqual
  <1> QED BY <1>2, <1>3, <1>4

(* The migration of the old pointer, put before the secret of a call. *)
LEMMA Migrates ==
    ASSUME VaultTypeOK, CallsFit, Orderly, NEW t \in Writers, Migrate(t)
    PROVE  Orderly'
  <1> DEFINE c == writer[t]
             l == (IF c.of \in Providers THEN Lifted ELSE <<>>)
                    \o <<[of |-> c.of, secret |-> c.secret]>>
             d == [c EXCEPT !.pc = "load", !.todo = l]
  <1>1. c \in Writing /\ c # Away /\ c.pc = "migrate"
    BY AtWork DEF Migrate
  <1>2. vault \in Vaults /\ c.of \in Records
    BY <1>1 DEF Writing, VaultTypeOK
  <1>3. Meant(c, typed)
    BY <1>1 DEF Orderly, Doing
  <1>4. cut = FALSE
    BY <1>1, NotCut
  <1>5. Steps(t, d) /\ Quiet
    BY DEF Migrate
  <1>6. d.pc = "load" /\ d.todo = l /\ d.of = c.of /\ d.secret = c.secret
        /\ d.fresh = c.fresh
    BY <1>1 DEF Writing
  <1>7. Planned(d, vault, typed)
    <2>0. Meant(d, typed) /\ Own(d) = [of |-> c.of, secret |-> c.secret]
      BY <1>3, <1>6 DEF Meant, Own
    <2>1. CASE c.of \notin Providers \/ Settled(vault)
      <3>1. c.of \in Providers => Lifted = <<>>
        BY <2>1 DEF Lifted, Settled
      <3>2. l = <<Own(d)>>
        BY <2>0, <3>1, Joined
      <3> HIDE DEF d, l
      <3>3. SavesOwn(d, vault, typed)
        BY <1>6, <2>0, <2>1, <3>2 DEF SavesOwn
      <3> QED BY <3>3 DEF Planned
    <2>2. CASE c.of \in Providers /\ ~Settled(vault)
      <3>1. vault.active \in Providers /\ vault.active # Nobody /\ vault.legacy # 0
        BY <1>2, <2>2 DEF Settled, Vaults
      <3>2. CASE vault.secret[vault.active] # Absent
        <4>1. Lifted = <<Ptr(vault.active)>>
          BY <1>4, <3>1, <3>2 DEF Lifted, Ptr
        <4>2. l = <<Ptr(vault.active), Own(d)>>
          BY <2>0, <2>2, <4>1, Joined
        <4> HIDE DEF d, l
        <4>3. Unpoints(d, vault, typed)
          BY <1>6, <2>0, <3>1, <3>2, <4>2 DEF Unpoints
        <4> QED BY <4>3 DEF Planned
      <3>3. CASE vault.secret[vault.active] = Absent
        <4>1. Lifted = <<[of |-> vault.active, secret |-> vault.legacy],
                         Ptr(vault.active)>>
          BY <1>4, <3>1, <3>3, Joined DEF Lifted, Ptr
        <4>2. l = <<[of |-> vault.active, secret |-> vault.legacy],
                    Ptr(vault.active), Own(d)>>
          BY <2>0, <2>2, <4>1, Joined
        <4> HIDE DEF d, l
        <4>3. Lifts(d, vault, typed)
          BY <1>6, <2>0, <3>1, <3>3, <4>2 DEF Lifts
        <4> QED BY <4>3 DEF Planned
      <3> QED BY <3>2, <3>3
    <2> QED BY <2>1, <2>2
  <1>8. Doing(d, vault, typed)
    <2> HIDE DEF d
    <2> QED BY <1>6, <1>7 DEF Doing
  <1>9. c.pc # "write" /\ d.pc # "write"
    BY <1>1, <1>6
  <1> HIDE DEF d
  <1> QED BY <1>1, <1>5, <1>8, <1>9, ProceedsQuietly

(* The store is read, and the first of what there is to write put into it.   *)
LEMMA LoadsVault ==
    ASSUME VaultTypeOK, CallsFit, Orderly, NEW t \in Writers, LoadVault(t)
    PROVE  Orderly'
  <1> DEFINE c == writer[t]
             todo == IF c.todo = <<>> THEN <<[of |-> c.of, secret |-> Absent]>>
                     ELSE c.todo
             doc == Applied(vault, Head(todo))
             d == [c EXCEPT !.pc = "dump", !.todo = todo, !.doc = doc]
  <1>1. c \in Writing /\ c # Away /\ c.pc = "load"
    BY AtWork DEF LoadVault
  <1>2. cut = FALSE
    BY <1>1, NotCut
  <1>3. Steps(t, d) /\ Quiet
    BY <1>2 DEF LoadVault
  <1>4. /\ d.pc = "dump" /\ d.todo = todo /\ d.doc = doc /\ d.of = c.of
        /\ d.secret = c.secret /\ d.fresh = c.fresh
    BY <1>1 DEF Writing
  <1>5. Planned(c, vault, typed) \/ Forgets(c, <<>>)
    BY <1>1 DEF Orderly, Doing
  <1>6. CASE Planned(c, vault, typed)
    <2>1. c.todo # <<>>
      BY <1>6 DEF Planned, SavesOwn, Points, Unpoints, Lifts
    <2>2. d.todo = c.todo
      BY <1>4, <2>1
    <2> HIDE DEF todo, d, doc
    <2>3. Own(d) = Own(c) /\ (Meant(d, typed) <=> Meant(c, typed))
      BY <1>4 DEF Own, Meant
    <2>4. Planned(d, vault, typed)
      BY <1>4, <1>6, <2>2, <2>3 DEF Planned, SavesOwn, Points, Unpoints, Lifts
    <2>5. Doing(d, vault, typed)
      BY <1>4, <2>4 DEF Doing, doc
    <2> QED BY <1>1, <1>3, <1>4, <2>5, ProceedsQuietly
  <1>7. CASE Forgets(c, <<>>)
    <2>1. d.todo = <<Erase(d)>>
      BY <1>4, <1>7 DEF Forgets, Erase
    <2> HIDE DEF todo, d, doc
    <2>2. Forgets(d, <<Erase(d)>>)
      BY <1>4, <1>7, <2>1 DEF Forgets
    <2>3. Doing(d, vault, typed)
      BY <1>4, <2>2 DEF Doing, doc
    <2> QED BY <1>1, <1>3, <1>4, <2>3, ProceedsQuietly
  <1> QED BY <1>5, <1>6, <1>7

LEMMA Truncates ==
    ASSUME VaultTypeOK, CallsFit, Orderly, NEW t \in Writers, TruncateVault(t)
    PROVE  Orderly'
  <1> DEFINE c == writer[t]
             d == [c EXCEPT !.pc = "write"]
  <1>1. c \in Writing /\ c # Away /\ c.pc = "dump"
    BY AtWork DEF TruncateVault
  <1>2. Steps(t, d) /\ cut' = TRUE /\ vault' = vault /\ environ' = environ
        /\ typed' = typed
    BY DEF TruncateVault
  <1>3. /\ d.pc = "write" /\ d.todo = c.todo /\ d.doc = c.doc /\ d.of = c.of
        /\ d.secret = c.secret /\ d.fresh = c.fresh
    BY <1>1 DEF Writing
  <1>4. /\ Planned(c, vault, typed) \/ Forgets(c, <<Erase(c)>>)
        /\ c.doc = Applied(vault, Head(c.todo))
    BY <1>1 DEF Orderly, Doing
  <1> HIDE DEF d
  <1>5. /\ Own(d) = Own(c) /\ Erase(d) = Erase(c)
        /\ (Meant(d, typed) <=> Meant(c, typed))
    BY <1>3 DEF Own, Erase, Meant
  <1>6. Planned(d, vault, typed) \/ Forgets(d, <<Erase(d)>>)
    BY <1>3, <1>4, <1>5 DEF Planned, SavesOwn, Points, Unpoints, Lifts, Forgets
  <1>7. Doing(d, vault', typed')
    BY <1>2, <1>3, <1>4, <1>6 DEF Doing
  <1>8. Kin(vault', typed') /\ Clean(environ', typed') /\ Bare(vault')
    BY <1>2 DEF Orderly
  <1>9. cut' <=> d.pc = "write"
    BY <1>2, <1>3
  <1> QED BY <1>1, <1>2, <1>7, <1>8, <1>9, CallProceeds

LEMMA OrderlyStep ==
    VaultIInv /\ [VaultNext]_vaultVars /\ undisturbed' => Orderly'
  <1> SUFFICES ASSUME VaultTypeOK, CallsFit, undisturbed => Orderly,
                      [VaultNext]_vaultVars, undisturbed'
               PROVE  Orderly'
    BY DEF VaultIInv
  <1>0. undisturbed
    BY DEF VaultNext, SetSecret, ForgetSecret, Asks, Reuse, Migrate, LoadVault,
           TruncateVault, WriteVault, Point, LoadIntoEnv, AppRestarts, Quiet,
           vaultVars
  <1>o. Orderly
    BY <1>0
  <1>s. VaultTypeOK /\ CallsFit
    OBVIOUS
  <1>1. ASSUME NEW t \in Writers, NEW r \in Records, NEW activate \in BOOLEAN,
               SetSecret(t, r, activate)
        PROVE  Orderly'
    <2>1. CASE Asks(t, r, "reuse", 0, activate)
      BY <1>o, <2>1, CallBegins, Names
    <2>2. CASE given < MaxTyped /\ Asks(t, r, "reuse", given + 1, activate)
      <3>1. given + 1 \in Secrets
        BY <2>2, VaultAssumption DEF VaultTypeOK, Secrets
      <3> QED BY <1>o, <2>2, <3>1, CallBegins
    <2> QED BY <1>1, <2>1, <2>2 DEF SetSecret
  <1>2. ASSUME NEW t \in Writers, NEW r \in SignIns, ForgetSecret(t, r)
        PROVE  Orderly'
    <2>1. r \in Records /\ Asks(t, r, "load", 0, TRUE)
      BY <1>2, Names DEF ForgetSecret
    <2> QED BY <1>o, <2>1, CallBegins, Names
  <1>3. ASSUME NEW t \in Writers, Reuse(t)
        PROVE  Orderly'
    <2> DEFINE c == writer[t]
               s == IF c.fresh # 0 THEN c.fresh ELSE StoredKey(c.of)
               d == [c EXCEPT !.pc = "migrate", !.secret = s]
    <2>1. c \in Writing /\ c # Away /\ c.pc = "reuse"
      BY <1>3, AtWork DEF Reuse
    <2>2. cut = FALSE
      BY <1>o, <2>1, NotCut
    <2>3. StoredKey(c.of) = typed[c.of]
      BY <1>o, <2>1, <2>2, StoredMeans DEF Writing
    <2>4. d.pc = "migrate" /\ d.secret = s /\ d.of = c.of /\ d.fresh = c.fresh
      BY <2>1 DEF Writing
    <2>5. Doing(d, vault, typed)
      <3>1. Meant(d, typed)
        BY <2>3, <2>4 DEF Meant
      <3> HIDE DEF d
      <3> QED BY <2>4, <3>1 DEF Doing
    <2>6. (Steps(t, Away) \/ Steps(t, d)) /\ Quiet
      BY <1>3 DEF Reuse
    <2>7. Away.pc # "write"
      BY DEF Away
    <2> HIDE DEF d
    <2> QED BY <1>o, <2>1, <2>4, <2>5, <2>6, <2>7, ProceedsQuietly
  <1>4. ASSUME NEW t \in Writers, Migrate(t) PROVE Orderly'
    BY <1>o, <1>s, <1>4, Migrates
  <1>5. ASSUME NEW t \in Writers, LoadVault(t) PROVE Orderly'
    BY <1>o, <1>s, <1>5, LoadsVault
  <1>6. ASSUME NEW t \in Writers, TruncateVault(t) PROVE Orderly'
    BY <1>o, <1>s, <1>6, Truncates
  <1>7. ASSUME NEW t \in Writers, WriteVault(t) PROVE Orderly'
    BY <1>o, <1>s, <1>7, Written
  <1>8. ASSUME NEW t \in Writers, Point(t)
        PROVE  Orderly'
    <2> DEFINE c == writer[t]
               d == [c EXCEPT !.pc = "load", !.pointed = TRUE,
                       !.todo = <<[of |-> "pointer", active |-> c.of]>>]
               e == [c EXCEPT !.pc = "env"]
    <2>1. c \in Writing /\ c # Away /\ c.pc = "point"
      BY <1>8, AtWork DEF Point
    <2>2. c.of \in Providers /\ Settled(vault) /\ vault.secret[c.of] # Absent
      BY <1>o, <2>1 DEF CallsFit, Fits, Orderly, Doing
    <2>3. d.pc = "load" /\ d.of = c.of /\ d.todo = <<Ptr(c.of)>>
      BY <2>1 DEF Writing, Ptr
    <2>4. e.pc = "env"
      BY <2>1 DEF Writing
    <2>5. (Steps(t, d) \/ Steps(t, e)) /\ Quiet
      BY <1>8 DEF Point
    <2> HIDE DEF d, e
    <2>6. Doing(d, vault, typed)
      BY <2>2, <2>3 DEF Doing, Planned, Points
    <2>7. Doing(e, vault, typed)
      BY <2>4 DEF Doing
    <2> QED BY <1>o, <2>1, <2>3, <2>4, <2>5, <2>6, <2>7, ProceedsQuietly
  <1>9. ASSUME NEW t \in Writers, LoadIntoEnv(t)
        PROVE  Orderly'
    <2> DEFINE p == ActiveProvider
    <2>1. writer[t] # Away /\ writer[t].pc = "env"
      BY <1>9, AtWork DEF LoadIntoEnv
    <2>2. cut = FALSE
      BY <1>o, <2>1, NotCut
    <2>3. Steps(t, Away) /\ vault' = vault /\ cut' = cut /\ typed' = typed
      BY <1>9 DEF LoadIntoEnv
    <2>4. environ' = environ \/ (p \in Providers /\ environ' = [environ EXCEPT ![p] = typed[p]])
      <3>1. p \in {"openai_compatible", "anthropic"} => p \in Records /\ p \in Providers
        BY DEF Records, Providers
      <3>2. p \in {"openai_compatible", "anthropic"} => StoredKey(p) = typed[p]
        BY <1>o, <2>2, <3>1, StoredMeans
      <3> QED BY <1>9, <3>1, <3>2 DEF LoadIntoEnv
    <2>5. Clean(environ', typed')
      <3>1. environ \in [Providers -> Secrets]
        BY DEF VaultTypeOK
      <3>2. Clean(environ, typed)
        BY <1>o DEF Orderly
      <3> HIDE DEF p
      <3> QED BY <2>3, <2>4, <3>1, <3>2 DEF Clean
    <2>6. Kin(vault', typed') /\ Bare(vault')
      BY <1>o, <2>3 DEF Orderly
    <2>7. cut' <=> Away.pc = "write"
      BY <2>2, <2>3 DEF Away
    <2> QED BY <1>o, <2>1, <2>3, <2>5, <2>6, <2>7, CallProceeds
  <1>10. CASE AppRestarts
    <2>1. /\ writer' = [t \in Writers |-> Away] /\ environ' = [p \in Providers |-> 0]
          /\ cut = FALSE /\ vault' = vault /\ cut' = cut /\ typed' = typed
      BY <1>10 DEF AppRestarts, VaultTypeOK
    <2>2. OneCall' /\ \A t \in Writers : writer'[t] = Away
      BY <2>1 DEF OneCall
    <2>3. CutIsWriting'
      BY <2>1, <2>2 DEF CutIsWriting, Away
    <2>4. Kin(vault', typed') /\ Bare(vault')
      BY <1>o, <2>1 DEF Orderly
    <2>5. Clean(environ', typed')
      BY <2>1 DEF Clean
    <2> QED BY <2>2, <2>3, <2>4, <2>5 DEF Orderly
  <1>11. CASE UNCHANGED vaultVars
    BY <1>o, <1>11 DEF vaultVars, Orderly, OneCall, CutIsWriting
  <1> QED
    BY <1>1, <1>2, <1>3, <1>4, <1>5, <1>6, <1>7, <1>8, <1>9, <1>10, <1>11
       DEF VaultNext

LEMMA InitOrderly == VaultInit => Orderly
  <1> SUFFICES ASSUME VaultInit PROVE Orderly
    OBVIOUS
  <1>1. PICK p \in Providers \cup {Nobody} :
          LET n == IF p = Nobody THEN 0 ELSE 1
          IN  /\ vault = [NoVault EXCEPT !.active = p, !.legacy = n]
              /\ typed = [r \in Records |-> IF r = p THEN n ELSE 0]
              /\ given = n
    BY DEF VaultInit
  <1> DEFINE n == IF p = Nobody THEN 0 ELSE 1
  <1>2. /\ vault.active = p /\ vault.legacy = n
        /\ \A r \in Records : vault.secret[r] = Absent
        /\ \A r \in Records : typed[r] = IF r = p THEN n ELSE 0
    BY <1>1 DEF NoVault
  <1>3. Kin(vault, typed)
    <2>1. p \notin Providers => n = 0
      BY <1>1
    <2> HIDE DEF n
    <2> QED BY <1>2, <2>1 DEF Kin, KeyIn
  <1>4. Bare(vault)
    BY <1>2 DEF Bare
  <1>5. Clean(environ, typed)
    BY DEF VaultInit, Clean
  <1>6. cut = FALSE /\ \A t \in Writers : writer[t] = Away
    BY DEF VaultInit
  <1>7. CutIsWriting
    BY <1>6 DEF CutIsWriting, Away
  <1> QED BY <1>3, <1>4, <1>5, <1>6, <1>7 DEF Orderly, OneCall

(* Whatever is used for a provider or a sign-in is what was last given for   *)
(* it, whichever provider is active, left blank, migrated, or cut short      *)
(* between two writes; however many threads there are, and secrets.          *)
THEOREM SecretsAreKept == VaultSpec => []SecretsAreTheirOwn
  <1>1. VaultInit => VaultIInv
    BY InitTypes, InitOrderly DEF VaultIInv
  <1>2. VaultIInv /\ [VaultNext]_vaultVars => VaultIInv'
    BY TypesStep, OrderlyStep DEF VaultIInv
  <1>3. VaultIInv => SecretsAreTheirOwn
    <2> SUFFICES ASSUME VaultIInv, undisturbed, cut = FALSE
                 PROVE  /\ \A p \in Providers : Resolved(p) = typed[p]
                        /\ \A r \in SignIns : KeyIn(vault, r) = typed[r]
      BY DEF SecretsAreTheirOwn, VaultIInv, VaultTypeOK
    <2>1. Orderly
      BY DEF VaultIInv
    <2>2. ASSUME NEW p \in Providers PROVE Resolved(p) = typed[p]
      <3>1. StoredKey(p) = typed[p]
        BY <2>1, StoredMeans, Names
      <3>2. typed[p] = 0 => environ[p] = 0
        BY <2>1 DEF Orderly, Clean
      <3> QED BY <3>1, <3>2 DEF Resolved
    <2>3. \A r \in SignIns : KeyIn(vault, r) = typed[r]
      BY <2>1, Names DEF Orderly, Kin
    <2> QED BY <2>2, <2>3
  <1> QED BY <1>1, <1>2, <1>3, PTL DEF VaultSpec

-----------------------------------------------------------------------------
(* Together: whichever part moves, each goes by its own specification.       *)
LEMMA OfficeStarts ==
    Init => RegistryInit /\ StatusInit /\ IngestInit /\ SettingsInit /\ VaultInit
  BY DEF Init

LEMMA OfficeSteps ==
    [Next]_officeVars => /\ [RegistryNext]_registryVars /\ [StatusNext]_statusVars
                         /\ [IngestNext]_ingestVars /\ [SettingsNext]_settingsVars
                         /\ [VaultNext]_vaultVars
  BY DEF Next, officeVars

LEMMA OfficeParts ==
    Spec => RegistrySpec /\ StatusSpec /\ IngestSpec /\ SettingsSpec /\ VaultSpec
  BY OfficeStarts, OfficeSteps, PTL
     DEF Spec, RegistrySpec, StatusSpec, IngestSpec, SettingsSpec, VaultSpec

(* Every variable of everything that is kept on disk has its type.           *)
THEOREM RecordsTyped == Spec => []RecordsTypeOK
  BY OfficeParts, RegistryTyped, StatusTyped, IngestTyped, SettingsTyped,
     VaultTyped, PTL DEF RecordsTypeOK

(* What the operator has saved, a choice for a source or a secret, is what   *)
(* is used and is kept.                                                      *)
THEOREM SavedStaysUsed == Spec => []SavedIsUsed
  BY OfficeParts, ChoicesStay, SecretsAreKept, PTL DEF SavedIsUsed
=============================================================================

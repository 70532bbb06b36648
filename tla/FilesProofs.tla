---------------------------- MODULE FilesProofs -----------------------------
(***************************************************************************)
(* Proofs about the file system and the system calls on files.             *)
(***************************************************************************)
EXTENDS Files, Induction, SequenceTheorems

-----------------------------------------------------------------------------
(* Strings and names.                                                      *)

\* The bytes of a C string are not NUL, those behind it are.
LEMMA StringBytes ==
  ASSUME NEW s, IsString(s)
  PROVE  /\ Len(s) \in Nat
         /\ DOMAIN s = 1 .. Len(s)
         /\ \A k \in Nat : k < Len(s) => string_byte(s, k) = s[k + 1] /\ string_byte(s, k) # NUL
         /\ \A k \in Nat : k >= Len(s) => string_byte(s, k) = NUL
  <1> DEFINE S == {s[k] : k \in DOMAIN s} \ {NUL}
  <1>1. s \in Seq(S)
    BY DEF IsString
  <1>2. \A x \in S : x # NUL
    OBVIOUS
  <1> HIDE DEF S
  <1>3. Len(s) \in Nat /\ DOMAIN s = 1 .. Len(s) /\ \A k \in 1 .. Len(s) : s[k] \in S
    BY <1>1
  <1>4. ASSUME NEW k \in Nat, k < Len(s) PROVE k + 1 \in 1 .. Len(s)
    BY <1>3, <1>4
  <1> QED
    BY <1>2, <1>3, <1>4 DEF string_byte

\* A name as a directory entry has it.
IsEntryName(d) == IsString(d.file_name) /\ Len(d.file_name) <= NAME_SIZE

\* strlen stops at the end of the name or, when the name fills its field, behind it.
LEMMA NameStrlen ==
  ASSUME NEW d, IsEntryName(d), NAME_SIZE \in Nat
  PROVE  /\ name_strlen(d) \in 0 .. NAME_SIZE + 1
         /\ dentry_byte(d, name_strlen(d)) = NUL
         /\ name_strlen(d) >= Len(d.file_name)
         /\ \A k \in 0 .. name_strlen(d) - 1 : dentry_byte(d, k) # NUL
  <1> DEFINE name == d.file_name
             P(n) == dentry_byte(d, n) = NUL /\ \A k \in 0 .. n - 1 : dentry_byte(d, k) # NUL
  <1>1. Len(name) \in Nat /\ Len(name) <= NAME_SIZE
    BY StringBytes DEF IsEntryName
  <1>2. \A k \in Nat : k < Len(name) => dentry_byte(d, k) # NUL
    BY <1>1, StringBytes DEF IsEntryName, dentry_byte
  <1>3. \E n \in 0 .. NAME_SIZE + 1 : P(n)
    <2>1. CASE Len(name) < NAME_SIZE
      <3>1. dentry_byte(d, Len(name)) = NUL
        BY <1>1, <2>1, StringBytes DEF IsEntryName, dentry_byte
      <3> QED
        BY <1>1, <1>2, <3>1
    <2>2. CASE Len(name) = NAME_SIZE /\ d.file_type = 0
      <3>1. dentry_byte(d, NAME_SIZE) = NUL
        BY <2>2 DEF dentry_byte
      <3> QED
        BY <1>1, <1>2, <2>2, <3>1
    <2>3. CASE Len(name) = NAME_SIZE /\ d.file_type # 0
      <3>1. dentry_byte(d, NAME_SIZE + 1) = NUL /\ dentry_byte(d, NAME_SIZE) = "type"
        BY <2>3 DEF dentry_byte
      <3>2. dentry_byte(d, NAME_SIZE) # NUL
        BY <3>1 DEF NUL
      <3>3. \A k \in 0 .. NAME_SIZE : dentry_byte(d, k) # NUL
        BY <1>1, <1>2, <2>3, <3>2
      <3> QED
        BY <3>1, <3>3
    <2> QED
      BY <1>1, <2>1, <2>2, <2>3
  <1>4. name_strlen(d) \in 0 .. NAME_SIZE + 1 /\ P(name_strlen(d))
    BY <1>3 DEF name_strlen
  <1>5. name_strlen(d) >= Len(name)
    BY <1>1, <1>2, <1>4
  <1> QED
    BY <1>4, <1>5

\* An entry of the directory in memory has a name, the empty one behind the last.
LEMMA EntryNames ==
  ASSUME NEW dir, IsDirectory(dir), NEW i \in Nat, NAME_SIZE \in Nat
  PROVE  /\ Len(dir) \in Nat
         /\ IsEntryName(dentry(dir, i))
         /\ i < Len(dir) => dentry(dir, i) = dir[i + 1] /\ Len(dir[i + 1].file_name) > 0
         /\ i >= Len(dir) => dentry(dir, i) = Unused
  <1>1. Len(dir) \in Nat
    BY DEF IsDirectory
  <1>2. CASE i < Len(dir)
    <2>1. i + 1 \in 1 .. Len(dir)
      BY <1>1, <1>2
    <2>2. IsString(dir[i + 1].file_name) /\ Len(dir[i + 1].file_name) \in 1 .. NAME_SIZE
      BY <2>1 DEF IsDirectory
    <2> QED
      BY <1>1, <1>2, <2>2 DEF dentry, IsEntryName
  <1>3. CASE i >= Len(dir)
    <2>1. dentry(dir, i) = Unused /\ Unused.file_name = <<>>
      BY <1>1, <1>3 DEF dentry, Unused
    <2>2. IsString(<<>>) /\ Len(<<>>) = 0
      BY SMTT(60), EmptySeq DEF IsString
    <2> QED
      BY <1>1, <1>3, <2>1, <2>2 DEF IsEntryName
  <1> QED
    BY <1>1, <1>2, <1>3

\* The first n + 1 values of num_bits.
IsBits(bits, dir, fname, n) ==
    bits = [i \in 0 .. n |->
               LET before == IF i = 0 THEN Min2(Len(fname), NAME_SIZE) ELSE bits[i - 1]
               IN  IF before = NAME_SIZE THEN before
                   ELSE Max2(name_strlen(dentry(dir, i)), before)]

\* The equation that defines num_bits has a solution.
LEMMA NumBits ==
  ASSUME NEW dir, NEW fname, NUM_DENTRIES \in Nat \ {0}
  PROVE  IsBits(num_bits(dir, fname), dir, fname, NUM_DENTRIES - 1)
  <1> DEFINE Bits(before, i) == IF before = NAME_SIZE THEN before
                                ELSE Max2(name_strlen(dentry(dir, i)), before)
             T == {n \in Nat : \E bits : IsBits(bits, dir, fname, n)}
  <1>1. 0 \in T
    <2> DEFINE f == [i \in 0 .. 0 |-> Bits(Min2(Len(fname), NAME_SIZE), 0)]
    <2>1. IsBits(f, dir, fname, 0)
      BY DEF IsBits
    <2> QED
      BY <2>1
  <1>2. ASSUME NEW n \in T PROVE n + 1 \in T
    <2>1. PICK f : IsBits(f, dir, fname, n)
      BY <1>2
    <2> DEFINE g == [i \in 0 .. n + 1 |-> IF i <= n THEN f[i] ELSE Bits(f[n], n + 1)]
    <2>2. IsBits(g, dir, fname, n + 1)
      BY SMTT(60), <2>1 DEF IsBits
    <2> QED
      BY <2>2
  <1>3. T = Nat
    <2> HIDE DEF T
    <2>1. T \in SUBSET Nat
      BY DEF T
    <2> QED
      BY <1>1, <1>2, <2>1, InductionStep
  <1>4. NUM_DENTRIES - 1 \in T
    BY <1>3
  <1>5. \E bits : IsBits(bits, dir, fname, NUM_DENTRIES - 1)
    BY <1>4
  <1> QED
    BY <1>5 DEF IsBits, num_bits

\* What the loop compares: the whole field for a name that fills it; otherwise
\* at least the name asked for, and the name of the entry or the whole field.
LEMMA NumBitsBound ==
  ASSUME NEW dir, NEW fname, IsDirectory(dir), IsString(fname),
         NUM_DENTRIES \in Nat \ {0}, NAME_SIZE \in Nat \ {0},
         NEW i \in 0 .. NUM_DENTRIES - 1
  PROVE  LET bits == num_bits(dir, fname)
         IN  /\ bits[i] \in Nat
             /\ Len(fname) >= NAME_SIZE => bits[i] = NAME_SIZE
             /\ Len(fname) < NAME_SIZE => bits[i] >= Len(fname)
             /\ bits[i] = NAME_SIZE \/ bits[i] >= name_strlen(dentry(dir, i))
  <1> DEFINE bits == num_bits(dir, fname)
             P(j) == /\ bits[j] \in Nat
                     /\ Len(fname) >= NAME_SIZE => bits[j] = NAME_SIZE
                     /\ Len(fname) < NAME_SIZE => bits[j] >= Len(fname)
                     /\ bits[j] = NAME_SIZE \/ bits[j] >= name_strlen(dentry(dir, j))
             T == {j \in Nat : j < NUM_DENTRIES => P(j)}
  <1>1. IsBits(bits, dir, fname, NUM_DENTRIES - 1)
    BY NumBits
  <1>2. Len(fname) \in Nat
    BY StringBytes
  <1>3. \A j \in Nat : name_strlen(dentry(dir, j)) \in Nat
    BY EntryNames, NameStrlen
  <1> DEFINE Bits(before, j) == IF before = NAME_SIZE THEN before
                                ELSE Max2(name_strlen(dentry(dir, j)), before)
  <1>4. bits[0] = Bits(Min2(Len(fname), NAME_SIZE), 0)
    BY <1>1 DEF IsBits
  <1>5. \A j \in Nat : j + 1 < NUM_DENTRIES => bits[j + 1] = Bits(bits[j], j + 1)
    BY <1>1 DEF IsBits
  <1> HIDE DEF bits
  <1>6. 0 \in T
    <2>1. name_strlen(dentry(dir, 0)) \in Nat
      BY <1>3
    <2>2. P(0)
      BY <1>2, <1>4, <2>1 DEF Min2, Max2
    <2> QED
      BY <2>2
  <1>7. ASSUME NEW j \in T PROVE j + 1 \in T
    <2> SUFFICES ASSUME j + 1 < NUM_DENTRIES PROVE P(j + 1)
      OBVIOUS
    <2>1. j \in Nat /\ j < NUM_DENTRIES
      OBVIOUS
    <2>2. P(j)
      BY <1>7, <2>1
    <2>3. name_strlen(dentry(dir, j + 1)) \in Nat
      <3>1. j + 1 \in Nat
        BY <2>1
      <3> QED
        BY ONLY <1>3, <3>1
    <2>4. bits[j + 1] = Bits(bits[j], j + 1)
      BY <1>5, <2>1
    <2> QED
      BY <1>2, <2>2, <2>3, <2>4 DEF Max2
  <1>8. T = Nat
    <2> HIDE DEF T
    <2>1. T \in SUBSET Nat
      BY DEF T
    <2> QED
      BY <1>6, <1>7, <2>1, InductionStep
  <1>9. P(i)
    BY <1>8
  <1> QED
    BY <1>9 DEF bits

\* strncmp as the loop calls it tells two names apart exactly when they differ.
LEMMA SameName ==
  ASSUME NEW d, NEW fname, NEW n \in Nat, IsEntryName(d), IsString(fname),
         NAME_SIZE \in Nat \ {0}, Len(fname) > 0, 
         Len(fname) >= NAME_SIZE => n = NAME_SIZE,
         Len(fname) < NAME_SIZE => n >= Len(fname),
         n = NAME_SIZE \/ n >= name_strlen(d)
  PROVE  strncmp_equal(fname, d, n) <=>
            d.file_name = SubSeq(fname, 1, Min2(Len(fname), NAME_SIZE))
  <1> DEFINE name == d.file_name
             m    == Min2(Len(fname), NAME_SIZE)
             cut  == SubSeq(fname, 1, m)
  <1>1. /\ Len(name) \in Nat /\ Len(name) <= NAME_SIZE
        /\ \A k \in Nat : k < Len(name) => dentry_byte(d, k) = name[k + 1] /\ name[k + 1] # NUL
        /\ \A k \in Nat : Len(name) <= k /\ k < NAME_SIZE => dentry_byte(d, k) = NUL
    BY StringBytes DEF IsEntryName, dentry_byte
  <1>2. /\ Len(fname) \in Nat
        /\ \A k \in Nat : k < Len(fname) => string_byte(fname, k) = fname[k + 1]
                                            /\ fname[k + 1] # NUL
        /\ \A k \in Nat : k >= Len(fname) => string_byte(fname, k) = NUL
    BY StringBytes
  <1>3. m \in Nat /\ m <= Len(fname) /\ m <= NAME_SIZE /\ m > 0 /\ (m = Len(fname) \/ m = NAME_SIZE)
    BY <1>2 DEF Min2
  <1>4. n >= m
    BY <1>2, <1>3
  <1>5. name_strlen(d) >= Len(name) /\ name_strlen(d) \in Nat
    BY NameStrlen
  <1> HIDE DEF m
  <1>6. Len(cut) = m /\ \A k \in 1 .. m : cut[k] = fname[k]
    BY <1>2, <1>3 DEF IsString
  <1>7. cut \in Seq({fname[k] : k \in DOMAIN fname}) /\ name \in Seq({name[k] : k \in DOMAIN name})
    BY <1>2, <1>3 DEF IsString, IsEntryName
  <1>8. ASSUME strncmp_equal(fname, d, n) PROVE name = cut
    <2>1. ASSUME NEW k \in Nat, k < m
          PROVE  k < Len(name) /\ fname[k + 1] = name[k + 1]
      <3>1. string_byte(fname, k) = fname[k + 1] /\ fname[k + 1] # NUL
            /\ \A j \in 0 .. k - 1 : string_byte(fname, j) # NUL
        BY SMTT(60), <1>2, <1>3, <2>1
      <3>2. string_byte(fname, k) = dentry_byte(d, k)
        BY <1>4, <1>8, <1>3, <2>1, <3>1 DEF strncmp_equal
      <3> QED
        BY <1>1, <1>3, <2>1, <3>1, <3>2
    <2>2. Len(name) >= m
      <3>1. m - 1 \in Nat /\ m - 1 < m
        BY <1>3
      <3> QED
        BY <2>1, <3>1, <1>1, <1>3
    <2>3. ASSUME Len(name) > m PROVE FALSE
      <3>1. m = Len(fname) /\ m < NAME_SIZE
        BY <1>1, <1>2, <1>3, <2>3
      <3>2. m < n
        BY <1>1, <1>3, <1>5, <2>3
      <3>3. string_byte(fname, m) = NUL /\ dentry_byte(d, m) # NUL
        BY <1>1, <1>2, <1>3, <2>3, <3>1
      <3>4. \A j \in 0 .. m - 1 : string_byte(fname, j) # NUL
        BY <1>2, <1>3
      <3>5. m \in 0 .. n - 1
        BY <1>3, <3>2
      <3> QED
        BY <1>8, <3>3, <3>4, <3>5 DEF strncmp_equal
    <2>4. Len(name) = m
      BY <1>1, <1>3, <2>2, <2>3
    <2>5. \A k \in 1 .. m : name[k] = fname[k]
      <3>1. ASSUME NEW k \in 1 .. m PROVE name[k] = fname[k]
        <4>1. k - 1 \in Nat /\ k - 1 < m /\ (k - 1) + 1 = k
          BY <1>3
        <4> QED
          BY <2>1, <4>1
      <3> QED
        BY <3>1
    <2> QED
      BY <1>6, <1>7, <2>4, <2>5, SeqEqual
  <1>9. ASSUME name = cut PROVE strncmp_equal(fname, d, n)
    <2>1. Len(name) = m /\ \A k \in 1 .. m : name[k] = fname[k]
      BY <1>6, <1>9
    <2>2. ASSUME NEW k \in 0 .. n - 1, k < m PROVE string_byte(fname, k) = dentry_byte(d, k)
      BY <1>1, <1>2, <1>3, <2>1, <2>2
    <2>3. ASSUME NEW k \in 0 .. n - 1, k >= m
          PROVE  \/ string_byte(fname, k) = dentry_byte(d, k)
                 \/ \E j \in 0 .. k - 1 : string_byte(fname, j) = NUL /\ dentry_byte(d, j) = NUL
      <3>1. m = Len(fname) /\ m < NAME_SIZE
        BY <1>2, <1>3, <2>3
      <3>2. string_byte(fname, m) = NUL /\ dentry_byte(d, m) = NUL
        BY <1>1, <1>2, <1>3, <2>1, <3>1
      <3> QED
        BY <1>3, <2>3, <3>2
    <2> QED
      BY <1>3, <2>2, <2>3 DEF strncmp_equal
  <1> QED
    BY <1>8, <1>9 DEF m

\* read_dentry_by_name finds the first entry with exactly the name asked for.
LEMMA LookupExact ==
  ASSUME NEW dir, NEW fname, IsDirectory(dir), IsString(fname)
  PROVE  read_dentry_by_name(dir, fname) = EntryNamed(dir, fname)
  <1> DEFINE bits  == num_bits(dir, fname)
             cut   == SubSeq(fname, 1, Min2(Len(fname), NAME_SIZE))
             hits  == {i \in 0 .. NUM_DENTRIES - 1 : strncmp_equal(fname, dentry(dir, i), bits[i])}
             named == {i \in 0 .. Len(dir) - 1 : dir[i + 1].file_name = cut}
  <1>1. NAME_SIZE \in Nat \ {0} /\ NUM_DENTRIES \in Nat \ {0}
    BY ImageAssumption
  <1>2. Len(dir) \in Nat /\ Len(dir) <= NUM_DENTRIES /\ Len(fname) \in Nat
    BY StringBytes DEF IsDirectory
  <1>3. CASE fname = <<>>
    <2>1. Len(fname) = 0 /\ Min2(Len(fname), NAME_SIZE) = 0
      BY <1>1, <1>3 DEF Min2
    <2>2. cut = <<>>
      BY <1>3, <2>1, SubSeqEmpty
    <2> HIDE DEF cut
    <2>3. ASSUME NEW i \in 0 .. Len(dir) - 1 PROVE dir[i + 1].file_name # cut
      <3>1. i \in Nat /\ i < Len(dir)
        BY <1>2
      <3>2. Len(dir[i + 1].file_name) > 0
        BY <1>1, <3>1, EntryNames
      <3> QED
        BY <2>2, <3>2
    <2>4. named = {}
      BY <2>3
    <2> QED
      BY <1>3, <2>4 DEF read_dentry_by_name, EntryNamed, cut
  <1>4. CASE fname # <<>>
    <2>1. Len(fname) > 0
      BY <1>2, <1>4, EmptySeq DEF IsString
    <2>2. ASSUME NEW i \in 0 .. NUM_DENTRIES - 1
          PROVE  i \in hits <=> dentry(dir, i).file_name = cut
      <3>1. i \in Nat
        BY <1>1
      <3>2. IsEntryName(dentry(dir, i))
        BY <1>1, <3>1, EntryNames
      <3>3. /\ bits[i] \in Nat
            /\ Len(fname) >= NAME_SIZE => bits[i] = NAME_SIZE
            /\ Len(fname) < NAME_SIZE => bits[i] >= Len(fname)
            /\ bits[i] = NAME_SIZE \/ bits[i] >= name_strlen(dentry(dir, i))
        BY <1>1, NumBitsBound
      <3> HIDE DEF bits
      <3>4. strncmp_equal(fname, dentry(dir, i), bits[i]) <=> dentry(dir, i).file_name = cut
        BY ONLY <1>1, <2>1, <3>2, <3>3, SameName, IsString(fname)
      <3> QED
        BY <3>4
    <2>3. Len(cut) > 0
      BY <1>1, <1>2, <2>1 DEF Min2, IsString
    <2> HIDE DEF hits, cut
    <2>4. ASSUME NEW i \in Nat PROVE i \in hits <=> i \in named
      <3>1. CASE i < Len(dir)
        <4>1. i \in 0 .. NUM_DENTRIES - 1 /\ i \in 0 .. Len(dir) - 1
          BY <1>1, <1>2, <3>1
        <4>2. dentry(dir, i) = dir[i + 1]
          BY <1>1, <3>1, EntryNames
        <4> QED
          BY <2>2, <4>1, <4>2
      <3>2. CASE i >= Len(dir)
        <4>1. i \notin named
          BY <1>2, <3>2
        <4>2. dentry(dir, i).file_name = <<>>
          BY <1>1, <3>2, EntryNames DEF Unused
        <4>3. i \notin hits
          BY <2>2, <2>3, <4>2 DEF hits
        <4> QED
          BY <4>1, <4>3
      <3> QED
        BY <1>2, <3>1, <3>2
    <2>5. hits \subseteq Nat /\ named \subseteq Nat
      BY <1>1, <1>2 DEF hits
    <2>6. hits = named
      BY <2>4, <2>5
    <2> DEFINE First(S) == IF S = {} THEN None ELSE CHOOSE i \in S : \A j \in S : i <= j
    <2>7. read_dentry_by_name(dir, fname) = First(hits)
      <3>1. read_dentry_by_name(dir, fname) = IF fname = <<>> \/ hits = {} THEN None
                                              ELSE CHOOSE i \in hits : \A j \in hits : i <= j
        BY DEF hits, read_dentry_by_name
      <3> QED
        BY <1>4, <3>1
    <2>8. EntryNamed(dir, fname) = First(named)
      BY Zenon DEF cut, EntryNamed
    <2> HIDE DEF named, First
    <2> QED
      BY <2>6, <2>7, <2>8
  <1> QED
    BY <1>3, <1>4

\* read_dentry_by_name is exact in every directory and for every name: no prefix
\* matches, and a name that fills its field is found.
THEOREM LookupCorrect == Spec => []LookupFindsName
  <1>1. LookupFindsName
    BY LookupExact, FilesAssumption DEF LookupFindsName
  <1> QED
    BY <1>1, PTL

-----------------------------------------------------------------------------
(* The descriptors.                                                        *)

\* A sum that does not wrap is its own remainder.
LEMMA ModSmall ==
  ASSUME NEW w \in Nat \ {0}, NEW x \in 0 .. w - 1
  PROVE  x % w = x
  OBVIOUS

\* A remainder lies below the modulus.
LEMMA ModRange ==
  ASSUME NEW w \in Nat \ {0}, NEW x \in Int
  PROVE  x % w \in 0 .. w - 1
  OBVIOUS

\* The bytes up to any place of a string are a string.
LEMMA PrefixIsString ==
  ASSUME NEW s, IsString(s), NEW n \in Nat, n <= Len(s)
  PROVE  IsString(SubSeq(s, 1, n))
  <1> DEFINE t == SubSeq(s, 1, n)
  <1>1. /\ Len(s) \in Nat
        /\ \A k \in Nat : k < Len(s) => s[k + 1] # NUL
    BY StringBytes
  <1>2. t \in Seq({s[k] : k \in DOMAIN s}) /\ Len(t) = n /\ \A k \in 1 .. n : t[k] = s[k]
    BY <1>1 DEF IsString
  <1>3. \A k \in 1 .. n : t[k] # NUL
    <2>1. ASSUME NEW k \in 1 .. n PROVE s[k] # NUL
      <3>1. k - 1 \in Nat /\ k - 1 < Len(s) /\ (k - 1) + 1 = k
        BY <1>1
      <3> QED
        BY <1>1, <3>1
    <2> QED
      BY <1>2, <2>1
  <1> HIDE DEF t
  <1>4. DOMAIN t = 1 .. n
    BY <1>2
  <1>5. t = [k \in 1 .. n |-> t[k]]
    BY <1>2
  <1>6. t \in Seq({t[k] : k \in DOMAIN t} \ {NUL})
    BY <1>3, <1>4, <1>5
  <1> QED
    BY <1>6 DEF IsString, t

\* The first loop of execute always stops.
LEMMA NameEnd ==
  ASSUME NEW c, IsString(c)
  PROVE  /\ name_end(c) \in 0 .. NAME_SIZE
         /\ name_end(c) = NAME_SIZE \/ string_byte(c, name_end(c)) = Blank
         /\ \A j \in 0 .. name_end(c) - 1 : string_byte(c, j) # Blank
  <1> DEFINE T == {i \in 0 .. NAME_SIZE : i = NAME_SIZE \/ string_byte(c, i) = Blank}
  <1>1. NAME_SIZE \in Nat
    BY ImageAssumption
  <1>2. T \in SUBSET Nat /\ NAME_SIZE \in T
    BY <1>1
  <1>3. PICK i \in T : \A j \in T : i <= j
    <2> HIDE DEF T
    <2> QED
      BY <1>2, LeastMember
  <1>4. \A j \in 0 .. i - 1 : string_byte(c, j) # Blank
    BY <1>1, <1>3
  <1>5. i \in 0 .. NAME_SIZE /\ (i = NAME_SIZE \/ string_byte(c, i) = Blank)
    BY <1>3
  <1> QED
    BY <1>4, <1>5 DEF name_end

\* The names that are looked up are strings.
LEMMA LookedUp ==
  ASSUME NEW name \in Names \cup {command_name(c) : c \in Commands}
  PROVE  IsString(name) /\ lookup[name] = read_dentry_by_name(dentries, name)
  <1>1. CASE name \in Names
    BY <1>1, FilesAssumption DEF lookup
  <1>2. CASE \E c \in Commands : name = command_name(c)
    <2>1. PICK c \in Commands : name = command_name(c)
      BY <1>2
    <2>2. IsString(c) /\ Len(c) \in Nat
      BY FilesAssumption, StringBytes
    <2>3. Min2(name_end(c), Len(c)) \in Nat /\ Min2(name_end(c), Len(c)) <= Len(c)
      BY <2>2, NameEnd, ImageAssumption DEF Min2
    <2>4. IsString(name)
      BY <2>1, <2>2, <2>3, PrefixIsString DEF command_name
    <2> QED
      BY <2>4 DEF lookup
  <1> QED
    BY <1>1, <1>2

\* A lookup gives an entry of the directory or None.
LEMMA LookupResult ==
  ASSUME NEW name \in Names \cup {command_name(c) : c \in Commands}, lookup[name] # None
  PROVE  /\ lookup[name] \in 0 .. Len(dentries) - 1
         /\ dentry(dentries, lookup[name]) = dentries[lookup[name] + 1]
         /\ dentry(dentries, lookup[name]).inode_num \in DOMAIN inodes
         /\ dentry(dentries, lookup[name]).file_type \in {RTC_TYPE, DIR_TYPE, FILE_TYPE}
  <1> DEFINE cut  == SubSeq(name, 1, Min2(Len(name), NAME_SIZE))
             hits == {i \in 0 .. Len(dentries) - 1 : dentries[i + 1].file_name = cut}
             i    == lookup[name]
  <1>1. IsDirectory(dentries) /\ Len(dentries) \in Nat
    BY ImageAssumption DEF IsDirectory
  <1>2. i = EntryNamed(dentries, name)
    BY <1>1, LookedUp, LookupExact
  <1>3. i = IF hits = {} THEN None ELSE CHOOSE m \in hits : \A j \in hits : m <= j
    BY <1>2 DEF EntryNamed
  <1>4. hits \in SUBSET Nat
    BY <1>1
  <1> HIDE DEF hits, i
  <1>5. hits # {}
    BY <1>3 DEF i
  <1>6. \E m \in hits : \A j \in hits : m <= j
    BY <1>4, <1>5, LeastMember
  <1>7. i \in hits
    BY <1>3, <1>5, <1>6
  <1>8. i \in 0 .. Len(dentries) - 1 /\ i + 1 \in 1 .. Len(dentries)
    BY <1>1, <1>7 DEF hits
  <1>9. dentry(dentries, i) = dentries[i + 1]
    BY <1>1, <1>8 DEF dentry
  <1> QED
    BY <1>1, <1>8, <1>9, ImageAssumption DEF i, IsDirectory

\* A file read from its first byte with its own length is read whole.
LEMMA LoadWhole ==
  ASSUME NEW ino \in DOMAIN inodes, NEW buf
  PROVE  load_program(ino, buf) = SUCCESS
  <1> DEFINE len == inodes[ino].length
  <1>1. len \in Nat /\ 2 * len < WORD /\ WORD \in Nat \ {0}
    BY ImageAssumption
  <1> HIDE DEF len
  <1>2. (0 + len) % WORD = len
    BY <1>1, ModSmall
  <1>3. num_bytes(0, len, len) = len
    BY <1>1, <1>2 DEF num_bytes
  <1>4. file_read(ino, buf, len, 0).ret = len
    BY <1>1, <1>3 DEF file_read, read_data, len
  <1> QED
    BY <1>4 DEF load_program, len

\* execute never returns -1 with the page of the caller already changed: what
\* passes its checks is loaded, for every directory, image and command.
THEOREM ExecuteWhole == Spec => []ExecuteNotHalfDone
  <1>1. Init => ExecuteNotHalfDone
    BY DEF Init, NoCall, ExecuteNotHalfDone
  <1>2. ASSUME ExecuteNotHalfDone, [Next]_vars PROVE ExecuteNotHalfDone'
    <2>1. ASSUME NEW name \in Names, open(name) PROVE ExecuteNotHalfDone'
      <3>1. reply'.call = <<"open">>
        BY <2>1 DEF open, answer
      <3> QED
        BY <3>1 DEF ExecuteNotHalfDone
    <2>2. ASSUME NEW fd \in Fds, close(fd) PROVE ExecuteNotHalfDone'
      <3>1. reply'.call = <<"close">>
        BY <2>2 DEF close, answer
      <3> QED
        BY <3>1 DEF ExecuteNotHalfDone
    <2>3. ASSUME NEW fd \in Fds, NEW n \in Sizes, read(fd, n) PROVE ExecuteNotHalfDone'
      <3>1. reply'.call = <<"read", fd, n>>
        BY <2>3 DEF read, answer
      <3> QED
        BY <3>1 DEF ExecuteNotHalfDone
    <2>4. ASSUME NEW fd \in Fds, NEW n \in Sizes, write(fd, n) PROVE ExecuteNotHalfDone'
      BY <2>4 DEF write, answer, ExecuteNotHalfDone
    <2>5. ASSUME NEW n \in Sizes \cup {0}, getargs(n) PROVE ExecuteNotHalfDone'
      <3>1. reply'.call = <<"getargs">>
        BY <2>5 DEF getargs, answer
      <3> QED
        BY <3>1 DEF ExecuteNotHalfDone
    <2>6. ASSUME NEW c \in Commands, execute(c) PROVE ExecuteNotHalfDone'
      <3> DEFINE i   == lookup[command_name(c)]
                 ino == dentry(dentries, i).inode_num
      <3>1. i # None => ino \in DOMAIN inodes
        BY LookupResult
      <3>2. \A buf : is_program(i, buf) => load_program(ino, buf) = SUCCESS
        BY <3>1, LoadWhole DEF is_program
      <3>3. \E r : reply' = [call |-> <<"execute">>, ret |-> r, data |-> <<>>]
        BY <2>6, <3>2, Zenon DEF execute, answer
      <3>4. reply'.call = <<"execute">>
        BY <3>3
      <3> QED
        BY <3>4 DEF ExecuteNotHalfDone
    <2>7. ASSUME halt PROVE ExecuteNotHalfDone'
      <3>1. answer(<<"halt">>, SUCCESS, <<>>) \/ answer(<<"execute">>, SUCCESS, <<>>)
        BY <2>7, Zenon DEF halt
      <3>2. ASSUME answer(<<"halt">>, SUCCESS, <<>>) PROVE ExecuteNotHalfDone'
        BY <3>2 DEF answer, ExecuteNotHalfDone
      <3>3. ASSUME answer(<<"execute">>, SUCCESS, <<>>) PROVE ExecuteNotHalfDone'
        BY <3>3 DEF answer, ExecuteNotHalfDone
      <3> QED
        BY <3>1, <3>2, <3>3
    <2>8. CASE UNCHANGED vars
      BY <1>2, <2>8 DEF vars, ExecuteNotHalfDone
    <2> QED
      BY <1>2, <2>1, <2>2, <2>3, <2>4, <2>5, <2>6, <2>7, <2>8 DEF Next
  <1> QED
    BY <1>1, <1>2, PTL DEF Spec

\* A descriptor.
Slots == [ops : {"stdin", "stdout", "nofunc", "rtc", "dir", "file"},
          inode : {0} \cup DOMAIN inodes,
          file_type : {-1, RTC_TYPE, DIR_TYPE, FILE_TYPE},
          file_position : Nat, flags : {0, 1}]

\* A descriptor in use stands for a file or a directory of the image, at a
\* position inside it.
Placed(s) ==
    s.flags # 0 =>
        /\ s.ops = "file" => /\ s.file_type = FILE_TYPE /\ s.inode \in DOMAIN inodes
                             /\ s.file_position <= inodes[s.inode].length
        /\ s.ops = "dir"  => s.file_type = DIR_TYPE /\ s.file_position <= Len(dentries)
        /\ s.ops = "rtc"  => s.file_type = RTC_TYPE

\* The invariant of the descriptor table.
SlotPart == file_array \in [Fds -> Slots] /\ \A fd \in Fds : Placed(file_array[fd])

\* What a read of a file returns is a number, and the position it leaves lies in
\* the file: the sum of position and size may wrap, its end may not lie behind.
LEMMA FileAdvance ==
  ASSUME NEW ino \in DOMAIN inodes, NEW buf, NEW n \in Nat, NEW pos \in Nat,
         pos <= inodes[ino].length
  PROVE  /\ file_read(ino, buf, n, pos).ret \in Int
         /\ uint32(pos + file_read(ino, buf, n, pos).ret) \in 0 .. inodes[ino].length
  <1> DEFINE len == inodes[ino].length
             m   == num_bytes(pos, n, len)
  <1>1. len \in Nat /\ 2 * len < WORD /\ WORD \in Nat \ {0}
    BY ImageAssumption
  <1>2. file_read(ino, buf, n, pos).ret = m
    BY <1>1 DEF file_read, read_data
  <1> HIDE DEF len
  <1>3. CASE (pos + n) % WORD > len
    <2>1. m = len - pos
      BY <1>3 DEF num_bytes
    <2>2. uint32(pos + m) = len
      BY <1>1, <2>1, ModSmall DEF uint32
    <2> QED
      BY <1>1, <1>2, <2>1, <2>2 DEF len
  <1>4. CASE ~ ((pos + n) % WORD > len)
    <2>1. m = n
      BY <1>4 DEF num_bytes
    <2>2. (pos + n) % WORD \in 0 .. WORD - 1
      BY <1>1, ModRange
    <2> QED
      BY <1>1, <1>2, <1>4, <2>1, <2>2 DEF len, uint32
  <1> QED
    BY <1>3, <1>4

\* The name of an entry behind the last one has no bytes.
LEMMA UnusedName == name_strlen(Unused) = 0
  <1>1. NAME_SIZE \in Nat \ {0}
    BY ImageAssumption
  <1>2. IsString(<<>>) /\ Len(<<>>) = 0
    BY EmptySeq DEF IsString
  <1>3. IsEntryName(Unused) /\ dentry_byte(Unused, 0) = NUL
    BY <1>1, <1>2 DEF IsEntryName, Unused, dentry_byte, string_byte
  <1> QED
    BY <1>1, <1>3, NameStrlen

\* What a read of the directory returns is a number; it is positive only for an
\* entry of the directory.
LEMMA DirAdvance ==
  ASSUME NEW buf, NEW n \in Nat, NEW pos \in Nat
  PROVE  /\ dir_read(buf, n, pos).ret \in Int
         /\ int32(dir_read(buf, n, pos).ret) > 0 => pos < Len(dentries)
  <1> DEFINE d == read_dentry_by_index(pos)
             r == dir_read(buf, n, pos).ret
  <1>1. /\ NAME_SIZE \in Nat \ {0} /\ NUM_DENTRIES \in Nat /\ WORD \in Nat \ {0}
        /\ IsDirectory(dentries) /\ Len(dentries) \in Nat
    BY ImageAssumption DEF IsDirectory
  <1>2. CASE d = None
    <2>1. r = WORD - 1
      BY <1>2 DEF dir_read, FAILURE
    <2> QED
      BY <1>1, <2>1 DEF int32
  <1>3. CASE d # None
    <2>1. d = dentry(dentries, pos)
      BY <1>1, <1>3 DEF read_dentry_by_index
    <2>2. r = Min2(n, name_strlen(d))
      BY <1>3 DEF dir_read
    <2>3. IsEntryName(d) /\ (pos >= Len(dentries) => d = Unused)
      BY <1>1, <2>1, EntryNames
    <2>4. name_strlen(d) \in Nat /\ (pos >= Len(dentries) => name_strlen(d) = 0)
      BY <1>1, <2>3, NameStrlen, UnusedName
    <2>5. r \in Nat /\ (pos >= Len(dentries) => r = 0)
      BY <2>2, <2>4 DEF Min2
    <2> HIDE DEF r
    <2>6. r = 0 => ~ (int32(r) > 0)
      BY <1>1 DEF int32
    <2> QED
      BY <1>1, <2>5, <2>6 DEF r
  <1> QED
    BY <1>2, <1>3

\* A read leaves a descriptor in the image.
LEMMA ReadPlaced ==
  ASSUME NEW s \in Slots, Placed(s), NEW buf, NEW n \in Nat
  PROVE  LET t == [s EXCEPT !.file_position = advance(s, read_result(s, buf, n).ret)]
         IN  t \in Slots /\ Placed(t)
  <1> DEFINE r == read_result(s, buf, n).ret
             p == advance(s, r)
             t == [s EXCEPT !.file_position = p]
  <1>1. WORD \in Nat \ {0} /\ Len(dentries) \in Nat
    BY ImageAssumption DEF IsDirectory
  <1>2. s.file_position \in Nat
    BY DEF Slots
  <1>3. r \in Int
    <2>1. CASE s.ops = "file"
      <3>1. r = file_read(s.inode, buf, n, s.file_position).ret
        BY <2>1 DEF read_result
      <3>2. CASE s.inode \in DOMAIN inodes /\ s.file_position <= inodes[s.inode].length
        BY <1>2, <3>1, <3>2, FileAdvance
      <3>3. CASE ~ (s.inode \in DOMAIN inodes /\ s.file_position <= inodes[s.inode].length)
        <4>1. s.inode \in DOMAIN inodes => inodes[s.inode].length \in Nat
          BY ImageAssumption
        <4>2. r = WORD - 1
          BY <1>2, <3>1, <3>3, <4>1 DEF file_read, read_data, FAILURE
        <4> QED
          BY <1>1, <4>2
      <3> QED
        BY <3>2, <3>3
    <2>2. CASE s.ops = "dir"
      BY <1>2, <2>2, DirAdvance DEF read_result
    <2>3. CASE s.ops \notin {"file", "dir"}
      BY <1>1, <2>3 DEF read_result, FAILURE
    <2> QED
      BY <2>1, <2>2, <2>3
  <1> HIDE DEF r
  <1>4. p \in Nat
    <2>1. uint32(s.file_position + r) \in Nat
      <3>1. s.file_position + r \in Int
        BY <1>2, <1>3
      <3>2. uint32(s.file_position + r) \in 0 .. WORD - 1
        BY <1>1, <3>1, ModRange DEF uint32
      <3> QED
        BY <1>1, <3>2
    <2>2. s.file_position + 0 \in Nat /\ s.file_position + 1 \in Nat
      BY <1>2
    <2> QED
      BY <2>1, <2>2 DEF advance
  <1>5. s.flags # 0 /\ s.ops = "file" => p <= inodes[s.inode].length
    <2> SUFFICES ASSUME s.flags # 0, s.ops = "file" PROVE p <= inodes[s.inode].length
      OBVIOUS
    <2>1. s.file_type = FILE_TYPE /\ s.inode \in DOMAIN inodes
          /\ s.file_position <= inodes[s.inode].length
      BY DEF Placed
    <2>2. r = file_read(s.inode, buf, n, s.file_position).ret
      BY DEF r, read_result
    <2>3. p = uint32(s.file_position + r)
      BY <2>1 DEF advance, FILE_TYPE, DIR_TYPE
    <2>4. uint32(s.file_position + r) \in 0 .. inodes[s.inode].length
      BY <1>2, <2>1, <2>2, FileAdvance
    <2>5. inodes[s.inode].length \in Nat
      BY <2>1, ImageAssumption
    <2> QED
      BY <2>3, <2>4, <2>5
  <1>6. s.flags # 0 /\ s.ops = "dir" => p <= Len(dentries)
    <2> SUFFICES ASSUME s.flags # 0, s.ops = "dir" PROVE p <= Len(dentries)
      OBVIOUS
    <2>1. s.file_type = DIR_TYPE /\ s.file_position <= Len(dentries)
      BY DEF Placed
    <2>2. r = dir_read(buf, n, s.file_position).ret
      BY DEF r, read_result
    <2>3. int32(r) > 0 => s.file_position < Len(dentries)
      BY <1>2, <2>2, DirAdvance
    <2>4. p = s.file_position + (IF int32(r) > 0 THEN 1 ELSE 0)
      BY <2>1 DEF advance
    <2> QED
      BY <1>1, <1>2, <2>1, <2>3, <2>4
  <1> HIDE DEF p
  <1>7. t \in Slots
    BY <1>4 DEF Slots
  <1>8. /\ t.ops = s.ops /\ t.inode = s.inode /\ t.file_type = s.file_type
        /\ t.file_position = p /\ t.flags = s.flags
    BY DEF Slots
  <1> HIDE DEF t
  <1>9. Placed(t)
    BY <1>5, <1>6, <1>8 DEF Placed
  <1> QED
    BY <1>7, <1>9 DEF t, p, r

\* The invariant holds for the descriptors that boot leaves.
LEMMA SlotInit == Init => SlotPart
  <1> SUFFICES ASSUME Init PROVE SlotPart
    OBVIOUS
  <1>1. PICK used \in {0, 1} : file_array = [fd \in Fds |-> first_descriptor(fd, used)]
    BY DEF Init
  <1>2. ASSUME NEW fd \in Fds
        PROVE  first_descriptor(fd, used) \in Slots /\ Placed(first_descriptor(fd, used))
    BY DEF first_descriptor, first_table, Slots, Placed
  <1> QED
    BY <1>1, <1>2 DEF SlotPart

\* close and halt leave a descriptor that is not in use.
LEMMA ClosedSlot ==
  ASSUME NEW s \in Slots
  PROVE  closed_slot(s) \in Slots /\ Placed(closed_slot(s))
  BY DEF closed_slot, Slots, Placed

\* Every call keeps the descriptors in the image.
LEMMA SlotStep ==
  ASSUME SlotPart, [Next]_vars
  PROVE  SlotPart'
  <1>1. ASSUME NEW fd \in Fds, NEW s \in Slots, Placed(s),
               \/ file_array' = [file_array EXCEPT ![fd] = s]
               \/ UNCHANGED file_array
        PROVE  SlotPart'
    BY <1>1 DEF SlotPart
  <1>2. ASSUME UNCHANGED file_array PROVE SlotPart'
    BY <1>2 DEF SlotPart
  <1>3. ASSUME NEW name \in Names, open(name) PROVE SlotPart'
    <2> DEFINE i      == lookup[name]
               d      == dentry(dentries, i)
               unused == {fd \in Fds : ~ Used(fd)}
               fd     == free_fd(unused)
               s      == [ops |-> file_table(d.file_type), inode |-> d.inode_num,
                          file_type |-> d.file_type, file_position |-> 0, flags |-> 1]
    <2>1. CASE i = None \/ unused = {}
      BY <1>2, <1>3, <2>1 DEF open
    <2>2. CASE ~ (i = None \/ unused = {})
      <3>1. file_array' = [file_array EXCEPT ![fd] = s]
        BY <1>3, <2>2 DEF open
      <3>2. fd \in Fds
        <4>1. unused \in SUBSET Nat /\ unused # {}
          BY <2>2 DEF Fds
        <4> HIDE DEF unused
        <4>2. \E m \in unused : \A j \in unused : m <= j
          BY <4>1, LeastMember
        <4>3. fd \in unused
          BY <4>2 DEF free_fd
        <4> QED
          BY <4>3 DEF unused
      <3>3. d.inode_num \in DOMAIN inodes /\ d.file_type \in {RTC_TYPE, DIR_TYPE, FILE_TYPE}
        BY <2>2, LookupResult
      <3>4. inodes[d.inode_num].length >= 0 /\ Len(dentries) >= 0
        BY <3>3, ImageAssumption DEF IsDirectory
      <3> HIDE DEF d, fd
      <3>5. s \in Slots
        BY <3>3 DEF Slots, file_table
      <3>6. Placed(s)
        BY <3>3, <3>4 DEF Placed, file_table, RTC_TYPE, DIR_TYPE, FILE_TYPE
      <3> QED
        BY <1>1, <3>1, <3>2, <3>5, <3>6
    <2> QED
      BY <2>1, <2>2
  <1>4. ASSUME NEW fd \in Fds, close(fd) PROVE SlotPart'
    <2>1. file_array[fd] \in Slots
      BY DEF SlotPart
    <2>2. closed_slot(file_array[fd]) \in Slots /\ Placed(closed_slot(file_array[fd]))
      BY <2>1, ClosedSlot
    <2>3. \/ file_array' = [file_array EXCEPT ![fd] = closed_slot(file_array[fd])]
          \/ UNCHANGED file_array
      BY <1>4 DEF close
    <2> QED
      BY <1>1, <2>2, <2>3
  <1>5. ASSUME NEW fd \in Fds, NEW n \in Sizes, read(fd, n) PROVE SlotPart'
    <2> DEFINE s == file_array[fd]
    <2>1. s \in Slots /\ Placed(s)
      BY DEF SlotPart
    <2>2. PICK buf \in Buffers :
             file_array' = [file_array EXCEPT ![fd].file_position =
                               advance(s, read_result(s, buf, uint32(n)).ret)]
      BY <1>5 DEF read
    <2>3. uint32(n) \in Nat
      <3>1. n \in Int /\ WORD \in Nat \ {0}
        BY ImageAssumption, FilesAssumption
      <3>2. uint32(n) \in 0 .. WORD - 1
        BY <3>1, ModRange DEF uint32
      <3> QED
        BY <3>1, <3>2
    <2> DEFINE t == [s EXCEPT !.file_position = advance(s, read_result(s, buf, uint32(n)).ret)]
    <2>4. t \in Slots /\ Placed(t)
      BY <2>1, <2>3, ReadPlaced
    <2>5. file_array' = [file_array EXCEPT ![fd] = t]
      BY <2>2
    <2> HIDE DEF t
    <2> QED
      BY <1>1, <2>4, <2>5
  <1>6. ASSUME NEW c \in Commands, execute(c) PROVE SlotPart'
    <2> DEFINE first(fd) == first_descriptor(fd, IF fd < STD_FILES THEN 1 ELSE 0)
    <2>1. UNCHANGED file_array \/ file_array' = [fd \in Fds |-> first(fd)]
      BY <1>6 DEF execute
    <2>2. ASSUME NEW fd \in Fds PROVE first(fd) \in Slots /\ Placed(first(fd))
      BY DEF first_descriptor, first_table, Slots, Placed
    <2> HIDE DEF first
    <2>3. ASSUME file_array' = [fd \in Fds |-> first(fd)] PROVE SlotPart'
      BY <2>2, <2>3 DEF SlotPart
    <2> QED
      BY <1>2, <2>1, <2>3
  <1>7. ASSUME halt PROVE SlotPart'
    <2> DEFINE after(fd) == IF \A g \in 0 .. fd : Used(g)
                            THEN closed_slot(file_array[fd]) ELSE file_array[fd]
    <2>1. UNCHANGED file_array \/ file_array' = [fd \in Fds |-> after(fd)]
      BY <1>7 DEF halt
    <2>2. ASSUME NEW fd \in Fds PROVE after(fd) \in Slots /\ Placed(after(fd))
      <3>1. file_array[fd] \in Slots /\ Placed(file_array[fd])
        BY DEF SlotPart
      <3> QED
        BY <3>1, ClosedSlot
    <2> HIDE DEF after
    <2>3. ASSUME file_array' = [fd \in Fds |-> after(fd)] PROVE SlotPart'
      BY <2>2, <2>3 DEF SlotPart
    <2> QED
      BY <1>2, <2>1, <2>3
  <1>8. ASSUME \/ \E fd \in Fds, n \in Sizes : write(fd, n)
               \/ \E n \in Sizes \cup {0} : getargs(n)
               \/ UNCHANGED vars
        PROVE  SlotPart'
    BY <1>2, <1>8 DEF write, getargs, vars
  <1> QED
    BY <1>3, <1>4, <1>5, <1>6, <1>7, <1>8 DEF Next

\* The contents a descriptor in use stands for are as long as the invariant says.
LEMMA SlotContent ==
  ASSUME SlotPart, NEW fd \in Fds, Used(fd)
  PROVE  /\ file_array[fd].ops = "file" =>
                Len(ContentOf(FileAt(fd).file)) = inodes[file_array[fd].inode].length
         /\ file_array[fd].ops = "dir" =>
                Len(ContentOf(FileAt(fd).file)) = Len(dentries)
  <1> DEFINE s == file_array[fd]
             f == <<s.file_type, s.inode>>
  <1>1. s \in Slots /\ Placed(s) /\ s.flags # 0
    BY DEF SlotPart, Used
  <1>2. s.ops \in {"file", "dir"} => FileAt(fd).file = f
    BY DEF FileAt
  <1>3. f # <<"std">> /\ f[1] = s.file_type /\ f[2] = s.inode
    OBVIOUS
  <1> HIDE DEF f
  <1>4. CASE s.ops = "file"
    <2>1. s.file_type = FILE_TYPE /\ s.inode \in DOMAIN inodes
      BY <1>1, <1>4 DEF Placed
    <2>2. KindOf(f) = "bytes"
      BY <1>3, <2>1 DEF KindOf, DIR_TYPE, FILE_TYPE
    <2> DEFINE C(p) == data_blocks[inodes[f[2]].data_block[1 + ((p - 1) \div BLOCK_SIZE)]]
                                  [1 + ((p - 1) % BLOCK_SIZE)]
    <2>3. ContentOf(f) = [p \in 1 .. inodes[f[2]].length |-> C(p)]
      BY <2>2 DEF ContentOf
    <2>4. inodes[f[2]].length \in Nat
      BY <1>3, <2>1, ImageAssumption
    <2> HIDE DEF C
    <2>5. Len(ContentOf(f)) = inodes[f[2]].length
      BY <2>3, <2>4
    <2> QED
      BY <1>2, <1>3, <1>4, <2>5
  <1>5. CASE s.ops = "dir"
    <2>1. s.file_type = DIR_TYPE
      BY <1>1, <1>5 DEF Placed
    <2>2. KindOf(f) = "names"
      BY <1>3, <2>1 DEF KindOf, DIR_TYPE, FILE_TYPE
    <2>3. ContentOf(f) = [i \in 1 .. Len(dentries) |-> dentries[i].file_name]
      BY <2>2 DEF ContentOf
    <2>4. Len(dentries) \in Nat
      BY ImageAssumption DEF IsDirectory
    <2> QED
      BY <1>2, <1>5, <2>3, <2>4
  <1> QED
    BY <1>4, <1>5

\* The position of an open file or directory stays inside it, whatever sizes the
\* program reads with and in whatever order it opens, closes and reads.
THEOREM PositionCorrect == Spec => []PositionInFile
  <1>1. SlotPart => PositionInFile
    <2> SUFFICES ASSUME SlotPart, NEW fd \in Fds, Used(fd), file_array[fd].ops \in {"file", "dir"}
                 PROVE  file_array[fd].file_position \in 0 .. Len(ContentOf(FileAt(fd).file))
      BY DEF PositionInFile
    <2>1. file_array[fd] \in Slots /\ Placed(file_array[fd]) /\ file_array[fd].flags # 0
      BY DEF SlotPart, Used
    <2>2. file_array[fd].file_position \in Nat
      BY <2>1 DEF Slots
    <2>3. CASE file_array[fd].ops = "file"
      <3>1. inodes[file_array[fd].inode].length \in Nat
            /\ file_array[fd].file_position <= inodes[file_array[fd].inode].length
        BY <2>1, <2>3, ImageAssumption DEF Placed
      <3> QED
        BY <2>2, <2>3, <3>1, SlotContent
    <2>4. CASE file_array[fd].ops = "dir"
      <3>1. Len(dentries) \in Nat /\ file_array[fd].file_position <= Len(dentries)
        BY <2>1, <2>4, ImageAssumption DEF Placed, IsDirectory
      <3> QED
        BY <2>2, <2>4, <3>1, SlotContent
    <2> QED
      BY <2>3, <2>4
  <1> QED
    BY <1>1, SlotInit, SlotStep, PTL DEF Spec

-----------------------------------------------------------------------------
(* The arguments of a program.                                             *)

\* The bytes of a string from any place on, and what lies behind them.
LEMMA TailBytes ==
  ASSUME NEW s, IsString(s), NEW m \in Nat \ {0}
  PROVE  LET t == SubSeq(s, m, Len(s))
         IN  /\ t \in Seq({s[k] : k \in DOMAIN s})
             /\ Len(t) \in Nat /\ Len(t) <= Len(s)
             /\ \A k \in Nat : k < Len(t) => string_byte(t, k) = t[k + 1] /\ t[k + 1] # NUL
             /\ \A k \in Nat : k >= Len(t) => string_byte(t, k) = NUL
  <1> DEFINE t == SubSeq(s, m, Len(s))
  <1>1. Len(s) \in Nat /\ \A k \in Nat : k < Len(s) => s[k + 1] # NUL
    BY StringBytes
  <1>2. s \in Seq({s[k] : k \in DOMAIN s})
    BY DEF IsString
  <1>3. CASE m <= Len(s)
    <2>1. /\ t \in Seq({s[k] : k \in DOMAIN s}) /\ Len(t) = Len(s) - m + 1
          /\ \A k \in 1 .. Len(s) - m + 1 : t[k] = s[m + k - 1]
      BY <1>1, <1>2, <1>3
    <2> HIDE DEF t
    <2>2. ASSUME NEW k \in Nat, k < Len(t) PROVE t[k + 1] # NUL
      <3>1. k + 1 \in 1 .. Len(s) - m + 1 /\ m + (k + 1) - 1 = (m + k - 1) + 1
            /\ m + k - 1 \in Nat /\ m + k - 1 < Len(s)
        BY <1>1, <1>3, <2>1, <2>2
      <3> QED
        BY <1>1, <2>1, <3>1
    <2>3. Len(t) \in Nat /\ Len(t) <= Len(s)
      BY <1>1, <1>3, <2>1
    <2>4. \A k \in Nat : k < Len(t) => string_byte(t, k) = t[k + 1] /\ t[k + 1] # NUL
      BY <2>2 DEF string_byte
    <2>5. \A k \in Nat : k >= Len(t) => string_byte(t, k) = NUL
      BY <2>3 DEF string_byte
    <2> QED
      BY <2>1, <2>3, <2>4, <2>5 DEF t
  <1>4. CASE ~ (m <= Len(s))
    <2>1. t = <<>>
      BY <1>1, <1>2, <1>4, SubSeqEmpty
    <2> HIDE DEF t
    <2>2. Len(t) = 0 /\ t \in Seq({s[k] : k \in DOMAIN s})
      BY <2>1, EmptySeq
    <2> QED
      BY <1>1, <2>2 DEF string_byte, t
  <1> QED
    BY <1>3, <1>4

\* The name of every command ends within NAME_SIZE bytes, and a command fits into
\* pcb->args.  execute checks neither: the line a terminal gives has 128 bytes
\* where ARGS_SIZE is 1024, and a longer name is cut, its rest read as arguments.
ShortCommands ==
    \A c \in Commands :
        /\ Len(c) <= ARGS_SIZE
        /\ \E i \in 1 .. NAME_SIZE + 1 : i > Len(c) \/ c[i] = Blank

\* What stands behind the first blank of a command.
RestOf(c) ==
    LET blanks == {i \in 1 .. Len(c) : c[i] = Blank}
    IN  IF blanks = {} THEN <<>>
        ELSE SubSeq(c, 1 + CHOOSE i \in blanks : \A j \in blanks : i <= j, Len(c))

\* execute cuts the arguments off behind the first blank.
LEMMA ArgsBehindBlank ==
  ASSUME ShortCommands, NEW c \in Commands
  PROVE  command_args(c) = RestOf(c)
  <1> DEFINE blanks == {i \in 1 .. Len(c) : c[i] = Blank}
             ne     == name_end(c)
  <1>1. IsString(c) /\ NAME_SIZE \in Nat
    BY FilesAssumption, ImageAssumption
  <1>2. /\ Len(c) \in Nat /\ c \in Seq({c[k] : k \in DOMAIN c})
        /\ \A k \in Nat : k < Len(c) => string_byte(c, k) = c[k + 1]
        /\ \A k \in Nat : k >= Len(c) => string_byte(c, k) = NUL
    BY <1>1, StringBytes DEF IsString
  <1>3. /\ ne \in 0 .. NAME_SIZE
        /\ ne = NAME_SIZE \/ string_byte(c, ne) = Blank
        /\ \A j \in 0 .. ne - 1 : string_byte(c, j) # Blank
    BY <1>1, NameEnd
  <1>4. PICK i \in 1 .. NAME_SIZE + 1 : i > Len(c) \/ c[i] = Blank
    BY DEF ShortCommands
  <1>5. Blank # NUL
    BY DEF Blank, NUL
  <1> HIDE DEF ne
  <1>6. CASE blanks = {}
    <2>1. Len(c) <= NAME_SIZE
      BY SMTT(60), <1>1, <1>2, <1>4, <1>6
    <2>2. ne = NAME_SIZE
      <3> SUFFICES ASSUME string_byte(c, ne) = Blank, ne < Len(c) PROVE FALSE
        BY <1>1, <1>2, <1>3, <1>5
      <3>1. ne + 1 \in blanks
        BY <1>1, <1>2, <1>3
      <3> QED
        BY <1>6, <3>1
    <2>3. command_args(c) = <<>>
      BY <1>1, <1>2, <2>1, <2>2, SubSeqEmpty DEF command_args, ne
    <2> QED
      BY <1>6, <2>3 DEF RestOf
  <1>7. CASE blanks # {}
    <2> DEFINE b == CHOOSE m \in blanks : \A j \in blanks : m <= j
    <2>1. blanks \in SUBSET Nat
      OBVIOUS
    <2>2. b \in blanks /\ \A j \in blanks : b <= j
      <3> HIDE DEF blanks
      <3>1. \E m \in blanks : \A j \in blanks : m <= j
        BY <1>7, <2>1, LeastMember
      <3> QED
        BY <3>1
    <2>3. RestOf(c) = SubSeq(c, 1 + b, Len(c))
      BY <1>7 DEF RestOf
    <2> HIDE DEF b
    <2>4. b \in 1 .. Len(c) /\ c[b] = Blank
      BY <2>2
    <2>5. b - 1 \in Nat /\ b - 1 < Len(c) /\ (b - 1) + 1 = b /\ b - 1 <= NAME_SIZE
      BY <1>1, <1>2, <1>4, <2>2, <2>4
    <2>6. string_byte(c, b - 1) = Blank
      BY <1>2, <2>4, <2>5
    <2>7. ~ (ne > b - 1)
      BY <1>1, <1>3, <2>5, <2>6
    <2>8. ~ (ne < b - 1)
      <3> SUFFICES ASSUME ne < b - 1 PROVE FALSE
        OBVIOUS
      <3>1. ne \in Nat /\ ne < Len(c) /\ ne # NAME_SIZE
        BY <1>1, <1>2, <1>3, <2>5
      <3>2. ne + 1 \in blanks
        BY <1>2, <1>3, <3>1
      <3> QED
        BY <1>2, <2>2, <2>4, <3>1, <3>2
    <2>9. ne + 2 = 1 + b
      BY <1>1, <1>3, <2>5, <2>7, <2>8
    <2> QED
      BY <2>3, <2>9 DEF command_args, ne
  <1> QED
    BY <1>6, <1>7

\* A program's PCB holds the arguments of its command.
ArgsPart ==
    owner = "program" =>
        /\ command \in Commands
        /\ args = [k \in 0 .. ARGS_SIZE - 1 |-> string_byte(command_args(command), k)]

\* What getargs copies out of such a PCB is the arguments.
LEMMA ArgsStored ==
  ASSUME ShortCommands, ArgsPart, owner = "program"
  PROVE  args_string = command_args(command)
  <1> DEFINE a    == command_args(command)
             P(n) == /\ n = ARGS_SIZE \/ args[n] = NUL
                     /\ \A k \in 0 .. n - 1 : args[k] # NUL
  <1>1. /\ command \in Commands
        /\ args = [k \in 0 .. ARGS_SIZE - 1 |-> string_byte(a, k)]
    BY DEF ArgsPart
  <1>2. IsString(command) /\ NAME_SIZE \in Nat /\ ARGS_SIZE \in Nat /\ Len(command) <= ARGS_SIZE
    BY <1>1, FilesAssumption, ImageAssumption DEF ShortCommands
  <1>3. name_end(command) + 2 \in Nat \ {0}
    BY <1>2, NameEnd
  <1>4. /\ a \in Seq({command[k] : k \in DOMAIN command})
        /\ Len(a) \in Nat /\ Len(a) <= Len(command)
        /\ \A k \in Nat : k < Len(a) => string_byte(a, k) = a[k + 1] /\ a[k + 1] # NUL
        /\ \A k \in Nat : k >= Len(a) => string_byte(a, k) = NUL
    BY <1>2, <1>3, TailBytes DEF command_args
  <1>5. Len(command) \in Nat
    BY <1>2, StringBytes
  <1> HIDE DEF a
  <1>6. P(Len(a)) /\ Len(a) \in 0 .. ARGS_SIZE
    BY SMTT(60), <1>1, <1>2, <1>4, <1>5
  <1>7. ASSUME NEW n \in 0 .. ARGS_SIZE, P(n) PROVE n = Len(a)
    <2>1. ~ (n < Len(a))
      BY SMTT(60), <1>1, <1>2, <1>4, <1>5, <1>7
    <2>2. ~ (Len(a) < n)
      BY SMTT(60), <1>1, <1>2, <1>4, <1>7
    <2> QED
      BY <1>2, <1>4, <2>1, <2>2
  <1> DEFINE n == CHOOSE n \in 0 .. ARGS_SIZE : P(n)
  <1>8. n = Len(a)
    <2> HIDE DEF P
    <2> QED
      BY <1>6, <1>7
  <1>9. args_string = [k \in 1 .. n |-> args[k - 1]]
    BY DEF args_string
  <1> HIDE DEF n
  <1>10. ASSUME NEW k \in 1 .. Len(a) PROVE args[k - 1] = a[k]
    <2>1. k - 1 \in Nat /\ k - 1 < Len(a) /\ (k - 1) + 1 = k /\ k - 1 \in 0 .. ARGS_SIZE - 1
      BY <1>2, <1>4, <1>5
    <2> QED
      BY <1>1, <1>4, <2>1
  <1>11. a = [k \in 1 .. Len(a) |-> a[k]]
    BY <1>4
  <1> QED
    BY <1>8, <1>9, <1>10, <1>11 DEF a

\* A program finds in pcb->args what stood behind the first blank of its command,
\* and nothing of the arguments of an earlier owner of the PCB.
THEOREM ArgumentsCorrect ==
  ASSUME ShortCommands
  PROVE  Spec => []ArgumentsAreRest
  <1>1. Init => ArgsPart
    BY FilesAssumption DEF Init, ArgsPart
  <1>2. ASSUME ArgsPart, [Next]_vars PROVE ArgsPart'
    <2>1. ASSUME UNCHANGED <<owner, args, command>> PROVE ArgsPart'
      BY <1>2, <2>1 DEF ArgsPart
    <2>2. ASSUME NEW c \in Commands, execute(c) PROVE ArgsPart'
      <3>1. \/ UNCHANGED <<owner, args, command>>
            \/ command' = c /\ args' = store_args(args, command_args(c))
        BY <2>2 DEF execute
      <3>2. ASSUME command' = c, args' = store_args(args, command_args(c)) PROVE ArgsPart'
        BY <3>2 DEF ArgsPart, store_args
      <3> QED
        BY <2>1, <3>1, <3>2
    <2>3. ASSUME halt PROVE ArgsPart'
      BY <1>2, <2>3 DEF halt, ArgsPart
    <2>4. ASSUME \/ \E name \in Names : open(name)
                 \/ \E fd \in Fds : \/ close(fd)
                                    \/ \E n \in Sizes : read(fd, n) \/ write(fd, n)
                 \/ \E n \in Sizes \cup {0} : getargs(n)
                 \/ UNCHANGED vars
          PROVE  ArgsPart'
      <3>1. UNCHANGED <<owner, args, command>>
        BY <2>4 DEF open, close, read, write, getargs, vars
      <3> QED
        BY <2>1, <3>1
    <2> QED
      BY <1>2, <2>2, <2>3, <2>4 DEF Next
  <1>3. ArgsPart => ArgumentsAreRest
    <2>1. ASSUME ArgsPart, owner = "program" PROVE args_string = RestOf(command)
      <3>1. command \in Commands
        BY <2>1 DEF ArgsPart
      <3> QED
        BY <2>1, <3>1, ArgsStored, ArgsBehindBlank
    <2> QED
      BY <2>1 DEF ArgumentsAreRest, RestOf
  <1> QED
    BY <1>1, <1>2, <1>3, PTL DEF Spec

-----------------------------------------------------------------------------
(* The refinement of OpenFiles.                                            *)

\* The handles of the promise, which is what Promise substitutes for handle.
Handle == [fd \in Fds |-> IF owner # "program" \/ ~ Used(fd) THEN Unopened ELSE FileAt(fd)]

\* And what it substitutes for reply.
Reply == IF owner = "shell" THEN NoCall ELSE reply

\* As long as programs leave their standard descriptors open, these descriptors and
\* no other have the terminal's functions.
StdPart ==
    /\ owner \in {"nobody", "shell", "program"}
    /\ owner = "program" => \A fd \in Fds :
          IF fd < STD_FILES THEN Used(fd) /\ file_array[fd].ops \in {"stdin", "stdout"}
          ELSE Used(fd) => file_array[fd].ops \in {"rtc", "dir", "file"}

\* No step gives a standard descriptor to a file or takes it away.
LEMMA StdStep ==
  ASSUME StdKept, SlotPart, StdPart, [Next]_vars
  PROVE  StdPart'
  <1>1. ASSUME UNCHANGED <<owner, file_array>> PROVE StdPart'
    BY <1>1 DEF StdPart, Used
  <1>2. ASSUME UNCHANGED owner, NEW fd \in Fds, ~ (fd < STD_FILES), NEW t,
               t.flags # 0 => t.ops \in {"rtc", "dir", "file"},
               file_array' = [file_array EXCEPT ![fd] = t]
        PROVE  StdPart'
    <2>1. \A g \in Fds : file_array'[g] = IF g = fd THEN t ELSE file_array[g]
      BY <1>2 DEF SlotPart
    <2> QED
      BY <1>2, <2>1 DEF StdPart, Used
  <1>3. ASSUME NEW name \in Names, open(name) PROVE StdPart'
    <2> DEFINE i      == lookup[name]
               unused == {fd \in Fds : ~ Used(fd)}
               d      == dentry(dentries, i)
               fd     == free_fd(unused)
               t      == [ops |-> file_table(d.file_type), inode |-> d.inode_num,
                          file_type |-> d.file_type, file_position |-> 0, flags |-> 1]
    <2>1. UNCHANGED owner
      BY <1>3 DEF open
    <2>0. CASE owner # "program"
      BY <2>0, <2>1 DEF StdPart
    <2>2. CASE i = None \/ unused = {}
      BY <1>1, <1>3, <2>2 DEF open
    <2>3. CASE owner = "program" /\ ~ (i = None \/ unused = {})
      <3>1. file_array' = [file_array EXCEPT ![fd] = t]
        BY <1>3, <2>3 DEF open
      <3>2. fd \in unused
        <4>1. unused \in SUBSET Nat /\ unused # {}
          BY <2>3 DEF Fds
        <4> HIDE DEF unused
        <4>2. \E m \in unused : \A j \in unused : m <= j
          BY <4>1, LeastMember
        <4> QED
          BY <4>2 DEF free_fd
      <3>3. fd \in Fds /\ ~ (fd < STD_FILES)
        BY <2>3, <3>2 DEF StdPart
      <3>4. t.ops \in {"rtc", "dir", "file"}
        BY DEF file_table
      <3> HIDE DEF t, fd
      <3> QED
        BY <1>2, <2>1, <3>1, <3>3, <3>4
    <2> QED
      BY <2>0, <2>2, <2>3
  <1>4. ASSUME NEW fd \in Fds, close(fd) PROVE StdPart'
    <2>0. CASE owner # "program"
      <3>1. UNCHANGED owner
        BY <1>4 DEF close
      <3> QED
        BY <2>0, <3>1 DEF StdPart
    <2> SUFFICES ASSUME owner = "program" PROVE StdPart'
      BY <2>0
    <2>1. fd >= STD_FILES /\ UNCHANGED owner
      BY <1>4 DEF close
    <2>2. ~ (fd < STD_FILES)
      BY <2>1, FilesAssumption DEF Fds
    <2>3. CASE ~ Used(fd)
      BY <1>1, <1>4, <2>3 DEF close
    <2>4. CASE Used(fd)
      <3> DEFINE t == closed_slot(file_array[fd])
      <3>1. file_array' = [file_array EXCEPT ![fd] = t]
        BY <1>4, <2>4 DEF close
      <3>2. t.flags = 0
        BY DEF closed_slot, SlotPart, Slots
      <3> HIDE DEF t
      <3> QED
        BY <1>2, <2>1, <2>2, <3>1, <3>2
    <2> QED
      BY <2>3, <2>4
  <1>5. ASSUME NEW fd \in Fds, NEW n \in Sizes, read(fd, n) PROVE StdPart'
    <2>1. UNCHANGED owner /\ \E p : file_array' = [file_array EXCEPT ![fd].file_position = p]
      BY <1>5 DEF read
    <2>2. PICK p : file_array' = [file_array EXCEPT ![fd].file_position = p]
      BY <2>1
    <2>3. \A g \in Fds : file_array'[g].ops = file_array[g].ops
                        /\ file_array'[g].flags = file_array[g].flags
      BY <2>2 DEF SlotPart, Slots
    <2> QED
      BY <2>1, <2>3 DEF StdPart, Used
  <1>6. ASSUME \/ \E fd \in Fds, n \in Sizes : write(fd, n)
               \/ \E n \in Sizes \cup {0} : getargs(n)
        PROVE StdPart'
    <2>1. UNCHANGED <<owner, file_array>>
      BY <1>6, Zenon DEF write, getargs
    <2> QED
      BY <1>1, <2>1
  <1>7. ASSUME NEW c \in Commands, execute(c) PROVE StdPart'
    <2> DEFINE started == [fd \in Fds |-> first_descriptor(fd, IF fd < STD_FILES THEN 1 ELSE 0)]
    <2>1. \/ UNCHANGED <<owner, file_array>>
          \/ owner' = "program" /\ file_array' = started
      BY <1>7, Zenon DEF execute
    <2>2. ASSUME owner' = "program", file_array' = started PROVE StdPart'
      <3>1. ASSUME NEW fd \in Fds
            PROVE  IF fd < STD_FILES
                   THEN started[fd].flags # 0 /\ started[fd].ops \in {"stdin", "stdout"}
                   ELSE started[fd].flags = 0
        <4>1. fd \in Nat /\ STD_FILES \in Nat
          BY FilesAssumption DEF Fds
        <4> QED
          BY <4>1 DEF first_descriptor, first_table
      <3> HIDE DEF started
      <3> QED
        BY <2>2, <3>1 DEF StdPart, Used
    <2> QED
      BY <1>1, <2>1, <2>2
  <1>8. CASE halt
    <2>1. owner' = "nobody" \/ UNCHANGED <<owner, file_array>>
      BY <1>8 DEF halt
    <2> QED
      BY <1>1, <2>1 DEF StdPart
  <1>9. CASE UNCHANGED vars
    BY <1>1, <1>9 DEF vars
  <1> QED
    BY <1>3, <1>4, <1>5, <1>6, <1>7, <1>8, <1>9 DEF Next

\* Before the first execute nothing is open.
LEMMA PromiseInit == Init => StdPart /\ Promise!Init
  <1> SUFFICES ASSUME Init PROVE StdPart /\ Promise!Init
    OBVIOUS
  <1>1. owner \in {"nobody", "shell"} /\ reply = NoCall
    BY DEF Init
  <1>2. Handle = [fd \in Fds |-> Unopened]
    BY <1>1 DEF Handle
  <1> QED
    BY <1>1, <1>2 DEF StdPart, NoCall, Handle, Unopened, Promise!Init, Promise!All, Promise!Closed,
                      Promise!At

\* The conversions of results.
LEMMA Int32 ==
  /\ int32(FAILURE) = -1 /\ int32(SUCCESS) = 0
  /\ \A x \in Nat : 2 * x < WORD => int32(x) = x
  <1>1. WORD \in Nat /\ WORD > 1
    BY ImageAssumption, FilesAssumption
  <1> QED
    BY <1>1 DEF int32, FAILURE, SUCCESS

\* Two neighbouring bytes lie in the same block unless the second begins one.
LEMMA SameBlock ==
  ASSUME NEW b \in Nat \ {0}, NEW i \in Nat, i > 0, i % b # 0
  PROVE  (i - 1) \div b = i \div b
  <1> DEFINE q == i \div b
             r == i % b
  <1>1. q \in Nat /\ r \in 1 .. b - 1 /\ i = b * q + r
    OBVIOUS
  <1> HIDE DEF q, r
  <1>2. r - 1 \in 0 .. b - 1 /\ i - 1 = b * q + (r - 1)
    BY <1>1
  <1>3. (i - 1) \div b = q
    BY <1>1, <1>2
  <1> QED
    BY <1>3 DEF q

\* The pointer data_block over the bytes from offset to end.
IsPointer(f, inode, offset, end) ==
    f = [i \in offset .. end |->
            IF i % BLOCK_SIZE = 0 \/ i = offset
            THEN inode.data_block[1 + (i \div BLOCK_SIZE)] ELSE f[i - 1]]

\* The equation that defines data_block has a solution.
LEMMA DataBlock ==
  ASSUME NEW inode, NEW offset \in Nat, NEW end \in Nat, offset <= end
  PROVE  IsPointer(data_block(inode, offset, end), inode, offset, end)
  <1> DEFINE D(i) == inode.data_block[1 + (i \div BLOCK_SIZE)]
             T == {n \in Nat : \E f : IsPointer(f, inode, offset, offset + n)}
  <1>1. 0 \in T
    <2>1. IsPointer([i \in offset .. offset + 0 |-> D(offset)], inode, offset, offset + 0)
      BY DEF IsPointer
    <2> QED
      BY <2>1
  <1>2. ASSUME NEW n \in T PROVE n + 1 \in T
    <2>1. PICK f : IsPointer(f, inode, offset, offset + n)
      BY <1>2
    <2> DEFINE last == offset + (n + 1)
               g == [i \in offset .. last |->
                        IF i <= offset + n THEN f[i]
                        ELSE IF last % BLOCK_SIZE = 0 THEN D(last) ELSE f[offset + n]]
    <2>2. IsPointer(g, inode, offset, last)
      <3>1. n \in Nat
        OBVIOUS
      <3>2. ASSUME NEW i \in offset .. last
            PROVE  g[i] = IF i % BLOCK_SIZE = 0 \/ i = offset THEN D(i) ELSE g[i - 1]
        <4>1. CASE i <= offset + n
          <5>1. i \in offset .. offset + n
            BY <3>1, <4>1
          <5>2. f[i] = IF i % BLOCK_SIZE = 0 \/ i = offset THEN D(i) ELSE f[i - 1]
            BY <2>1, <5>1 DEF IsPointer
          <5>3. i # offset => i - 1 \in offset .. last /\ i - 1 <= offset + n
            BY <3>1, <5>1
          <5> QED
            BY <4>1, <5>2, <5>3
        <4>2. CASE ~ (i <= offset + n)
          <5>1. i = last /\ i # offset /\ i - 1 = offset + n /\ i - 1 \in offset .. last
            BY <3>1, <4>2
          <5> QED
            BY <4>2, <5>1
        <4> QED
          BY <4>1, <4>2
      <3> QED
        BY <3>2 DEF IsPointer
    <2> QED
      BY <2>2
  <1>3. T = Nat
    <2> HIDE DEF T
    <2>1. T \in SUBSET Nat
      BY DEF T
    <2> QED
      BY <1>1, <1>2, <2>1, InductionStep
  <1>4. PICK n \in Nat : offset + n = end
    <2>1. end - offset \in Nat /\ offset + (end - offset) = end
      OBVIOUS
    <2> QED
      BY <2>1
  <1>5. \E f : IsPointer(f, inode, offset, end)
    BY <1>3, <1>4
  <1> QED
    BY <1>5 DEF IsPointer, data_block

\* While byte i is copied the pointer is at the block that holds it.
LEMMA PointerAtBlock ==
  ASSUME NEW inode, NEW offset \in Nat, NEW end \in Nat, NEW i \in offset .. end
  PROVE  data_block(inode, offset, end)[i] = inode.data_block[1 + (i \div BLOCK_SIZE)]
  <1> DEFINE f    == data_block(inode, offset, end)
             D(j) == inode.data_block[1 + (j \div BLOCK_SIZE)]
             T    == {n \in Nat : offset + n <= end => f[offset + n] = D(offset + n)}
  <1>1. offset <= end /\ BLOCK_SIZE \in Nat \ {0}
    BY ImageAssumption
  <1>2. IsPointer(f, inode, offset, end)
    BY <1>1, DataBlock
  <1>3. \A j \in offset .. end : f[j] = IF j % BLOCK_SIZE = 0 \/ j = offset THEN D(j) ELSE f[j - 1]
    BY <1>2 DEF IsPointer
  <1> HIDE DEF f
  <1>4. 0 \in T
    <2>1. offset + 0 = offset /\ offset \in offset .. end
      BY <1>1
    <2> QED
      BY <1>3, <2>1
  <1>5. ASSUME NEW n \in T PROVE n + 1 \in T
    <2> SUFFICES ASSUME offset + (n + 1) <= end PROVE f[offset + (n + 1)] = D(offset + (n + 1))
      OBVIOUS
    <2>1. n \in Nat /\ offset + n <= end
      BY <1>1
    <2>2. PICK j \in Nat : j = offset + (n + 1)
      BY <2>1
    <2>3. j \in offset .. end /\ j # offset /\ j - 1 = offset + n /\ j > 0
      BY <2>1, <2>2
    <2>4. f[j - 1] = D(j - 1)
      BY <1>1, <1>5, <2>1, <2>3
    <2>5. j % BLOCK_SIZE # 0 => D(j - 1) = D(j)
      BY <1>1, <2>2, <2>3, SameBlock
    <2> QED
      BY <1>3, <2>2, <2>3, <2>4, <2>5
  <1>6. T = Nat
    <2> HIDE DEF T
    <2>1. T \in SUBSET Nat
      BY DEF T
    <2> QED
      BY <1>4, <1>5, <2>1, InductionStep
  <1>7. PICK n \in Nat : offset + n = i /\ i <= end
    <2>1. i - offset \in Nat /\ offset + (i - offset) = i /\ i <= end
      OBVIOUS
    <2> QED
      BY <2>1
  <1>8. f[i] = D(i)
    BY <1>6, <1>7
  <1> QED
    BY <1>8 DEF f

\* The byte at position p of a file, from 1 on.
ByteAt(inode, p) ==
    data_blocks[inode.data_block[1 + ((p - 1) \div BLOCK_SIZE)]][1 + ((p - 1) % BLOCK_SIZE)]

\* Where a read of n bytes ends.
ReadEnd(pos, n, len) == IF pos + n < len THEN pos + n ELSE len

\* A read of a size that is not negative delivers the next bytes of the file.
LEMMA FileBytes ==
  ASSUME NEW ino \in DOMAIN inodes, NEW pos \in Nat, NEW n \in Nat, NEW buf,
         pos <= inodes[ino].length, 2 * n < WORD, 0 .. n - 1 \subseteq DOMAIN buf
  PROVE  /\ file_read(ino, buf, n, pos).ret = ReadEnd(pos, n, inodes[ino].length) - pos
         /\ uint32(pos + file_read(ino, buf, n, pos).ret) = ReadEnd(pos, n, inodes[ino].length)
         /\ \A k \in 1 .. ReadEnd(pos, n, inodes[ino].length) - pos :
               file_read(ino, buf, n, pos).buf[k - 1] = ByteAt(inodes[ino], pos + k)
  <1> DEFINE inode == inodes[ino]
             len   == inode.length
             last  == ReadEnd(pos, n, len)
             m     == num_bytes(pos, n, len)
             r     == file_read(ino, buf, n, pos)
             end   == (pos + m) % WORD
             b     == empty_buffer(buf)
             block == data_block(inode, pos, end - 1)
  <1>1. len \in Nat /\ 2 * len < WORD /\ WORD \in Nat \ {0}
    BY ImageAssumption
  <1>2. DOMAIN b = DOMAIN buf
    BY DEF empty_buffer
  <1>3. /\ r.ret = m
        /\ r.buf = [k \in DOMAIN buf |->
                      IF pos + k < end THEN data_blocks[block[pos + k]][1 + ((pos + k) % BLOCK_SIZE)]
                      ELSE b[k]]
    BY <1>1, <1>2 DEF file_read, read_data
  <1> HIDE DEF len, inode, b, r
  <1>4. (pos + n) % WORD = pos + n
    <2>1. pos <= len
      BY DEF inode, len
    <2>2. pos + n \in 0 .. WORD - 1
      BY <1>1, <2>1
    <2> QED
      BY <1>1, <2>2, ModSmall
  <1>5. m = last - pos /\ last \in Nat /\ last <= len /\ pos <= last /\ last - pos <= n
    BY <1>1, <1>4 DEF num_bytes, ReadEnd, inode, len
  <1> HIDE DEF m, last
  <1>6. end = last
    BY <1>1, <1>5, ModSmall
  <1>7. uint32(pos + m) = last
    BY <1>6 DEF uint32
  <1> HIDE DEF end
  <1>8. ASSUME NEW k \in 1 .. last - pos PROVE r.buf[k - 1] = ByteAt(inode, pos + k)
    <2>1. PICK i \in Nat : i = pos + (k - 1)
      BY <1>5
    <2>2. k - 1 \in 0 .. n - 1 /\ i < last /\ i \in pos .. last - 1 /\ last - 1 \in Nat
          /\ (pos + k) - 1 = i
      BY <1>1, <1>5, <2>1
    <2>3. r.buf[k - 1] = data_blocks[block[i]][1 + (i % BLOCK_SIZE)]
      BY <1>3, <1>6, <2>1, <2>2
    <2>4. block[i] = inode.data_block[1 + (i \div BLOCK_SIZE)]
      BY <1>6, <2>2, PointerAtBlock
    <2> QED
      BY <2>2, <2>3, <2>4 DEF ByteAt
  <1> QED
    BY <1>3, <1>5, <1>7, <1>8 DEF r, last, m, len, inode

\* The name a read of the directory finds.
NextName(pos) == IF pos < Len(dentries) THEN dentries[pos + 1].file_name ELSE <<>>
\* The part of the name that a read of n bytes delivers.
CutSize(n, name) == IF n < Len(name) THEN n ELSE Len(name)

\* A read of a directory delivers the next name, cut to the size.
LEMMA DirName ==
  ASSUME NEW pos \in Nat, NEW n \in Nat, NEW buf, Len(dentries) < NUM_DENTRIES,
         pos <= Len(dentries), n <= NAME_SIZE, 0 .. n - 1 \subseteq DOMAIN buf
  PROVE  /\ dir_read(buf, n, pos).ret = CutSize(n, NextName(pos))
         /\ CutSize(n, NextName(pos)) \in Nat /\ CutSize(n, NextName(pos)) <= n
         /\ \A k \in 1 .. CutSize(n, NextName(pos)) :
               dir_read(buf, n, pos).buf[k - 1] = NextName(pos)[k]
  <1> DEFINE d    == dentry(dentries, pos)
             name == NextName(pos)
             size == CutSize(n, name)
             r    == dir_read(buf, n, pos)
             b    == empty_buffer(buf)
             m    == Min2(n, name_strlen(d))
  <1>1. /\ NAME_SIZE \in Nat \ {0} /\ NUM_DENTRIES \in Nat
        /\ IsDirectory(dentries) /\ Len(dentries) \in Nat
        /\ DOMAIN dentries = 1 .. Len(dentries)
        /\ None # Unused /\ \A j \in DOMAIN dentries : dentries[j] # None
    BY ImageAssumption, FilesAssumption DEF IsDirectory
  <1>2. /\ IsEntryName(d)
        /\ pos < Len(dentries) => d = dentries[pos + 1]
        /\ pos >= Len(dentries) => d = Unused
    BY <1>1, EntryNames
  <1>3. d # None
    <2>1. pos < Len(dentries) => pos + 1 \in DOMAIN dentries
      BY <1>1
    <2> QED
      BY <1>1, <1>2, <2>1
  <1>4. name = d.file_name
    BY <1>1, <1>2 DEF Unused, NextName
  <1>5. read_dentry_by_index(pos) = d
    BY <1>1 DEF read_dentry_by_index
  <1>6. r.ret = m /\ r.buf = strncpy(b, d, m)
    BY <1>3, <1>5 DEF dir_read
  <1>7. DOMAIN b = DOMAIN buf
    BY DEF empty_buffer
  <1> HIDE DEF d, name, r, b
  <1>8. /\ IsString(name) /\ Len(name) \in Nat /\ Len(name) <= NAME_SIZE
        /\ \A k \in Nat : k < Len(name) => string_byte(name, k) = name[k + 1]
        /\ Len(name) < NAME_SIZE => dentry_byte(d, Len(name)) = NUL
        /\ \A k \in Nat : k < Len(name) => dentry_byte(d, k) = name[k + 1]
    BY <1>1, <1>2, <1>4, StringBytes DEF IsEntryName, dentry_byte
  <1>9. /\ name_strlen(d) \in 0 .. NAME_SIZE + 1 /\ name_strlen(d) >= Len(name)
        /\ \A k \in 0 .. name_strlen(d) - 1 : dentry_byte(d, k) # NUL
    BY <1>1, <1>2, <1>4, NameStrlen
  <1>10. Len(name) < NAME_SIZE => name_strlen(d) <= Len(name)
    BY <1>1, <1>8, <1>9
  <1>11. m = size /\ size \in Nat /\ size <= n /\ size <= Len(name)
    BY <1>1, <1>8, <1>9, <1>10 DEF Min2, CutSize
  <1> HIDE DEF m, size
  <1>12. ASSUME NEW k \in 1 .. size PROVE r.buf[k - 1] = name[k]
    <2>1. k - 1 \in Nat /\ k - 1 < size /\ k - 1 < Len(name) /\ k - 1 \in 0 .. n - 1 /\ (k - 1) + 1 = k
      BY <1>8, <1>11
    <2>2. k - 1 \in DOMAIN b
      BY <1>7, <2>1
    <2>3. r.buf[k - 1] = dentry_byte(d, k - 1)
      BY <1>6, <1>11, <2>1, <2>2 DEF strncpy
    <2> QED
      BY <1>8, <2>1, <2>3
  <1> QED
    BY <1>6, <1>11, <1>12 DEF r, size, name, m, d

\* The open file a descriptor in use stands for.
SlotFile(s) ==
    IF s.ops \in {"stdin", "stdout"} THEN [file |-> <<"std">>, pos |-> 0]
    ELSE [file |-> <<s.file_type, s.inode>>, pos |-> s.file_position]

\* The handle of a descriptor.
LEMMA HandleAt ==
  ASSUME NEW fd \in Fds
  PROVE  /\ Used(fd) /\ owner = "program" => Handle[fd] = SlotFile(file_array[fd])
         /\ ~ (Used(fd) /\ owner = "program") => Handle[fd] = Unopened
  BY DEF Handle, FileAt, SlotFile

\* An open file is not a closed descriptor.
LEMMA OpenNotClosed ==
  ASSUME NEW s
  PROVE  SlotFile(s) # Unopened
  <1>1. SlotFile(s).file # <<"closed">>
    BY DEF SlotFile
  <1> QED
    BY <1>1 DEF Unopened

\* A call that changes one descriptor changes one handle.
LEMMA HandleChange ==
  ASSUME SlotPart, UNCHANGED owner, owner = "program", NEW fd \in Fds, NEW t \in Slots,
         file_array' = [file_array EXCEPT ![fd] = t]
  PROVE  Handle' = [Handle EXCEPT ![fd] = IF t.flags = 0 THEN Unopened ELSE SlotFile(t)]
  <1> DEFINE new(g) == IF g = fd THEN (IF t.flags = 0 THEN Unopened ELSE SlotFile(t)) ELSE Handle[g]
  <1>1. \A g \in Fds : file_array'[g] = IF g = fd THEN t ELSE file_array[g]
    BY DEF SlotPart
  <1>2. Handle' = [g \in Fds |-> IF file_array'[g].flags = 0 THEN Unopened
                                 ELSE SlotFile(file_array'[g])]
    BY DEF Handle, Used, FileAt, SlotFile
  <1>3. ASSUME NEW g \in Fds PROVE Handle'[g] = new(g)
    BY <1>1, <1>2, HandleAt DEF Used
  <1>4. DOMAIN Handle = Fds
    BY DEF Handle
  <1> QED
    BY <1>2, <1>3, <1>4 DEF Handle

\* A call that leaves owner and descriptors leaves the handles.
LEMMA HandleSame ==
  ASSUME UNCHANGED <<owner, file_array>>
  PROVE  Handle' = Handle
  BY DEF Handle, Used, FileAt, Unopened

\* open keeps the promise.
LEMMA OpenKept ==
  ASSUME SlotPart, owner = "program", NEW name \in Names, open(name)
  PROVE  Promise!Open(name)
  <1> DEFINE i      == lookup[name]
             unused == {fd \in Fds : ~ Used(fd)}
             free   == {fd \in Fds : Handle[fd] = Unopened}
             d      == dentry(dentries, i)
             t      == [ops |-> file_table(d.file_type), inode |-> d.inode_num,
                        file_type |-> d.file_type, file_position |-> 0, flags |-> 1]
  <1>1. owner = "program" /\ UNCHANGED owner
    BY DEF open
  <1>2. free = unused
    BY <1>1, HandleAt, OpenNotClosed
  <1>3. i = EntryNamed(dentries, name)
    BY LookedUp, LookupExact, ImageAssumption
  <1>4. CASE i = None \/ unused = {}
    <2>1. reply' = [call |-> <<"open">>, ret |-> -1, data |-> <<>>]
      BY <1>4, Int32 DEF open, answer
    <2>2. Handle' = Handle
      BY <1>4, HandleSame DEF open
    <2>3. FileNamed(name) = <<"missing">> \/ free = {}
      BY <1>2, <1>3, <1>4 DEF FileNamed
    <2> QED
      BY <1>1, <2>1, <2>2, <2>3 DEF Promise!Open, Promise!Gives, Promise!Free, Promise!Missing,
                              Promise!Closed, Promise!At, Unopened, Handle
  <1>5. CASE ~ (i = None \/ unused = {})
    <2> DEFINE fd == free_fd(unused)
    <2>1. file_array' = [file_array EXCEPT ![fd] = t]
      BY <1>5 DEF open
    <2>2. fd \in unused
      <3>1. unused \in SUBSET Nat /\ unused # {}
        BY <1>5 DEF Fds
      <3> HIDE DEF unused
      <3>2. \E m \in unused : \A j \in unused : m <= j
        BY <3>1, LeastMember
      <3> QED
        BY <3>2 DEF free_fd
    <2>3. fd \in Fds /\ fd \in Nat /\ 2 * fd < WORD
      BY <2>2, FilesAssumption, ImageAssumption DEF Fds
    <2>4. /\ d = dentries[i + 1] /\ d.inode_num \in DOMAIN inodes
          /\ d.file_type \in {RTC_TYPE, DIR_TYPE, FILE_TYPE}
      BY <1>5, LookupResult
    <2>5. reply' = [call |-> <<"open">>, ret |-> fd, data |-> <<>>]
      <3>1. file_open(lookup[name]) = SUCCESS
        BY <1>5 DEF file_open
      <3>2. answer(<<"open">>, fd, <<>>)
        BY <1>5, <3>1 DEF open
      <3> QED
        BY <2>3, <3>2, Int32 DEF answer
    <2>6. FileNamed(name) = <<d.file_type, d.inode_num>>
      BY <1>3, <1>5, <2>4 DEF FileNamed
    <2> HIDE DEF d, fd
    <2>7. t \in Slots /\ t.flags # 0
      BY <2>4 DEF Slots, file_table
    <2>8. SlotFile(t) = [file |-> FileNamed(name), pos |-> 0]
      BY <2>4, <2>6 DEF SlotFile, file_table
    <2> HIDE DEF t
    <2>9. Handle' = [Handle EXCEPT ![fd] = [file |-> FileNamed(name), pos |-> 0]]
      BY <1>1, <2>1, <2>3, <2>7, <2>8, HandleChange
    <2>10. fd = CHOOSE f \in free : \A g \in free : f <= g
      BY <1>2 DEF free_fd, fd
    <2>11. FileNamed(name) # <<"missing">> /\ free # {}
      BY <1>2, <1>5, <2>6
    <2> QED
      BY <1>1, <2>5, <2>9, <2>10, <2>11 DEF Promise!Open, Promise!Gives, Promise!Free, Promise!Missing,
                              Promise!Closed, Promise!At, Unopened, Handle
  <1> QED
    BY <1>4, <1>5

\* close keeps the promise.
LEMMA CloseKept ==
  ASSUME StdKept, SlotPart, StdPart, owner = "program", NEW fd \in Fds, close(fd)
  PROVE  Promise!Close(fd)
  <1>1. owner = "program" /\ UNCHANGED owner /\ file_array[fd] \in Slots /\ fd >= STD_FILES
    BY DEF close, SlotPart
  <1>2. ~ (fd < STD_FILES) /\ fd \notin 0 .. STD_FILES - 1
    BY <1>1, FilesAssumption DEF Fds
  <1>3. CASE Used(fd)
    <2> DEFINE t == closed_slot(file_array[fd])
    <2>1. file_array' = [file_array EXCEPT ![fd] = t]
      BY <1>3 DEF close
    <2>2. t \in Slots /\ t.flags = 0
      BY <1>1 DEF closed_slot, Slots
    <2> HIDE DEF t
    <2>3. Handle' = [Handle EXCEPT ![fd] = Unopened]
      BY <1>1, <2>1, <2>2, HandleChange
    <2>4. reply' = [call |-> <<"close">>, ret |-> 0, data |-> <<>>]
      <3>1. answer(<<"close">>, close_result(file_array[fd]), <<>>)
        BY <1>3 DEF close
      <3>2. file_array[fd].ops \in {"rtc", "dir", "file"}
        BY <1>1, <1>2, <1>3 DEF StdPart
      <3>3. close_result(file_array[fd]) = SUCCESS
        BY <3>2 DEF close_result
      <3> QED
        BY <3>1, <3>3, Int32 DEF answer
    <2>5. Handle[fd] # Unopened
      BY <1>1, <1>3, HandleAt, OpenNotClosed
    <2> QED
      BY <1>1, <1>2, <2>3, <2>4, <2>5 DEF Promise!Close, Promise!Gives, Promise!Closed, Promise!At,
                                    Unopened, Handle
  <1>4. CASE ~ Used(fd)
    <2>1. reply' = [call |-> <<"close">>, ret |-> -1, data |-> <<>>]
      BY <1>4, Int32 DEF close, answer
    <2>2. Handle' = Handle
      BY <1>4, HandleSame DEF close
    <2>3. Handle[fd] = Unopened
      BY <1>4, HandleAt
    <2> QED
      BY <1>1, <2>1, <2>2, <2>3 DEF Promise!Close, Promise!Gives, Promise!Closed, Promise!At, Unopened,
                              Handle
  <1> QED
    BY <1>3, <1>4

\* The kinds of files.
LEMMA Kinds ==
  /\ KindOf(<<"std">>) = "device"
  /\ \A x : KindOf(<<RTC_TYPE, x>>) = "device"
  /\ \A x : KindOf(<<FILE_TYPE, x>>) = "bytes"
  /\ \A x : KindOf(<<DIR_TYPE, x>>) = "names"
  <1>1. KindOf(<<"std">>) = "device"
    BY DEF KindOf
  <1>2. ASSUME NEW x, NEW ty \in {RTC_TYPE, DIR_TYPE, FILE_TYPE}
        PROVE  <<ty, x>> # <<"std">> /\ <<ty, x>>[1] = ty
    OBVIOUS
  <1> QED
    BY <1>1, <1>2 DEF KindOf, RTC_TYPE, DIR_TYPE, FILE_TYPE

\* The contents of a file and of the directory.
LEMMA Contents ==
  /\ \A ino \in DOMAIN inodes : ContentOf(<<FILE_TYPE, ino>>) =
        [p \in 1 .. inodes[ino].length |-> ByteAt(inodes[ino], p)]
  /\ \A x : ContentOf(<<DIR_TYPE, x>>) = [k \in 1 .. Len(dentries) |-> dentries[k].file_name]
  <1>1. ASSUME NEW ino \in DOMAIN inodes
        PROVE  ContentOf(<<FILE_TYPE, ino>>) =
                  [p \in 1 .. inodes[ino].length |-> ByteAt(inodes[ino], p)]
    <2>1. KindOf(<<FILE_TYPE, ino>>) # "names" /\ <<FILE_TYPE, ino>>[2] = ino
      BY Kinds
    <2> QED
      BY <2>1 DEF ContentOf, ByteAt
  <1> QED
    BY <1>1, Kinds DEF ContentOf

\* Their lengths.
LEMMA ContentLength ==
  /\ \A ino \in DOMAIN inodes : Len(ContentOf(<<FILE_TYPE, ino>>)) = inodes[ino].length
  /\ \A x : Len(ContentOf(<<DIR_TYPE, x>>)) = Len(dentries)
  <1>1. ASSUME NEW ino \in DOMAIN inodes
        PROVE  Len(ContentOf(<<FILE_TYPE, ino>>)) = inodes[ino].length
    <2> DEFINE c == ContentOf(<<FILE_TYPE, ino>>)
    <2>1. c = [p \in 1 .. inodes[ino].length |-> ByteAt(inodes[ino], p)]
      BY Contents
    <2>2. inodes[ino].length \in Nat
      BY ImageAssumption
    <2> HIDE DEF c
    <2>3. Len(c) = inodes[ino].length
      BY <2>1, <2>2
    <2> QED
      BY <2>3 DEF c
  <1>2. ASSUME NEW x PROVE Len(ContentOf(<<DIR_TYPE, x>>)) = Len(dentries)
    <2> DEFINE c == ContentOf(<<DIR_TYPE, x>>)
    <2>1. c = [k \in 1 .. Len(dentries) |-> dentries[k].file_name]
      BY Contents
    <2>2. Len(dentries) \in Nat
      BY ImageAssumption DEF IsDirectory
    <2> HIDE DEF c
    <2>3. Len(c) = Len(dentries)
      BY <2>1, <2>2
    <2> QED
      BY <2>3 DEF c
  <1> QED
    BY <1>1, <1>2

\* The sizes programs read with are their own unsigned values unless negative.
LEMMA SizeFacts ==
  ASSUME NEW n \in Sizes
  PROVE  /\ n \in Int /\ uint32(n) \in Nat
         /\ n >= 0 => uint32(n) = n /\ n \in Nat /\ 2 * n < WORD
  <1>1. n \in Int /\ 2 * n < WORD /\ WORD \in Nat \ {0}
    BY FilesAssumption, ImageAssumption
  <1>2. uint32(n) \in 0 .. WORD - 1
    BY <1>1, ModRange DEF uint32
  <1>3. n >= 0 => n \in 0 .. WORD - 1
    BY <1>1
  <1> QED
    BY <1>1, <1>2, <1>3, ModSmall DEF uint32

\* A function on 1 .. n is a sequence.
LEMMA FunctionIsSeq ==
  ASSUME NEW n \in Nat, NEW S, NEW f, DOMAIN f = 1 .. n,
         f = [k \in 1 .. n |-> f[k]], \A k \in 1 .. n : f[k] \in S
  PROVE  f \in Seq(S) /\ Len(f) = n
  <1>1. f \in [1 .. n -> S]
    OBVIOUS
  <1> QED
    BY <1>1

\* A function that lists the elements behind pos up to last.
IsPiece(data, all, pos, last) ==
    /\ DOMAIN data = 1 .. last - pos /\ data = [k \in 1 .. last - pos |-> data[k]]
    /\ \A k \in 1 .. last - pos : data[k] = all[pos + k]

\* Such a function is that piece of the sequence.
LEMMA Piece ==
  ASSUME NEW all, NEW pos \in Nat, NEW last \in Nat, pos <= last, NEW data,
         IsPiece(data, all, pos, last)
  PROVE  data = SubSeq(all, pos + 1, last)
  <1> USE DEF IsPiece
  <1> DEFINE S == {all[k] : k \in pos + 1 .. last}
             sub == SubSeq(all, pos + 1, last)
  <1>1. ASSUME NEW k \in 1 .. last - pos PROVE data[k] \in S
    <2>1. pos + k \in pos + 1 .. last
      OBVIOUS
    <2> QED
      BY <2>1
  <1>2. last - pos \in Nat
    OBVIOUS
  <1>3. \A k \in pos + 1 .. last : all[k] \in S
    OBVIOUS
  <1> HIDE DEF S
  <1>4. data \in Seq(S) /\ Len(data) = last - pos
    BY <1>1, <1>2, FunctionIsSeq
  <1>5. /\ sub \in Seq(S) /\ Len(sub) = IF pos + 1 <= last THEN last - (pos + 1) + 1 ELSE 0
        /\ \A k \in 1 .. last - (pos + 1) + 1 : sub[k] = all[(pos + 1) + k - 1]
    BY SMTT(60), <1>3, SubSeqProperties
  <1> HIDE DEF sub
  <1>6. Len(sub) = last - pos
    BY <1>5
  <1>7. ASSUME NEW k \in 1 .. Len(sub) PROVE data[k] = sub[k]
    <2>1. k \in 1 .. last - (pos + 1) + 1 /\ (pos + 1) + k - 1 = pos + k /\ k \in 1 .. last - pos
      BY <1>6
    <2> QED
      BY <1>1, <1>5, <2>1
  <1>8. data = sub
    BY <1>4, <1>5, <1>6, <1>7, SeqEqual
  <1> QED
    BY <1>8 DEF sub

\* read of a file, the size not negative.
LEMMA ReadFileKept ==
  ASSUME SlotPart, NEW fd \in Fds, NEW n \in Sizes, NEW buf \in Buffers, n >= 0,
         Used(fd), owner = "program", UNCHANGED owner, file_array[fd].ops = "file",
         LET s == file_array[fd]
             r == read_result(s, buf, uint32(n))
         IN  /\ file_array' = [file_array EXCEPT ![fd] =
                                  [s EXCEPT !.file_position = advance(s, r.ret)]]
             /\ answer(<<"read", fd, n>>, r.ret, [k \in 1 .. int32(r.ret) |-> r.buf[k - 1]])
  PROVE  Promise!ReadBytes(fd, n)
  <1> DEFINE s    == file_array[fd]
             ino  == s.inode
             pos  == s.file_position
             len  == inodes[ino].length
             last == ReadEnd(pos, n, len)
             r    == file_read(ino, buf, n, pos)
             t    == [s EXCEPT !.file_position = last]
             all  == ContentOf(<<FILE_TYPE, ino>>)
  <1>1. s \in Slots /\ Placed(s) /\ s.flags # 0
    BY DEF SlotPart, Used
  <1>2. /\ s.file_type = FILE_TYPE /\ ino \in DOMAIN inodes /\ pos <= len /\ pos \in Nat
        /\ len \in Nat /\ 2 * len < WORD
    BY <1>1, ImageAssumption DEF Placed, Slots
  <1>3. uint32(n) = n /\ n \in Nat /\ 2 * n < WORD /\ 0 .. n - 1 \subseteq DOMAIN buf
    BY SizeFacts, FilesAssumption
  <1>4. read_result(s, buf, uint32(n)) = r
    BY <1>3 DEF read_result
  <1>12. Handle[fd] = [file |-> <<FILE_TYPE, ino>>, pos |-> pos]
    BY <1>2, HandleAt DEF SlotFile
  <1>0. SlotFile(t) = [file |-> <<s.file_type, ino>>, pos |-> t.file_position]
    BY <1>1 DEF SlotFile, Slots
  <1> HIDE DEF s, ino, pos
  <1>5. /\ r.ret = last - pos /\ uint32(pos + r.ret) = last
        /\ \A k \in 1 .. last - pos : r.buf[k - 1] = ByteAt(inodes[ino], pos + k)
    <2>1. ino \in DOMAIN inodes /\ pos \in Nat /\ n \in Nat /\ pos <= inodes[ino].length
      BY <1>2, <1>3
    <2>2. 2 * n < WORD /\ 0 .. n - 1 \subseteq DOMAIN buf
      BY <1>3
    <2> QED
      BY ONLY <2>1, <2>2, FileBytes, ZenonT(120)
  <1>6. advance(s, r.ret) = last
    BY <1>2, <1>5 DEF advance, FILE_TYPE, DIR_TYPE, pos
  <1>7. last \in Nat /\ pos <= last /\ last <= len
    BY <1>2, <1>3 DEF ReadEnd
  <1>8. file_array' = [file_array EXCEPT ![fd] = t]
    BY <1>4, <1>6 DEF s
  <1>9. int32(r.ret) = last - pos
    <2> HIDE DEF last, r, len
    <2>1. r.ret \in Nat /\ 2 * r.ret < WORD
      <3>1. WORD \in Nat
        BY ImageAssumption
      <3> QED
        BY ONLY <1>2, <1>5, <1>7, <3>1
    <2> QED
      BY <1>1, <1>5, <2>1, Int32
  <1>10. reply' = [call |-> <<"read", fd, n>>, ret |-> last - pos,
                   data |-> [k \in 1 .. last - pos |-> r.buf[k - 1]]]
    BY <1>4, <1>9 DEF answer, s
  <1> HIDE DEF last, r
  <1>11. t \in Slots /\ t.flags # 0 /\ SlotFile(t) = [file |-> <<FILE_TYPE, ino>>, pos |-> last]
    BY <1>0, <1>1, <1>2, <1>7 DEF Slots
  <1> HIDE DEF t
  <1>13. Handle' = [Handle EXCEPT ![fd] = [file |-> <<FILE_TYPE, ino>>, pos |-> last]]
    BY <1>8, <1>11, HandleChange
  <1>14. Handle' = [Handle EXCEPT ![fd].pos = last]
    <2>1. [Handle[fd] EXCEPT !.pos = last] = [file |-> <<FILE_TYPE, ino>>, pos |-> last]
      BY <1>12
    <2> QED
      BY <1>13, <2>1
  <1>15. all = [p \in 1 .. len |-> ByteAt(inodes[ino], p)]
    BY <1>2, Contents
  <1> HIDE DEF all, len
  <1>16. Len(all) = len
    BY <1>2, <1>15
  <1>17. [k \in 1 .. last - pos |-> r.buf[k - 1]] = SubSeq(all, pos + 1, last)
    <2> DEFINE data == [k \in 1 .. last - pos |-> r.buf[k - 1]]
    <2>1. ASSUME NEW k \in 1 .. last - pos PROVE data[k] = all[pos + k]
      <3>1. pos + k \in 1 .. len
        BY <1>2, <1>7
      <3>2. all[pos + k] = ByteAt(inodes[ino], pos + k)
        BY <1>15, <3>1
      <3> QED
        BY <1>5, <3>2
    <2>2. DOMAIN data = 1 .. last - pos /\ data = [k \in 1 .. last - pos |-> data[k]]
      OBVIOUS
    <2> HIDE DEF data
    <2>3. pos \in Nat /\ last \in Nat /\ pos <= last
      BY <1>2, <1>7
    <2>4. IsPiece(data, all, pos, last)
      BY <2>1, <2>2, Zenon DEF IsPiece
    <2>5. data = SubSeq(all, pos + 1, last)
      BY ONLY <2>3, <2>4, Piece
    <2> QED
      BY <2>5 DEF data
  <1>18. last = IF pos + n < Len(all) THEN pos + n ELSE Len(all)
    BY <1>16 DEF last, len, ReadEnd
  <1>19. ContentOf(Handle[fd].file) = all /\ Handle[fd].pos = pos
    BY <1>12 DEF all
  <1>20. reply' = [call |-> <<"read", fd, n>>, ret |-> last - pos, data |-> SubSeq(all, pos + 1, last)]
    BY <1>10, <1>17
  <1> HIDE DEF last
  <1> QED
    BY owner' # "shell", <1>14, <1>18, <1>19, <1>20 DEF Promise!ReadBytes, Promise!Gives, Handle

\* read of a directory, the size not negative.
LEMMA ReadDirKept ==
  ASSUME SlotPart, NEW fd \in Fds, NEW n \in Sizes, NEW buf \in Buffers, n >= 0,
         Used(fd), owner = "program", UNCHANGED owner, file_array[fd].ops = "dir",
         Len(dentries) < NUM_DENTRIES, n <= NAME_SIZE,
         LET s == file_array[fd]
             r == read_result(s, buf, uint32(n))
         IN  /\ file_array' = [file_array EXCEPT ![fd] =
                                  [s EXCEPT !.file_position = advance(s, r.ret)]]
             /\ answer(<<"read", fd, n>>, r.ret, [k \in 1 .. int32(r.ret) |-> r.buf[k - 1]])
  PROVE  Promise!ReadName(fd, n)
  <1> DEFINE s    == file_array[fd]
             ino  == s.inode
             pos  == s.file_position
             len  == Len(dentries)
             name == NextName(pos)
             size == CutSize(n, name)
             r    == dir_read(buf, n, pos)
             next == IF size > 0 THEN pos + 1 ELSE pos
             t    == [s EXCEPT !.file_position = next]
             all  == ContentOf(<<DIR_TYPE, ino>>)
  <1>1. s \in Slots /\ Placed(s) /\ s.flags # 0
    BY DEF SlotPart, Used
  <1>2. /\ s.file_type = DIR_TYPE /\ pos <= len /\ pos \in Nat /\ len \in Nat
    BY <1>1, ImageAssumption DEF Placed, Slots, IsDirectory
  <1>3. uint32(n) = n /\ n \in Nat /\ 2 * n < WORD /\ 0 .. n - 1 \subseteq DOMAIN buf
    BY SizeFacts, FilesAssumption
  <1>4. read_result(s, buf, uint32(n)) = r
    BY <1>3 DEF read_result
  <1>5. Handle[fd] = [file |-> <<DIR_TYPE, ino>>, pos |-> pos]
    BY <1>2, HandleAt DEF SlotFile
  <1>6. SlotFile(t) = [file |-> <<s.file_type, ino>>, pos |-> t.file_position]
    BY <1>1 DEF SlotFile, Slots
  <1> HIDE DEF s, ino, pos
  <1>7. /\ r.ret = size /\ size \in Nat /\ size <= n
        /\ \A k \in 1 .. size : r.buf[k - 1] = name[k]
    <2>1. pos \in Nat /\ n \in Nat /\ pos <= Len(dentries)
      BY <1>2, <1>3
    <2>2. 0 .. n - 1 \subseteq DOMAIN buf /\ n <= NAME_SIZE /\ Len(dentries) < NUM_DENTRIES
      BY <1>3
    <2> QED
      BY ONLY <2>1, <2>2, DirName
  <1>8. size = IF n < Len(name) THEN n ELSE Len(name)
    BY DEF CutSize
  <1> HIDE DEF r, size
  <1>9. int32(r.ret) = size
    <2>1. size \in Nat /\ 2 * size < WORD
      <3>1. WORD \in Nat
        BY ImageAssumption
      <3> QED
        BY ONLY <1>3, <1>7, <3>1
    <2> QED
      BY <1>7, <2>1, Int32
  <1>10. advance(s, r.ret) = next
    BY <1>2, <1>9 DEF advance, pos
  <1>11. file_array' = [file_array EXCEPT ![fd] = t]
    BY <1>4, <1>10 DEF s
  <1>12. reply' = [call |-> <<"read", fd, n>>, ret |-> size,
                   data |-> [k \in 1 .. size |-> r.buf[k - 1]]]
    BY <1>4, <1>9 DEF answer, s
  <1>13. next \in Nat
    BY <1>2
  <1> HIDE DEF next
  <1>14. t \in Slots /\ t.flags # 0 /\ SlotFile(t) = [file |-> <<DIR_TYPE, ino>>, pos |-> next]
    BY <1>1, <1>2, <1>6, <1>13 DEF Slots
  <1> HIDE DEF t
  <1>15. Handle' = [Handle EXCEPT ![fd] = [file |-> <<DIR_TYPE, ino>>, pos |-> next]]
    BY <1>11, <1>14, HandleChange
  <1>16. Handle' = [Handle EXCEPT ![fd].pos = next]
    <2>1. [Handle[fd] EXCEPT !.pos = next] = [file |-> <<DIR_TYPE, ino>>, pos |-> next]
      BY <1>5
    <2> QED
      BY <1>15, <2>1
  <1>17. all = [k \in 1 .. len |-> dentries[k].file_name]
    BY Contents
  <1> HIDE DEF all
  <1>18. Len(all) = len /\ name = IF pos < Len(all) THEN all[pos + 1] ELSE <<>>
    BY <1>2, <1>17 DEF NextName
  <1> HIDE DEF name
  <1>19. [k \in 1 .. size |-> r.buf[k - 1]] = SubSeq(name, 1, size)
    <2> DEFINE data == [k \in 1 .. size |-> r.buf[k - 1]]
    <2>1. \A k \in 1 .. size - 0 : data[k] = name[0 + k]
      BY <1>7
    <2>2. DOMAIN data = 1 .. size - 0 /\ data = [k \in 1 .. size - 0 |-> data[k]]
      BY <1>7
    <2> HIDE DEF data
    <2>3. 0 \in Nat /\ size \in Nat /\ 0 <= size
      BY <1>7
    <2>4. IsPiece(data, name, 0, size)
      BY <2>1, <2>2, Zenon DEF IsPiece
    <2>5. data = SubSeq(name, 0 + 1, size)
      BY ONLY <2>3, <2>4, Piece
    <2> QED
      BY <2>5 DEF data
  <1>20. ContentOf(Handle[fd].file) = all /\ Handle[fd].pos = pos
    BY <1>5 DEF all
  <1>21. reply' = [call |-> <<"read", fd, n>>, ret |-> size, data |-> SubSeq(name, 1, size)]
    BY <1>12, <1>19
  <1>22. Handle' = [Handle EXCEPT ![fd].pos = IF size > 0 THEN @ + 1 ELSE @]
    BY <1>16, <1>20 DEF next
  <1> QED
    BY owner' # "shell", <1>8, <1>18, <1>20, <1>21, <1>22 DEF Promise!ReadName, Promise!Gives, Handle

\* read keeps the promise, whatever the descriptor stands for.
LEMMA ReadKept ==
  ASSUME SlotPart, StdPart, owner = "program", NEW fd \in Fds, NEW n \in Sizes, read(fd, n),
         Len(dentries) < NUM_DENTRIES
  PROVE  Promise!Read(fd, n) \/ Promise!ReadClosed(fd, n)
  <1> DEFINE s == file_array[fd]
  <1>1. owner = "program" /\ UNCHANGED owner /\ ReadSensible(s, n)
    BY DEF read
  <1>2. s \in Slots /\ Placed(s)
    BY DEF SlotPart
  <1>3. PICK buf \in Buffers :
          LET r == read_result(s, buf, uint32(n))
          IN  /\ file_array' = [file_array EXCEPT ![fd].file_position = advance(s, r.ret)]
              /\ IF s.flags = 0 /\ r.ret = 1
                 THEN answer(<<"read", fd, n>>, FAILURE, <<>>)
                 ELSE answer(<<"read", fd, n>>, r.ret,
                             IF s.ops \in {"file", "dir"}
                             THEN [k \in 1 .. int32(r.ret) |-> r.buf[k - 1]] ELSE <<>>)
    BY DEF read
  <1> DEFINE r == read_result(s, buf, uint32(n))
             t == [s EXCEPT !.file_position = advance(s, r.ret)]
  <1>4. file_array' = [file_array EXCEPT ![fd] = t]
    BY <1>3 DEF SlotPart
  <1>5. reply'.call = <<"read", fd, n>>
    <2>1. ASSUME NEW call, NEW w, NEW bytes, answer(call, w, bytes) PROVE reply'.call = call
      BY <2>1 DEF answer
    <2>2. \E w, bytes : answer(<<"read", fd, n>>, w, bytes)
      BY <1>3, Zenon
    <2> QED
      BY <2>1, <2>2, Zenon
  <1>6. t \in Slots /\ Placed(t)
    BY <1>2, SizeFacts, ReadPlaced
  <1>7. /\ t.ops = s.ops /\ t.flags = s.flags /\ t.file_type = s.file_type /\ t.inode = s.inode
        /\ t.file_position = advance(s, r.ret)
    BY <1>2 DEF Slots
  <1>8. DOMAIN Handle = Fds
    BY DEF Handle
  <1>9. Handle = [g \in Fds |-> Handle[g]]
    BY DEF Handle
  <1>10. Handle' = [Handle EXCEPT ![fd] = IF t.flags = 0 THEN Unopened ELSE SlotFile(t)]
    <2> HIDE DEF t
    <2> QED
      BY <1>1, <1>4, <1>6, HandleChange
  <1>11. CASE ~ Used(fd)
    <2>1. Handle[fd] = Unopened
      BY <1>11, HandleAt
    <2>2. t.flags = 0
      BY <1>7, <1>11 DEF Used
    <2> HIDE DEF t
    <2>3. Handle' = Handle
      BY <1>8, <1>9, <1>10, <2>1, <2>2
    <2> QED
      BY <1>1, <1>5, <2>1, <2>3 DEF Promise!ReadClosed, Promise!Closed, Promise!At, Unopened, Handle
  <1>12. CASE Used(fd)
    <2>1. Handle[fd] = SlotFile(s) /\ Handle[fd] # Unopened /\ s.flags # 0
      BY <1>1, <1>12, HandleAt, OpenNotClosed DEF Used
    <2>2. Handle' = [Handle EXCEPT ![fd] = SlotFile(t)]
      <3>1. t.flags # 0
        BY <1>7, <2>1
      <3> HIDE DEF t
      <3> QED
        BY <1>10, <3>1
    <2>3. ASSUME KindOf(Handle[fd].file) = "device", SlotFile(t) = SlotFile(s)
          PROVE  Promise!Read(fd, n)
      <3>1. Handle' = Handle
        <4> HIDE DEF t, s
        <4> QED
          BY <1>8, <1>9, <2>1, <2>2, <2>3
      <3> QED
        BY <1>1, <1>5, <2>1, <2>3, <3>1 DEF Promise!Read, Promise!Closed, Promise!At, Unopened, Handle
    <2>4. CASE s.ops \in {"stdin", "stdout"}
      <3>1. SlotFile(t) = SlotFile(s)
        <4> HIDE DEF t
        <4> QED
          BY <1>7, <2>4 DEF SlotFile
      <3>2. SlotFile(s).file = <<"std">>
        BY <2>4 DEF SlotFile
      <3> QED
        BY <2>1, <2>3, <3>1, <3>2, Kinds
    <2>5. CASE s.ops = "rtc"
      <3>1. s.file_type = RTC_TYPE /\ s.file_position = 0
        BY <1>1, <1>2, <2>1, <2>5 DEF Placed, ReadSensible, RTC_TYPE, DIR_TYPE, FILE_TYPE
      <3>2. r.ret = 0
        BY <2>5 DEF read_result
      <3>3. advance(s, r.ret) = 0
        <4>1. uint32(0) = 0
          BY ImageAssumption, ModSmall DEF uint32
        <4> QED
          BY <3>1, <3>2, <4>1 DEF advance, RTC_TYPE, DIR_TYPE
      <3>4. SlotFile(s) = [file |-> <<RTC_TYPE, s.inode>>, pos |-> 0]
        BY <2>5, <3>1 DEF SlotFile
      <3>5. SlotFile(t) = [file |-> <<RTC_TYPE, s.inode>>, pos |-> 0]
        <4> HIDE DEF t
        <4> QED
          BY <1>7, <2>5, <3>1, <3>3 DEF SlotFile
      <3> QED
        BY <2>1, <2>3, <3>4, <3>5, Kinds
    <2>6. CASE s.ops \in {"file", "dir"} /\ n >= 0
      <3>1. r.ret = r.ret /\ answer(<<"read", fd, n>>, r.ret, [k \in 1 .. int32(r.ret) |-> r.buf[k - 1]])
        BY <1>3, <2>1, <2>6
      <3>2. CASE s.ops = "file"
        <4>1. Promise!ReadBytes(fd, n)
          BY <1>1, <1>4, <1>12, <2>6, <3>1, <3>2, ReadFileKept
        <4>2. KindOf(Handle[fd].file) = "bytes"
          <5>1. SlotFile(s).file = <<FILE_TYPE, s.inode>>
            BY <1>2, <2>1, <3>2 DEF SlotFile, Placed
          <5> QED
            BY <2>1, <5>1, Kinds
        <4> QED
          BY <1>1, <1>5, <2>1, <2>6, <4>1, <4>2 DEF Promise!Read, Promise!Closed, Promise!At, Unopened, Handle
      <3>3. CASE s.ops = "dir"
        <4>1. Promise!ReadName(fd, n)
          <5>1. n <= NAME_SIZE
            BY <1>1, <3>3 DEF ReadSensible
          <5> QED
            BY <1>1, <1>4, <1>12, <2>6, <3>1, <3>3, <5>1, ReadDirKept
        <4>2. KindOf(Handle[fd].file) = "names"
          <5>1. SlotFile(s).file = <<DIR_TYPE, s.inode>>
            BY <1>2, <2>1, <3>3 DEF SlotFile, Placed
          <5> QED
            BY <2>1, <5>1, Kinds
        <4> QED
          BY <1>1, <1>5, <2>1, <2>6, <4>1, <4>2 DEF Promise!Read, Promise!Closed, Promise!At, Unopened, Handle
      <3> QED
        BY <2>6, <3>2, <3>3
    <2>7. CASE s.ops \in {"file", "dir"} /\ ~ (n >= 0)
      <3> DEFINE p == t.file_position
      <3>1. /\ SlotFile(s) = [file |-> <<s.file_type, s.inode>>, pos |-> s.file_position]
            /\ SlotFile(t) = [file |-> <<s.file_type, s.inode>>, pos |-> p]
        <4> HIDE DEF t
        <4> QED
          BY <1>7, <2>7 DEF SlotFile
      <3>2. p \in 0 .. Len(ContentOf(<<s.file_type, s.inode>>))
        <4>1. p \in Nat /\ s.flags # 0 /\ t.flags # 0
          BY <1>6, <1>7, <2>1 DEF Slots
        <4> HIDE DEF t, s
        <4>2. CASE s.ops = "file"
          <5>1. s.file_type = FILE_TYPE /\ s.inode \in DOMAIN inodes /\ p <= inodes[s.inode].length
            BY <1>6, <1>7, <4>1, <4>2 DEF Placed
          <5>2. inodes[s.inode].length \in Nat
            BY <5>1, ImageAssumption
          <5>3. Len(ContentOf(<<FILE_TYPE, s.inode>>)) = inodes[s.inode].length
            BY <5>1, ContentLength
          <5> QED
            BY <4>1, <5>1, <5>2, <5>3
        <4>3. CASE s.ops = "dir"
          <5>1. s.file_type = DIR_TYPE /\ p <= Len(dentries)
            BY <1>6, <1>7, <4>1, <4>3 DEF Placed
          <5>2. Len(dentries) \in Nat
            BY ImageAssumption DEF IsDirectory
          <5>3. Len(ContentOf(<<DIR_TYPE, s.inode>>)) = Len(dentries)
            BY ContentLength
          <5> QED
            BY <4>1, <5>1, <5>2, <5>3
        <4> QED
          BY <2>7, <4>2, <4>3
      <3>3. KindOf(Handle[fd].file) # "device"
        <4>1. s.file_type = FILE_TYPE \/ s.file_type = DIR_TYPE
          BY <1>2, <2>1, <2>7 DEF Placed
        <4> QED
          BY <2>1, <3>1, <4>1, Kinds
      <3> HIDE DEF t, s, p
      <3>4. Handle' = [Handle EXCEPT ![fd].pos = p]
        <4>1. [Handle[fd] EXCEPT !.pos = p] = [file |-> <<s.file_type, s.inode>>, pos |-> p]
          BY <2>1, <3>1
        <4> QED
          BY <2>2, <3>1, <4>1
      <3>5. p \in 0 .. Len(ContentOf(Handle[fd].file))
        BY <2>1, <3>1, <3>2
      <3>6. Promise!ReadNegative(fd)
        BY <3>4, <3>5 DEF Promise!ReadNegative, Handle
      <3>7. n < 0
        BY <2>7, SizeFacts
      <3> QED
        BY <1>1, <1>5, <2>1, <3>3, <3>6, <3>7 DEF Promise!Read, Promise!Closed, Promise!At, Unopened, Handle
    <2>8. s.ops \in {"stdin", "stdout", "rtc", "dir", "file"}
      BY <1>1, <1>12 DEF StdPart
    <2> QED
      BY <2>4, <2>5, <2>6, <2>7, <2>8
  <1> QED
    BY <1>11, <1>12

\* execute, halt, getargs and write keep the promise.
LEMMA OtherKept ==
  ASSUME SlotPart, owner # "shell",
                   \/ \E fd \in Fds, n \in Sizes : write(fd, n)
                   \/ \E n \in Sizes \cup {0} : getargs(n)
                   \/ \E c \in Commands : execute(c)
                   \/ halt
  PROVE  Promise!Next \/ reply'.call = <<"page changed">>
  <1>1. ASSUME UNCHANGED <<owner, file_array>>,
               NEW call \in {<<"write">>, <<"getargs">>, <<"execute">>}, NEW w, NEW bytes,
               answer(call, w, bytes)
        PROVE  Promise!Next
    <2>1. reply'.call = call
      BY <1>1 DEF answer
    <2>2. Handle' = Handle
      BY <1>1, HandleSame
    <2> QED
      BY <1>1, <2>1, <2>2 DEF Promise!Next, Promise!Other, Handle
  <1>2. CASE \E fd \in Fds, n \in Sizes : write(fd, n)
    <2>1. UNCHANGED <<owner, file_array>> /\ \E w : answer(<<"write">>, w, <<>>)
      BY <1>2 DEF write
    <2> QED
      BY <1>1, <2>1
  <1>3. CASE \E n \in Sizes \cup {0} : getargs(n)
    <2>1. UNCHANGED <<owner, file_array>> /\ \E w, bytes : answer(<<"getargs">>, w, bytes)
      BY <1>3, Zenon DEF getargs
    <2> QED
      BY <1>1, <2>1
  <1>4. CASE \E c \in Commands : execute(c)
    <2>1. PICK c \in Commands : execute(c)
      BY <1>4
    <2> DEFINE started == [fd \in Fds |-> first_descriptor(fd, IF fd < STD_FILES THEN 1 ELSE 0)]
    <2>2. \/ UNCHANGED <<owner, file_array>> /\ answer(<<"execute">>, FAILURE, <<>>)
          \/ answer(<<"page changed">>, FAILURE, <<>>)
          \/ owner' = "program" /\ file_array' = started /\ answer(<<"execute">>, SUCCESS, <<>>)
      BY <2>1, Zenon DEF execute
    <2>3. CASE answer(<<"page changed">>, FAILURE, <<>>)
      BY <2>3 DEF answer
    <2>4. CASE owner' = "program" /\ file_array' = started /\ answer(<<"execute">>, SUCCESS, <<>>)
      <3>1. int32(SUCCESS) = 0
        BY Int32 DEF SUCCESS
      <3>2. reply' = [call |-> <<"execute">>, ret |-> 0, data |-> <<>>]
        BY <2>4, <3>1 DEF answer
      <3>3. ASSUME NEW fd \in Fds
            PROVE  Handle'[fd] = IF fd \in 0 .. STD_FILES - 1 THEN [file |-> <<"std">>, pos |-> 0]
                                 ELSE Unopened
        <4>1. fd \in Nat /\ STD_FILES \in Nat
          BY FilesAssumption DEF Fds
        <4>2. Handle'[fd] = IF started[fd].flags = 0 THEN Unopened ELSE SlotFile(started[fd])
          BY <2>4 DEF Handle, Used, FileAt, SlotFile, Unopened
        <4>3. started[fd] = first_descriptor(fd, IF fd < STD_FILES THEN 1 ELSE 0)
          OBVIOUS
        <4> HIDE DEF started
        <4>4. CASE fd < STD_FILES
          <5>1. started[fd].flags = 1 /\ started[fd].ops \in {"stdin", "stdout"}
            BY <4>1, <4>3, <4>4 DEF first_descriptor, first_table
          <5>2. Handle'[fd] = [file |-> <<"std">>, pos |-> 0]
            BY <4>2, <5>1 DEF SlotFile
          <5> QED
            BY <4>1, <4>4, <5>2
        <4>5. CASE ~ (fd < STD_FILES)
          <5>1. started[fd].flags = 0
            BY <4>3, <4>5 DEF first_descriptor
          <5> QED
            BY <4>1, <4>2, <4>5, <5>1
        <4> QED
          BY <4>4, <4>5
      <3>4. Handle' = [fd \in Fds |-> IF fd \in 0 .. STD_FILES - 1
                                      THEN [file |-> <<"std">>, pos |-> 0] ELSE Unopened]
        BY <3>3 DEF Handle
      <3> QED
        BY <2>4, <3>2, <3>4 DEF Promise!Next, Promise!Start, Promise!Gives, Promise!At, Promise!Standard,
                          Promise!Closed, Unopened, Handle
    <2> QED
      BY <1>1, <2>2, <2>3, <2>4
  <1>5. CASE halt
    <2>1. \/ UNCHANGED <<owner, file_array>> /\ answer(<<"execute">>, SUCCESS, <<>>)
          \/ owner' = "nobody" /\ answer(<<"halt">>, SUCCESS, <<>>)
      BY <1>5 DEF halt
    <2>2. CASE owner' = "nobody" /\ answer(<<"halt">>, SUCCESS, <<>>)
      <3>1. int32(SUCCESS) = 0
        BY Int32 DEF SUCCESS
      <3>2. reply' = [call |-> <<"halt">>, ret |-> 0, data |-> <<>>]
        BY <2>2, <3>1 DEF answer
      <3>3. Handle' = [fd \in Fds |-> Unopened]
        BY <2>2 DEF Handle, Unopened
      <3> QED
        BY <2>2, <3>2, <3>3 DEF Promise!Next, Promise!Exit, Promise!Gives, Promise!At, Promise!All,
                          Promise!Closed, Unopened, Handle
    <2> QED
      BY <1>1, <2>1, <2>2
  <1> QED
    BY <1>2, <1>3, <1>4, <1>5

\* A base shell keeps its PCB, and its calls are no steps of the promise.
LEMMA ShellStutters ==
  ASSUME owner = "shell", [Next]_vars
  PROVE  UNCHANGED <<Handle, Reply>>
  <1>1. owner' = "shell"
    <2>1. CASE \E name \in Names : open(name)
      BY <2>1 DEF open
    <2>2. CASE \E fd \in Fds : close(fd)
      BY <2>2 DEF close
    <2>3. CASE \E fd \in Fds, n \in Sizes : read(fd, n) \/ write(fd, n)
      BY <2>3, Zenon DEF read, write
    <2>4. CASE \E n \in Sizes \cup {0} : getargs(n)
      BY <2>4 DEF getargs
    <2>5. CASE \E c \in Commands : execute(c)
      BY <2>5 DEF execute
    <2>6. CASE halt
      BY <2>6 DEF halt
    <2>7. CASE UNCHANGED vars
      BY <2>7 DEF vars
    <2> QED
      BY <2>1, <2>2, <2>3, <2>4, <2>5, <2>6, <2>7 DEF Next
  <1> QED
    BY <1>1 DEF Handle, Reply, NoCall, Unopened

\* Every step of the calls is a step of the promise or leaves the open files and
\* the last reply alone.
LEMMA PromiseStep ==
  ASSUME StdKept, SlotPart, StdPart, ExecuteNotHalfDone', [Next]_vars,
         Len(dentries) < NUM_DENTRIES
  PROVE  [Promise!Next]_<<Handle, Reply>>
  <1>0. CASE owner = "shell"
    BY <1>0, ShellStutters
  <1>1. CASE owner = "program" /\ \E name \in Names : open(name)
    BY <1>1, OpenKept DEF Promise!Next, Handle
  <1>2. CASE owner = "program" /\ \E fd \in Fds : close(fd)
    BY <1>2, CloseKept DEF Promise!Next, Handle
  <1>3. CASE owner = "program" /\ \E fd \in Fds, n \in Sizes : read(fd, n)
    BY <1>3, ReadKept DEF Promise!Next, Handle
  <1>4. CASE /\ owner # "shell"
             /\ \/ \E fd \in Fds, n \in Sizes : write(fd, n)
                \/ \E n \in Sizes \cup {0} : getargs(n)
                \/ \E c \in Commands : execute(c)
                \/ halt
    BY <1>4, OtherKept DEF ExecuteNotHalfDone
  <1>5. CASE UNCHANGED vars
    BY <1>5, HandleSame DEF vars, Reply, NoCall
  <1>6. owner = "nobody" => /\ \A name \in Names : ~ open(name)
                            /\ \A fd \in Fds : ~ close(fd)
                            /\ \A fd \in Fds, n \in Sizes : ~ read(fd, n)
    BY Zenon DEF open, close, read
  <1> QED
    BY <1>0, <1>1, <1>2, <1>3, <1>4, <1>5, <1>6 DEF Next, StdPart

\* The calls of syscall_handler.c keep the promise of OpenFiles for every image,
\* buffer and size, to every program that execute starts, if programs close no
\* standard descriptor (close would free it, whatever it returns) and the directory
\* has room for one more entry: the read behind the last entry of a full directory
\* returns -1 and not 0.
THEOREM FilesImplemented ==
  ASSUME StdKept, Len(dentries) < NUM_DENTRIES
  PROVE  Spec => ImplementsOpenFiles
  <1>1. Init => SlotPart
    BY SlotInit
  <1>2. SlotPart /\ [Next]_vars => SlotPart'
    BY SlotStep
  <1>3. Init => StdPart /\ Promise!Init
    BY PromiseInit
  <1>4. SlotPart /\ StdPart /\ [Next]_vars => StdPart'
    BY StdStep
  <1>5. SlotPart /\ StdPart /\ ExecuteNotHalfDone' /\ [Next]_vars
            => [Promise!Next]_<<Handle, Reply>>
    BY PromiseStep
  <1>6. Spec => []ExecuteNotHalfDone
    BY ExecuteWhole
  <1> QED
    BY <1>1, <1>2, <1>3, <1>4, <1>5, <1>6, PTL DEF Spec, ImplementsOpenFiles,
       Promise!OpenFilesSpec, Handle, Reply
=============================================================================

------------------------- MODULE AddressSpaceProofs -------------------------
(***************************************************************************)
(* Proofs about module AddressSpaces, for every size of the memory and of  *)
(* the tables and every number of spaces: the page tables are trees, apart *)
(* from each other and from the frames that callers hold, and they share   *)
(* one subtree, the kernel's.                                              *)
(***************************************************************************)
EXTENDS AddressSpaces, FiniteSetTheorems, WellFoundedInduction, TLAPS

---------------------------------------------------------------------------
(* Arithmetic.                                                             *)

\* The least element of a set of numbers is one of them.
LEMMA MinOfNat ==
    ASSUME NEW S, S \subseteq Nat, S # {}
    PROVE  Min(S) \in S
  <1> DEFINE R == OpToRel(<, Nat)
  <1>1. PICK x \in S : \A y \in S : ~ (<<y, x>> \in R)
    BY NatLessThanWellFounded, WFMin
  <1>2. \A y \in S : <<y, x>> \in R <=> y < x
    BY <1>1 DEF OpToRel
  <1> HIDE DEF R
  <1>3. \A y \in S : ~ (y < x)
    BY <1>1, <1>2
  <1>4. \A y \in S : x <= y
    BY <1>3
  <1> QED BY <1>4 DEF Min

\* A quotient is the number of times the divisor goes.
LEMMA Quotient ==
    ASSUME NEW a \in Nat, NEW b \in Nat \ {0}
    PROVE  /\ a \div b \in Nat
           /\ b * (a \div b) <= a /\ a < b * (a \div b) + b
  <1> QED OBVIOUS

LEMMA Sizes ==
    /\ Entries \in Nat \ {0} /\ Tables \in Nat \ {0} /\ Tables <= Entries
    /\ DirSize \in Nat \ {0} /\ TopSize \in Nat \ {0} /\ SpaceSize = TopSize * Entries
    /\ DirSize = Entries * Entries /\ TopSize = DirSize * Entries
  <1>1. Entries \in Nat \ {0} /\ Tables \in Nat \ {0} /\ Tables <= Entries
    BY SpaceAssumption
  <1>2. \A a, b \in Nat \ {0} : a * b \in Nat \ {0}
    OBVIOUS
  <1>3. DirSize \in Nat \ {0}
    BY <1>1, <1>2 DEF DirSize
  <1>4. TopSize = DirSize * Entries
    BY DEF TopSize, DirSize
  <1>5. TopSize \in Nat \ {0}
    BY <1>1, <1>2, <1>3, <1>4
  <1> QED BY <1>1, <1>3, <1>4, <1>5 DEF DirSize, SpaceSize, TopSize

\* The digits of a page number are indices of tables.
LEMMA Digits ==
    ASSUME NEW v \in Nat
    PROVE  /\ PDPT_INDEX(v) \in Index /\ PD_INDEX(v) \in Index /\ PT_INDEX(v) \in Index
           /\ v < TopSize => PML4_INDEX(v) = 0
           /\ v \in TopSize .. SpaceSize - 1 => PML4_INDEX(v) \in Index /\ PML4_INDEX(v) >= 1
           /\ 0 \in Index
  <1>1. \A x \in Int : x % Entries \in Index
    BY Sizes DEF Index
  <1>2. v \div DirSize \in Int /\ v \div Entries \in Int
    BY Sizes
  <1>3. PDPT_INDEX(v) \in Index /\ PD_INDEX(v) \in Index /\ PT_INDEX(v) \in Index
    BY <1>1, <1>2 DEF PDPT_INDEX, PD_INDEX, PT_INDEX
  <1> DEFINE q == v \div TopSize
  <1>4. q \in Nat /\ TopSize * q <= v /\ v < TopSize * q + TopSize
    BY Sizes, Quotient
  <1> HIDE DEF q
  <1>5. \A k \in Nat : q >= k => TopSize * q >= TopSize * k
    BY <1>4, Sizes
  <1>6. v < TopSize => q = 0
    <2>1. TopSize * 1 = TopSize
      BY Sizes
    <2> QED BY <1>4, <1>5, <2>1, Sizes
  <1>7. v >= TopSize => q >= 1
    <2>1. TopSize * 0 = 0
      BY Sizes
    <2> QED BY <1>4, <2>1, Sizes
  <1>8. v < TopSize * Entries => q < Entries
    BY <1>4, <1>5, Sizes
  <1>9. v \in TopSize .. SpaceSize - 1 => q \in Index /\ q >= 1
    BY <1>4, <1>7, <1>8, Sizes DEF Index
  <1> QED BY <1>3, <1>6, <1>9, Sizes DEF PML4_INDEX, q, Index

\* The number of times the divisor goes is the only one that fits.
LEMMA QuotientIs ==
    ASSUME NEW a \in Nat, NEW b \in Nat \ {0}, NEW q \in Nat, b * q <= a, a < b * q + b
    PROVE  a \div b = q
  <1> DEFINE x == a \div b
  <1>1. x \in Nat /\ b * x <= a /\ a < b * x + b
    BY Quotient
  <1> HIDE DEF x
  <1>2. \A y, z \in Nat : y < z => b * y + b <= b * z
    <2>1. ASSUME NEW y \in Nat, NEW z \in Nat, y < z PROVE b * y + b <= b * z
      <3>1. PICK d \in Nat : z = y + 1 + d
        <4>1. z - y - 1 \in Nat /\ z = y + 1 + (z - y - 1)
          BY <2>1
        <4> QED BY <4>1
      <3>2. b * z = b * y + b + b * d
        BY <3>1
      <3>3. b * d \in Nat /\ b * y \in Nat
        OBVIOUS
      <3> QED BY <3>2, <3>3
    <2> QED BY <2>1
  <1>3. b * x \in Nat /\ b * q \in Nat
    BY <1>1
  <1>4. ~ (x < q) /\ ~ (q < x)
    BY <1>1, <1>2, <1>3
  <1> QED BY <1>1, <1>4 DEF x

\* A page number from its digits.
LEMMA DigitsMake ==
    ASSUME NEW v \in Nat
    PROVE  /\ v \div Entries \in Nat /\ v \div DirSize \in Nat /\ PML4_INDEX(v) \in Nat
           /\ v = Entries * (v \div Entries) + PT_INDEX(v)
           /\ v \div Entries = Entries * (v \div DirSize) + PD_INDEX(v)
           /\ v \div DirSize = Entries * PML4_INDEX(v) + PDPT_INDEX(v)
  <1> DEFINE e == Entries
             q1 == v \div e
             q2 == q1 \div e
             q3 == q2 \div e
  <1>1. \A x \in Nat, b \in Nat \ {0} : x = b * (x \div b) + (x % b)
    OBVIOUS
  <1>2. /\ q1 \in Nat /\ e * q1 <= v /\ v < e * q1 + e
        /\ q2 \in Nat /\ e * q2 <= q1 /\ q1 < e * q2 + e
        /\ q3 \in Nat /\ e * q3 <= q2 /\ q2 < e * q3 + e
        /\ e \in Nat \ {0}
    BY Sizes, Quotient
  <1>3. /\ v = e * q1 + (v % e) /\ q1 = e * q2 + (q1 % e) /\ q2 = e * q3 + (q2 % e)
    BY <1>1, <1>2
  <1>4. ASSUME NEW x \in Nat, NEW a \in Nat, NEW n \in Nat, NEW b \in Nat \ {0},
               b * a <= x, x < b * a + b, e * n <= a, a < e * n + e
        PROVE  (b * e) * n <= x /\ x < (b * e) * n + b * e
    <2>1. \A y, z \in Nat : y <= z => b * y <= b * z
      <3>1. ASSUME NEW y \in Nat, NEW z \in Nat, y <= z PROVE b * y <= b * z
        <4>1. z - y \in Nat /\ z = y + (z - y)
          BY <3>1
        <4>2. b * z = b * y + b * (z - y) /\ b * (z - y) \in Nat /\ b * y \in Nat
          BY <4>1
        <4> QED BY <4>2
      <3> QED BY <3>1
    <2>2. /\ e * n \in Nat /\ a \in Nat /\ a + 1 \in Nat /\ e * n + e \in Nat
          /\ e * n <= a /\ a + 1 <= e * n + e
      BY <1>2, <1>4
    <2> DEFINE lo == e * n
               hi == e * n + e
               up == a + 1
    <2>3. b * lo <= b * a /\ b * up <= b * hi
      <3> HIDE DEF lo, hi, up
      <3>1. lo \in Nat /\ hi \in Nat /\ up \in Nat /\ lo <= a /\ up <= hi
        BY <2>2 DEF lo, hi, up
      <3> QED BY <2>1, <3>1
    <2>4. b * (e * n) = (b * e) * n /\ b * (e * n + e) = (b * e) * n + b * e
      BY <1>2
    <2>5. b * (a + 1) = b * a + b
      OBVIOUS
    <2>6. b * a \in Nat /\ (b * e) * n \in Nat /\ b * e \in Nat
      BY <1>2
    <2> QED BY <1>4, <2>3, <2>4, <2>5, <2>6
  <1> HIDE DEF q1, q2, q3, e
  <1>5. DirSize * q2 <= v /\ v < DirSize * q2 + DirSize
    BY <1>2, <1>4, Sizes DEF e
  <1>6. TopSize * q3 <= v /\ v < TopSize * q3 + TopSize
    BY <1>2, <1>4, <1>5, Sizes DEF e
  <1>7. v \div DirSize = q2 /\ v \div TopSize = q3
    BY <1>2, <1>5, <1>6, QuotientIs, Sizes
  <1> QED BY <1>2, <1>3, <1>7 DEF PML4_INDEX, PDPT_INDEX, PD_INDEX, PT_INDEX, q1, e

LEMMA DigitsTell ==
    ASSUME NEW v \in Nat, NEW x \in Nat, PML4_INDEX(v) = PML4_INDEX(x),
           PDPT_INDEX(v) = PDPT_INDEX(x), PD_INDEX(v) = PD_INDEX(x)
    PROVE  /\ v \div Entries = x \div Entries
           /\ PT_INDEX(v) = PT_INDEX(x) => v = x
  <1>1. v \div DirSize = x \div DirSize
    BY DigitsMake
  <1>2. v \div Entries = x \div Entries
    BY <1>1, DigitsMake
  <1> QED BY <1>2, DigitsMake

---------------------------------------------------------------------------
(* The inductive invariant.  Every page of the memory has a label: its     *)
(* role, and for a page below a top table the one entry it hangs under and *)
(* the top table it belongs to.  The role of a child is its table's less   *)
(* one.                                                                    *)
(*      4, 3, 2, 1   the tables of a space, from the top                   *)
(*      0            a page that a space maps                              *)
(*      13, 12, 11   the kernel's tables below entry 0 of the top tables   *)
(*      20           a frame that a caller of alloc_frame holds            *)
(*      30           none of these                                         *)

Roles == {0, 1, 2, 3, 4, 11, 12, 13, 20, 30}
Label(role, by, ix, own) == [role |-> role, by |-> by, ix |-> ix, own |-> own]

Memory == PagesOf(ram)

\* The entries the labels speak of.
IsBranch(lab, t, i) ==
    /\ t \in Memory /\ i \in Index
    /\ lab[t].role \in {1, 2, 3, 12, 13} \/ (lab[t].role = 4 /\ i # 0)

\* What an entry leads to is labelled so; only kernel directories have huge pages.
DownOK(m, lab) ==
    \A t \in Memory, i \in Index : IsBranch(lab, t, i) /\ m[t][i].present =>
        IF m[t][i].huge THEN lab[t].role = 12
        ELSE /\ m[t][i].at \in Memory
             /\ lab[m[t][i].at] = Label(lab[t].role - 1, t, i, lab[t].own)

\* What is labelled so hangs there.
UpOK(m, lab) ==
    \A f \in Memory : lab[f].role \in {0, 1, 2, 3, 11, 12} =>
        /\ IsBranch(lab, lab[f].by, lab[f].ix)
        /\ lab[lab[f].by].role = lab[f].role + 1 /\ lab[lab[f].by].own = lab[f].own
        /\ m[lab[f].by][lab[f].ix] = Present(f)

\* The top tables share entry 0; the kernel's has no other.
TopOK(m, R, lab) ==
    /\ \A f \in Memory : (lab[f].role = 4 <=> f \in R) /\ (lab[f].role = 13 <=> f = pdpt_table)
    /\ \A r \in R : r \in Memory /\ lab[r].own = r /\ m[r][0] = Present(pdpt_table)
    /\ pml4_table \in R
    /\ \A i \in Index : i # 0 => ~ m[pml4_table][i].present

\* The frames in use are those with a role; H are the frames that callers hold.
UseOK(u, H, lab) ==
    /\ \A f \in Memory : lab[f].role = 20 <=> f \in H
    /\ u \subseteq Frames /\ H \subseteq u
    /\ \A f \in Frames : f \in u <=> lab[f].role # 30
    /\ \A f \in Memory \ Frames :
          lab[f].role \in {4, 12, 13, 30} /\ (lab[f].role = 4 => f = pml4_table)

FormOK(m, lab) ==
    /\ DOMAIN m = Memory /\ DOMAIN lab = Memory
    /\ \A f \in Memory : DOMAIN m[f] = Index /\ lab[f].role \in Roles

Tree(m, u, R, H, lab) ==
    FormOK(m, lab) /\ DownOK(m, lab) /\ UpOK(m, lab) /\ TopOK(m, R, lab) /\ UseOK(u, H, lab)

LEMMA Layout ==
    ASSUME ram \in Nat
    PROVE  /\ Frames \subseteq Memory /\ 0 \notin Frames /\ 0 \in Memory
           /\ pml4_table \in Memory \ Frames /\ pdpt_table \in Memory \ Frames
           /\ \A t \in 0 .. Tables - 1 : pd_table(t) \in Memory \ Frames
           /\ Frames \subseteq Nat /\ Memory \subseteq Nat
  <1>1. FirstFrame = 4 + Tables /\ FirstFrame \in Nat
    BY Sizes DEF FirstFrame, Bitmap
  <1> DEFINE top == IF ram > FirstFrame THEN ram ELSE FirstFrame
  <1>2. Max({ram, FirstFrame}) = top
    <2>1. top \in {ram, FirstFrame} /\ \A y \in {ram, FirstFrame} : top >= y
      BY <1>1
    <2>2. \A x \in {ram, FirstFrame} : (\A y \in {ram, FirstFrame} : x >= y) => x = top
      BY <1>1
    <2> HIDE DEF top
    <2> QED BY <2>1, <2>2 DEF Max
  <1>3. Memory = 0 .. top
    BY <1>2 DEF Memory, PagesOf
  <1> QED BY <1>1, <1>3, Sizes DEF Frames, pml4_table, pdpt_table, pd_table

LEMMA Allocated ==
    ASSUME ram \in Nat, NEW u, AllocFrame(u) # 0
    PROVE  AllocFrame(u) \in Frames \ u
  <1>1. Frames \ u # {} /\ AllocFrame(u) = Min(Frames \ u)
    BY DEF AllocFrame
  <1>2. Frames \ u \subseteq Nat
    BY Layout
  <1> QED BY <1>1, <1>2, MinOfNat

---------------------------------------------------------------------------
(* What changes in the tables, entry by entry.                             *)

\* Hanging table f below entry i of table t, which is neither a child of the
\* tree nor a table of it yet.
AddLabel(lab, f, t, i) == [lab EXCEPT ![f] = Label(lab[t].role - 1, t, i, lab[t].own)]

LEMMA AddEntries ==
    ASSUME NEW m, NEW f \in Memory, NEW t \in Memory, NEW i \in Index, NEW content,
           DOMAIN m = Memory, \A x \in Memory : DOMAIN m[x] = Index, DOMAIN content = Index,
           NEW m2, m2 = [m EXCEPT ![f] = content, ![t][i] = Present(f)]
    PROVE  /\ DOMAIN m2 = Memory /\ \A x \in Memory : DOMAIN m2[x] = Index
           /\ \A x \in Memory, j \in Index : m2[x][j] =
                IF x = t /\ j = i THEN Present(f) ELSE IF x = f THEN content[j] ELSE m[x][j]
  <1>1. DOMAIN m2 = Memory
    OBVIOUS
  <1> DEFINE m1 == [m EXCEPT ![f] = content]
  <1>2. /\ DOMAIN m1 = Memory /\ \A x \in Memory : DOMAIN m1[x] = Index
        /\ \A x \in Memory : m1[x] = IF x = f THEN content ELSE m[x]
    OBVIOUS
  <1>3. m2 = [m1 EXCEPT ![t] = [m1[t] EXCEPT ![i] = Present(f)]]
    OBVIOUS
  <1> HIDE DEF m1
  <1>4. /\ m2[t] = [m1[t] EXCEPT ![i] = Present(f)]
        /\ \A x \in Memory : x # t => m2[x] = m1[x]
    BY <1>2, <1>3
  <1>5. \A j \in Index : m2[t][j] = IF j = i THEN Present(f) ELSE m1[t][j]
    BY <1>2, <1>4
  <1>6. \A x \in Memory : DOMAIN m2[x] = Index
    BY <1>2, <1>4
  <1> QED BY <1>1, <1>2, <1>4, <1>5, <1>6

\* A frame that is free has no role.
LEMMA FreeRole ==
    ASSUME ram \in Nat, NEW m, NEW u, NEW R, NEW H, NEW lab, Tree(m, u, R, H, lab),
           NEW f \in Frames \ u
    PROVE  f \in Memory /\ lab[f].role = 30
  <1> QED BY Layout DEF Tree, UseOK

\* Hanging a new table in the tree.
LEMMA HangTable ==
    ASSUME ram \in Nat, NEW m, NEW u, NEW R, NEW H, NEW lab, Tree(m, u, R, H, lab),
           NEW t, NEW i, IsBranch(lab, t, i), lab[t].role # 1, t # pml4_table,
           ~ m[t][i].present \/ m[t][i].huge,
           NEW f \in Frames \ u, NEW content, DOMAIN content = Index,
           lab[t].role = 12 \/ \A j \in Index : ~ content[j].present,
           NEW m2, m2 = [m EXCEPT ![f] = content, ![t][i] = Present(f)]
    PROVE  Tree(m2, u \cup {f}, R, H, AddLabel(lab, f, t, i))
  <1> DEFINE lab2 == AddLabel(lab, f, t, i)
             u2 == u \cup {f}
  <1>1. t \in Memory /\ i \in Index /\ f \in Memory /\ lab[f].role = 30 /\ f # t
    BY FreeRole DEF IsBranch
  <1>2. /\ DOMAIN m2 = Memory /\ \A x \in Memory : DOMAIN m2[x] = Index
        /\ \A x \in Memory, j \in Index : m2[x][j] =
             IF x = t /\ j = i THEN Present(f) ELSE IF x = f THEN content[j] ELSE m[x][j]
    BY <1>1, AddEntries DEF Tree, FormOK
  <1>3. /\ DOMAIN lab2 = Memory /\ lab2[f] = Label(lab[t].role - 1, t, i, lab[t].own)
        /\ \A x \in Memory : x # f => lab2[x] = lab[x]
    BY <1>1 DEF Tree, FormOK, AddLabel
  <1>4. /\ lab2[f].role = lab[t].role - 1 /\ lab2[f].by = t /\ lab2[f].ix = i
        /\ lab2[f].own = lab[t].own
    BY <1>3 DEF Label
  <1>5. lab[t].role \in {2, 3, 4, 12, 13} /\ lab2[f].role \in {1, 2, 3, 11, 12}
    BY <1>4 DEF IsBranch
  <1>6. Present(f).at = f /\ Present(f).present /\ ~ Present(f).huge
    BY DEF Present
  <1> HIDE DEF lab2
  <1>7. FormOK(m2, lab2)
    BY <1>2, <1>3, <1>5 DEF Tree, FormOK, Roles
  <1>8. DownOK(m2, lab2)
    <2>1. ASSUME NEW x \in Memory, NEW j \in Index, IsBranch(lab2, x, j), m2[x][j].present
          PROVE  IF m2[x][j].huge THEN lab2[x].role = 12
                 ELSE /\ m2[x][j].at \in Memory
                      /\ lab2[m2[x][j].at] = Label(lab2[x].role - 1, x, j, lab2[x].own)
      <3>1. CASE x = t /\ j = i
        BY <1>1, <1>2, <1>3, <1>6, <3>1
      <3>2. CASE x = f
        BY <1>1, <1>2, <1>4, <1>5, <2>1, <3>2 DEF IsBranch
      <3>3. CASE ~ (x = t /\ j = i) /\ x # f
        <4>1. m2[x][j] = m[x][j] /\ lab2[x] = lab[x]
          BY <1>2, <1>3, <3>3
        <4>2. IsBranch(lab, x, j)
          BY <2>1, <4>1 DEF IsBranch
        <4>3. IF m[x][j].huge THEN lab[x].role = 12
              ELSE /\ m[x][j].at \in Memory
                   /\ lab[m[x][j].at] = Label(lab[x].role - 1, x, j, lab[x].own)
          BY <2>1, <4>1, <4>2 DEF Tree, DownOK
        <4>4. CASE m[x][j].huge
          BY <4>1, <4>3, <4>4
        <4>5. CASE ~ m[x][j].huge
          <5>1. lab[m[x][j].at].role = lab[x].role - 1
            BY <4>3, <4>5 DEF Label
          <5>2. m[x][j].at # f
            BY <1>1, <4>2, <5>1 DEF IsBranch
          <5> QED BY <1>3, <4>1, <4>3, <4>5, <5>2
        <4> QED BY <4>4, <4>5
      <3> QED BY <3>1, <3>2, <3>3
    <2> QED BY <2>1 DEF DownOK
  <1>9. UpOK(m2, lab2)
    <2>1. ASSUME NEW x \in Memory, lab2[x].role \in {0, 1, 2, 3, 11, 12}
          PROVE  /\ IsBranch(lab2, lab2[x].by, lab2[x].ix)
                 /\ lab2[lab2[x].by].role = lab2[x].role + 1
                 /\ lab2[lab2[x].by].own = lab2[x].own
                 /\ m2[lab2[x].by][lab2[x].ix] = Present(x)
      <3>1. CASE x = f
        <4>1. lab2[t] = lab[t]
          BY <1>1, <1>3
        <4> QED BY <1>1, <1>2, <1>4, <1>5, <3>1, <4>1 DEF IsBranch
      <3>2. CASE x # f
        <4>1. lab2[x] = lab[x]
          BY <1>3, <3>2
        <4>2. /\ IsBranch(lab, lab[x].by, lab[x].ix)
              /\ lab[lab[x].by].role = lab[x].role + 1 /\ lab[lab[x].by].own = lab[x].own
              /\ m[lab[x].by][lab[x].ix] = Present(x)
          BY <2>1, <4>1 DEF Tree, UpOK
        <4>3. lab[x].by # f
          BY <1>1, <2>1, <4>1, <4>2
        <4>4. lab2[lab[x].by] = lab[lab[x].by]
          BY <1>3, <4>2, <4>3 DEF IsBranch
        <4>5. ~ (lab[x].by = t /\ lab[x].ix = i)
          BY <4>2 DEF Present
        <4>6. m2[lab[x].by][lab[x].ix] = m[lab[x].by][lab[x].ix]
          BY <1>2, <4>2, <4>3, <4>5 DEF IsBranch
        <4> QED BY <4>1, <4>2, <4>4, <4>6 DEF IsBranch
      <3> QED BY <3>1, <3>2
    <2> QED BY <2>1 DEF UpOK
  <1>10. TopOK(m2, R, lab2)
    <2>1. \A x \in Memory : (lab2[x].role = 4 <=> x \in R) /\ (lab2[x].role = 13 <=> x = pdpt_table)
      BY <1>1, <1>3, <1>5 DEF Tree, TopOK
    <2>2. ASSUME NEW r \in R
          PROVE  r \in Memory /\ lab2[r].own = r /\ m2[r][0] = Present(pdpt_table)
      <3>1. r \in Memory /\ lab[r].role = 4 /\ r # f
        BY <1>1 DEF Tree, TopOK
      <3>2. ~ (r = t /\ 0 = i)
        BY <3>1 DEF IsBranch
      <3>3. m2[r][0] = m[r][0]
        BY <1>2, <3>1, <3>2, Digits DEF Index
      <3> QED BY <1>3, <3>1, <3>3 DEF Tree, TopOK
    <2>3. \A j \in Index : j # 0 => ~ m2[pml4_table][j].present
      <3>1. pml4_table \in Memory /\ pml4_table # f
        BY Layout
      <3> QED BY <1>2, <3>1 DEF Tree, TopOK
    <2> QED BY <2>1, <2>2, <2>3 DEF Tree, TopOK
  <1>11. UseOK(u2, H, lab2)
    <2>1. UseOK(u, H, lab)
      BY DEF Tree
    <2>2. \A x \in Memory : lab2[x].role = 20 <=> x \in H
      BY <1>1, <1>3, <1>5, <2>1 DEF UseOK
    <2>3. \A x \in Frames : x \in u2 <=> lab2[x].role # 30
      BY <1>1, <1>3, <1>5, <2>1, Layout DEF UseOK
    <2>4. \A x \in Memory \ Frames :
             lab2[x].role \in {4, 12, 13, 30} /\ (lab2[x].role = 4 => x = pml4_table)
      BY <1>3, <2>1 DEF UseOK
    <2> QED BY <2>1, <2>2, <2>3, <2>4 DEF UseOK
  <1> QED BY <1>7, <1>8, <1>9, <1>10, <1>11 DEF Tree, lab2

\* Writing one entry of a table.
LEMMA WriteEntry ==
    ASSUME NEW m, NEW t \in Memory, NEW i \in Index, NEW entry,
           DOMAIN m = Memory, \A x \in Memory : DOMAIN m[x] = Index,
           NEW m2, m2 = [m EXCEPT ![t][i] = entry]
    PROVE  /\ DOMAIN m2 = Memory /\ \A x \in Memory : DOMAIN m2[x] = Index
           /\ \A x \in Memory, j \in Index : m2[x][j] =
                IF x = t /\ j = i THEN entry ELSE m[x][j]
  <1>1. DOMAIN m2 = Memory /\ m2[t] = [m[t] EXCEPT ![i] = entry]
    OBVIOUS
  <1>2. \A x \in Memory : x # t => m2[x] = m[x]
    OBVIOUS
  <1> QED BY <1>1, <1>2

\* What the kernel maps in its small tables has no label.
LEMMA KernelEntry ==
    ASSUME NEW m, NEW u, NEW R, NEW H, NEW lab, Tree(m, u, R, H, lab),
           NEW t \in Memory, NEW i \in Index, lab[t].role = 11,
           NEW entry, NEW m2, m2 = [m EXCEPT ![t][i] = entry]
    PROVE  Tree(m2, u, R, H, lab)
  <1>1. /\ DOMAIN m2 = Memory /\ \A x \in Memory : DOMAIN m2[x] = Index
        /\ \A x \in Memory, j \in Index : m2[x][j] = IF x = t /\ j = i THEN entry ELSE m[x][j]
    BY WriteEntry DEF Tree, FormOK
  <1>2. \A x \in Memory, j \in Index : x # t => m2[x][j] = m[x][j]
    BY <1>1
  <1>3. \A x, j : IsBranch(lab, x, j) => x \in Memory /\ j \in Index /\ m2[x][j] = m[x][j]
    BY <1>2 DEF IsBranch
  <1>4. FormOK(m2, lab)
    BY <1>1 DEF Tree, FormOK
  <1>5. DownOK(m2, lab)
    BY <1>3 DEF Tree, DownOK
  <1>6. UpOK(m2, lab)
    BY <1>3 DEF Tree, UpOK
  <1>7. TopOK(m2, R, lab)
    <2>1. \A r \in R : r \in Memory /\ r # t /\ m2[r][0] = m[r][0]
      BY <1>2, Digits DEF Tree, TopOK, Index
    <2>2. \A j \in Index : m2[pml4_table][j] = m[pml4_table][j]
      BY <1>2, <2>1 DEF Tree, TopOK
    <2> QED BY <2>1, <2>2 DEF Tree, TopOK
  <1> QED BY <1>4, <1>5, <1>6, <1>7 DEF Tree

\* Hanging a frame that was held below an empty entry of a space's small table.
LEMMA HangPage ==
    ASSUME ram \in Nat, NEW m, NEW u, NEW R, NEW H, NEW lab, Tree(m, u, R, H, lab),
           NEW t \in Memory, NEW i \in Index, lab[t].role = 1, ~ m[t][i].present,
           NEW f \in H, NEW m2, m2 = [m EXCEPT ![t][i] = Present(f)]
    PROVE  Tree(m2, u, R, H \ {f}, AddLabel(lab, f, t, i))
  <1> DEFINE lab2 == AddLabel(lab, f, t, i)
  <1>1. f \in Memory /\ lab[f].role = 20 /\ f # t /\ f \in Frames
    BY Layout DEF Tree, UseOK
  <1>2. /\ DOMAIN m2 = Memory /\ \A x \in Memory : DOMAIN m2[x] = Index
        /\ \A x \in Memory, j \in Index : m2[x][j] =
             IF x = t /\ j = i THEN Present(f) ELSE m[x][j]
    BY WriteEntry DEF Tree, FormOK
  <1>3. /\ DOMAIN lab2 = Memory /\ lab2[f] = Label(0, t, i, lab[t].own)
        /\ \A x \in Memory : x # f => lab2[x] = lab[x]
    BY <1>1 DEF Tree, FormOK, AddLabel
  <1>4. lab2[f].role = 0 /\ lab2[f].by = t /\ lab2[f].ix = i /\ lab2[f].own = lab[t].own
    BY <1>3 DEF Label
  <1>5. Present(f).at = f /\ Present(f).present /\ ~ Present(f).huge
    BY DEF Present
  <1> HIDE DEF lab2
  <1>6. FormOK(m2, lab2)
    BY <1>2, <1>3, <1>4 DEF Tree, FormOK, Roles
  <1>7. DownOK(m2, lab2)
    <2>1. ASSUME NEW x \in Memory, NEW j \in Index, IsBranch(lab2, x, j), m2[x][j].present
          PROVE  IF m2[x][j].huge THEN lab2[x].role = 12
                 ELSE /\ m2[x][j].at \in Memory
                      /\ lab2[m2[x][j].at] = Label(lab2[x].role - 1, x, j, lab2[x].own)
      <3>1. CASE x = t /\ j = i
        <4>1. lab2[t] = lab[t] /\ m2[x][j] = Present(f)
          BY <1>1, <1>2, <1>3, <3>1
        <4> QED BY <1>1, <1>3, <1>5, <3>1, <4>1
      <3>2. CASE ~ (x = t /\ j = i)
        <4>1. x # f
          BY <1>4, <2>1 DEF IsBranch
        <4>2. m2[x][j] = m[x][j] /\ lab2[x] = lab[x]
          BY <1>2, <1>3, <3>2, <4>1
        <4>3. IsBranch(lab, x, j)
          BY <2>1, <4>2 DEF IsBranch
        <4>4. IF m[x][j].huge THEN lab[x].role = 12
              ELSE /\ m[x][j].at \in Memory
                   /\ lab[m[x][j].at] = Label(lab[x].role - 1, x, j, lab[x].own)
          BY <2>1, <4>2, <4>3 DEF Tree, DownOK
        <4>5. CASE m[x][j].huge
          BY <4>2, <4>4, <4>5
        <4>6. CASE ~ m[x][j].huge
          <5>1. lab[m[x][j].at].role = lab[x].role - 1
            BY <4>4, <4>6 DEF Label
          <5>2. m[x][j].at # f
            BY <1>1, <4>3, <5>1 DEF IsBranch
          <5> QED BY <1>3, <4>2, <4>4, <4>6, <5>2
        <4> QED BY <4>5, <4>6
      <3> QED BY <3>1, <3>2
    <2> QED BY <2>1 DEF DownOK
  <1>8. UpOK(m2, lab2)
    <2>1. ASSUME NEW x \in Memory, lab2[x].role \in {0, 1, 2, 3, 11, 12}
          PROVE  /\ IsBranch(lab2, lab2[x].by, lab2[x].ix)
                 /\ lab2[lab2[x].by].role = lab2[x].role + 1
                 /\ lab2[lab2[x].by].own = lab2[x].own
                 /\ m2[lab2[x].by][lab2[x].ix] = Present(x)
      <3>1. CASE x = f
        <4>1. lab2[t] = lab[t]
          BY <1>1, <1>3
        <4> QED BY <1>1, <1>2, <1>4, <3>1, <4>1 DEF IsBranch
      <3>2. CASE x # f
        <4>1. lab2[x] = lab[x]
          BY <1>3, <3>2
        <4>2. /\ IsBranch(lab, lab[x].by, lab[x].ix)
              /\ lab[lab[x].by].role = lab[x].role + 1 /\ lab[lab[x].by].own = lab[x].own
              /\ m[lab[x].by][lab[x].ix] = Present(x)
          BY <2>1, <4>1 DEF Tree, UpOK
        <4>3. lab[x].by # f
          BY <1>1, <2>1, <4>1, <4>2
        <4>4. lab2[lab[x].by] = lab[lab[x].by]
          BY <1>3, <4>2, <4>3 DEF IsBranch
        <4>5. ~ (lab[x].by = t /\ lab[x].ix = i)
          BY <4>2 DEF Present
        <4>6. m2[lab[x].by][lab[x].ix] = m[lab[x].by][lab[x].ix]
          BY <1>2, <4>2, <4>5 DEF IsBranch
        <4> QED BY <4>1, <4>2, <4>4, <4>6 DEF IsBranch
      <3> QED BY <3>1, <3>2
    <2> QED BY <2>1 DEF UpOK
  <1>9. TopOK(m2, R, lab2)
    <2>1. \A x \in Memory : (lab2[x].role = 4 <=> x \in R) /\ (lab2[x].role = 13 <=> x = pdpt_table)
      BY <1>1, <1>3, <1>4 DEF Tree, TopOK
    <2>2. ASSUME NEW r \in R
          PROVE  r \in Memory /\ lab2[r] = lab[r] /\ \A j \in Index : m2[r][j] = m[r][j]
      <3>1. r \in Memory /\ lab[r].role = 4
        BY DEF Tree, TopOK
      <3> QED BY <1>1, <1>2, <1>3, <3>1
    <2> QED BY <2>1, <2>2, Digits DEF Tree, TopOK, Index
  <1>10. UseOK(u, H \ {f}, lab2)
    <2>1. UseOK(u, H, lab)
      BY DEF Tree
    <2>2. \A x \in Memory : lab2[x].role = 20 <=> x \in H \ {f}
      BY <1>1, <1>3, <1>4, <2>1 DEF UseOK
    <2>3. \A x \in Frames : x \in u <=> lab2[x].role # 30
      BY <1>1, <1>3, <1>4, <2>1, Layout DEF UseOK
    <2>4. \A x \in Memory \ Frames :
             lab2[x].role \in {4, 12, 13, 30} /\ (lab2[x].role = 4 => x = pml4_table)
      BY <1>1, <1>3, <2>1 DEF UseOK
    <2> QED BY <2>1, <2>2, <2>3, <2>4 DEF UseOK
  <1> QED BY <1>6, <1>7, <1>8, <1>9, <1>10 DEF Tree, lab2

\* A frame that a caller takes.
HoldLabel(lab, f) == [lab EXCEPT ![f] = Label(20, 0, 0, 0)]

LEMMA HoldFrame ==
    ASSUME ram \in Nat, NEW m, NEW u, NEW R, NEW H, NEW lab, Tree(m, u, R, H, lab),
           NEW f \in Frames \ u
    PROVE  Tree(m, u \cup {f}, R, H \cup {f}, HoldLabel(lab, f))
  <1> DEFINE lab2 == HoldLabel(lab, f)
             u2 == u \cup {f}
             H2 == H \cup {f}
  <1>1. f \in Memory /\ lab[f].role = 30
    BY FreeRole
  <1>2. /\ DOMAIN lab2 = Memory /\ lab2[f].role = 20
        /\ \A x \in Memory : x # f => lab2[x] = lab[x]
    BY <1>1 DEF Tree, FormOK, HoldLabel, Label
  <1> HIDE DEF lab2
  <1>3. \A x, j : IsBranch(lab2, x, j) <=> IsBranch(lab, x, j)
    BY <1>1, <1>2 DEF IsBranch
  <1>4. \A x, j : IsBranch(lab, x, j) => x \in Memory /\ j \in Index /\ lab2[x] = lab[x]
    BY <1>1, <1>2 DEF IsBranch
  <1>5. FormOK(m, lab2)
    BY <1>2 DEF Tree, FormOK, Roles
  <1>6. DownOK(m, lab2)
    <2>1. ASSUME NEW x \in Memory, NEW j \in Index, IsBranch(lab2, x, j), m[x][j].present
          PROVE  IF m[x][j].huge THEN lab2[x].role = 12
                 ELSE /\ m[x][j].at \in Memory
                      /\ lab2[m[x][j].at] = Label(lab2[x].role - 1, x, j, lab2[x].own)
      <3>1. IsBranch(lab, x, j) /\ lab2[x] = lab[x]
        BY <1>3, <1>4, <2>1
      <3>2. IF m[x][j].huge THEN lab[x].role = 12
            ELSE /\ m[x][j].at \in Memory
                 /\ lab[m[x][j].at] = Label(lab[x].role - 1, x, j, lab[x].own)
        BY <2>1, <3>1 DEF Tree, DownOK
      <3>3. CASE m[x][j].huge
        BY <3>1, <3>2, <3>3
      <3>4. CASE ~ m[x][j].huge
        <4>1. lab[m[x][j].at].role = lab[x].role - 1
          BY <3>2, <3>4 DEF Label
        <4>2. m[x][j].at # f
          BY <1>1, <3>1, <4>1 DEF IsBranch
        <4> QED BY <1>2, <3>1, <3>2, <3>4, <4>2
      <3> QED BY <3>3, <3>4
    <2> QED BY <2>1 DEF DownOK
  <1>7. UpOK(m, lab2)
    <2>1. ASSUME NEW x \in Memory, lab2[x].role \in {0, 1, 2, 3, 11, 12}
          PROVE  /\ IsBranch(lab2, lab2[x].by, lab2[x].ix)
                 /\ lab2[lab2[x].by].role = lab2[x].role + 1
                 /\ lab2[lab2[x].by].own = lab2[x].own
                 /\ m[lab2[x].by][lab2[x].ix] = Present(x)
      <3>1. lab2[x] = lab[x]
        BY <1>2, <2>1
      <3> QED BY <1>3, <1>4, <2>1, <3>1 DEF Tree, UpOK
    <2> QED BY <2>1 DEF UpOK
  <1>8. TopOK(m, R, lab2)
    <2>1. TopOK(m, R, lab)
      BY DEF Tree
    <2>2. \A x \in Memory : (lab2[x].role = 4 <=> x \in R) /\ (lab2[x].role = 13 <=> x = pdpt_table)
      BY <1>1, <1>2, <2>1 DEF TopOK
    <2>3. \A r \in R : r \in Memory /\ lab2[r] = lab[r]
      BY <1>1, <1>2, <2>1 DEF TopOK
    <2> QED BY <2>1, <2>2, <2>3 DEF TopOK
  <1>9. UseOK(u2, H2, lab2)
    <2>1. UseOK(u, H, lab)
      BY DEF Tree
    <2>2. \A x \in Memory : lab2[x].role = 20 <=> x \in H2
      BY <1>1, <1>2, <2>1 DEF UseOK
    <2>3. \A x \in Frames : x \in u2 <=> lab2[x].role # 30
      BY <1>1, <1>2, <2>1, Layout DEF UseOK
    <2>4. \A x \in Memory \ Frames :
             lab2[x].role \in {4, 12, 13, 30} /\ (lab2[x].role = 4 => x = pml4_table)
      BY <1>2, <2>1 DEF UseOK
    <2> QED BY <2>1, <2>2, <2>3, <2>4 DEF UseOK
  <1> QED BY <1>5, <1>6, <1>7, <1>8, <1>9 DEF Tree, lab2

\* A frame that becomes the top table of a new space.
TopLabel(lab, f) == [lab EXCEPT ![f] = Label(4, 0, 0, f)]

LEMMA NewTop ==
    ASSUME ram \in Nat, NEW m, NEW u, NEW R, NEW H, NEW lab, Tree(m, u, R, H, lab),
           NEW f \in Frames \ u,
           NEW m2, m2 = [m EXCEPT ![f] = [Blank EXCEPT ![0] = m[pml4_table][0]]]
    PROVE  Tree(m2, u \cup {f}, R \cup {f}, H, TopLabel(lab, f))
  <1> DEFINE lab2 == TopLabel(lab, f)
             u2 == u \cup {f}
             R2 == R \cup {f}
  <1>1. f \in Memory /\ lab[f].role = 30
    BY FreeRole
  <1>2. /\ DOMAIN lab2 = Memory /\ lab2[f].role = 4 /\ lab2[f].own = f
        /\ \A x \in Memory : x # f => lab2[x] = lab[x]
    BY <1>1 DEF Tree, FormOK, TopLabel, Label
  <1> HIDE DEF lab2
  <1>3. m[pml4_table][0] = Present(pdpt_table)
    BY DEF Tree, TopOK
  <1>4. /\ DOMAIN m2 = Memory /\ \A x \in Memory : DOMAIN m2[x] = Index
        /\ \A x \in Memory : x # f => m2[x] = m[x]
        /\ m2[f] = [Blank EXCEPT ![0] = m[pml4_table][0]]
    BY <1>1 DEF Tree, FormOK, Blank
  <1>5. m2[f][0] = Present(pdpt_table) /\ \A j \in Index : j # 0 => ~ m2[f][j].present
    <2>1. 0 \in Index
      BY Sizes DEF Index
    <2>2. Blank = [j \in Index |-> Absent] /\ ~ Absent.present
      BY DEF Blank, Absent
    <2> QED BY <1>3, <1>4, <2>1, <2>2
  <1>6. \A x, j : IsBranch(lab, x, j) => x \in Memory /\ j \in Index /\ x # f
    BY <1>1 DEF IsBranch
  <1>7. \A x, j : IsBranch(lab2, x, j) <=> IsBranch(lab, x, j) \/ (x = f /\ j \in Index /\ j # 0)
    BY <1>1, <1>2 DEF IsBranch
  <1>8. FormOK(m2, lab2)
    BY <1>2, <1>4 DEF Tree, FormOK, Roles
  <1>9. DownOK(m2, lab2)
    <2>1. ASSUME NEW x \in Memory, NEW j \in Index, IsBranch(lab2, x, j), m2[x][j].present
          PROVE  IF m2[x][j].huge THEN lab2[x].role = 12
                 ELSE /\ m2[x][j].at \in Memory
                      /\ lab2[m2[x][j].at] = Label(lab2[x].role - 1, x, j, lab2[x].own)
      <3>1. IsBranch(lab, x, j) /\ x # f
        BY <1>5, <1>6, <1>7, <2>1
      <3>2. m2[x] = m[x] /\ lab2[x] = lab[x]
        BY <1>2, <1>4, <3>1
      <3>3. IF m[x][j].huge THEN lab[x].role = 12
            ELSE /\ m[x][j].at \in Memory
                 /\ lab[m[x][j].at] = Label(lab[x].role - 1, x, j, lab[x].own)
        BY <2>1, <3>1, <3>2 DEF Tree, DownOK
      <3>4. CASE m[x][j].huge
        BY <3>2, <3>3, <3>4
      <3>5. CASE ~ m[x][j].huge
        <4>1. lab[m[x][j].at].role = lab[x].role - 1
          BY <3>3, <3>5 DEF Label
        <4>2. m[x][j].at # f
          BY <1>1, <3>1, <4>1 DEF IsBranch
        <4> QED BY <1>2, <3>2, <3>3, <3>5, <4>2
      <3> QED BY <3>4, <3>5
    <2> QED BY <2>1 DEF DownOK
  <1>10. UpOK(m2, lab2)
    <2>1. ASSUME NEW x \in Memory, lab2[x].role \in {0, 1, 2, 3, 11, 12}
          PROVE  /\ IsBranch(lab2, lab2[x].by, lab2[x].ix)
                 /\ lab2[lab2[x].by].role = lab2[x].role + 1
                 /\ lab2[lab2[x].by].own = lab2[x].own
                 /\ m2[lab2[x].by][lab2[x].ix] = Present(x)
      <3>1. lab2[x] = lab[x]
        BY <1>2, <2>1
      <3>2. /\ IsBranch(lab, lab[x].by, lab[x].ix)
            /\ lab[lab[x].by].role = lab[x].role + 1 /\ lab[lab[x].by].own = lab[x].own
            /\ m[lab[x].by][lab[x].ix] = Present(x)
        BY <2>1, <3>1 DEF Tree, UpOK
      <3>3. lab[x].by \in Memory /\ lab[x].by # f
        BY <1>6, <3>2
      <3> QED BY <1>2, <1>4, <1>7, <3>1, <3>2, <3>3
    <2> QED BY <2>1 DEF UpOK
  <1>11. TopOK(m2, R2, lab2)
    <2>1. TopOK(m, R, lab)
      BY DEF Tree
    <2>2. \A x \in Memory : (lab2[x].role = 4 <=> x \in R2) /\ (lab2[x].role = 13 <=> x = pdpt_table)
      BY <1>1, <1>2, <2>1 DEF TopOK
    <2>3. \A r \in R : r \in Memory /\ r # f /\ lab2[r] = lab[r] /\ m2[r] = m[r]
      BY <1>1, <1>2, <1>4, <2>1 DEF TopOK
    <2> QED BY <1>1, <1>2, <1>5, <2>1, <2>2, <2>3 DEF TopOK
  <1>12. UseOK(u2, H, lab2)
    <2>1. UseOK(u, H, lab)
      BY DEF Tree
    <2>2. \A x \in Memory : lab2[x].role = 20 <=> x \in H
      BY <1>1, <1>2, <2>1 DEF UseOK
    <2>3. \A x \in Frames : x \in u2 <=> lab2[x].role # 30
      BY <1>1, <1>2, <2>1, Layout DEF UseOK
    <2>4. \A x \in Memory \ Frames :
             lab2[x].role \in {4, 12, 13, 30} /\ (lab2[x].role = 4 => x = pml4_table)
      BY <1>2, <2>1 DEF UseOK
    <2> QED BY <2>1, <2>2, <2>3, <2>4 DEF UseOK
  <1> QED BY <1>8, <1>9, <1>10, <1>11, <1>12 DEF Tree, lab2

---------------------------------------------------------------------------
(* What address_space_destroy gives back.                                  *)

Level(lab, k, r) == {f \in Memory : lab[f].role = k /\ lab[f].own = r}
OwnSet(lab, r) == {f \in Memory : lab[f].role \in {0, 1, 2, 3, 4} /\ lab[f].own = r}

LEMMA BelowLevel ==
    ASSUME NEW u, NEW R, NEW H, NEW lab, Tree(mem, u, R, H, lab),
           NEW k \in {1, 2, 3}, NEW r
    PROVE  UNION {Below(t) : t \in Level(lab, k, r)} = Level(lab, k - 1, r)
  <1>1. ASSUME NEW t \in Level(lab, k, r), NEW f \in Below(t)
        PROVE  f \in Level(lab, k - 1, r)
    <2>1. PICK i \in Index : mem[t][i].present /\ f = mem[t][i].at
      BY <1>1 DEF Below
    <2>2. IsBranch(lab, t, i) /\ lab[t].role = k /\ lab[t].own = r
      BY <1>1 DEF Level, IsBranch
    <2>3. f \in Memory /\ lab[f] = Label(k - 1, t, i, r)
      BY <2>1, <2>2 DEF Tree, DownOK, IsBranch
    <2> QED BY <2>3 DEF Level, Label
  <1>2. ASSUME NEW f \in Level(lab, k - 1, r)
        PROVE  \E t \in Level(lab, k, r) : f \in Below(t)
    <2>1. lab[f].role \in {0, 1, 2, 3, 11, 12} /\ lab[f].role + 1 = k /\ f \in Memory
      BY <1>2 DEF Level
    <2>2. /\ IsBranch(lab, lab[f].by, lab[f].ix)
          /\ lab[lab[f].by].role = k /\ lab[lab[f].by].own = r
          /\ mem[lab[f].by][lab[f].ix] = Present(f)
      BY <1>2, <2>1 DEF Tree, UpOK, Level
    <2>3. f \in Below(lab[f].by)
      BY <2>2 DEF Below, Present, IsBranch
    <2> QED BY <2>2, <2>3 DEF Level, IsBranch
  <1> QED BY <1>1, <1>2

LEMMA OwnPagesAre ==
    ASSUME NEW u, NEW R, NEW H, NEW lab, Tree(mem, u, R, H, lab), NEW r \in R
    PROVE  OwnPages(r) = OwnSet(lab, r)
  <1> DEFINE pdpts == {mem[r][i].at : i \in {j \in FirstOwn .. Entries - 1 : mem[r][j].present}}
             pds == UNION {Below(t) : t \in pdpts}
             pts == UNION {Below(t) : t \in pds}
             entries(t) == {j \in Index : mem[t][j].present /\ ~mem[t][j].huge}
             small == UNION {{mem[t][i].at : i \in entries(t)} : t \in pds}
  <1>1. r \in Memory /\ lab[r].role = 4 /\ lab[r].own = r
    BY DEF Tree, TopOK
  <1>2. \A i : i \in FirstOwn .. Entries - 1 <=> i \in Index /\ i # 0
    BY Sizes DEF FirstOwn, Index
  <1>3. pdpts = Level(lab, 3, r)
    <2>1. ASSUME NEW f \in pdpts PROVE f \in Level(lab, 3, r)
      <3>1. PICK i \in Index \ {0} : mem[r][i].present /\ f = mem[r][i].at
        BY <1>2, <2>1
      <3>2. f \in Memory /\ lab[f] = Label(3, r, i, r)
        BY <1>1, <3>1 DEF Tree, DownOK, IsBranch
      <3> QED BY <3>2 DEF Level, Label
    <2>2. ASSUME NEW f \in Level(lab, 3, r) PROVE f \in pdpts
      <3>1. /\ IsBranch(lab, lab[f].by, lab[f].ix)
            /\ lab[lab[f].by].role = 4 /\ lab[lab[f].by].own = r
            /\ mem[lab[f].by][lab[f].ix] = Present(f)
        BY <2>2 DEF Tree, UpOK, Level
      <3>2. lab[f].by = r /\ lab[f].ix \in Index \ {0}
        BY <3>1 DEF Tree, TopOK, IsBranch
      <3> QED BY <1>2, <3>1, <3>2 DEF Present
    <2> HIDE DEF pdpts
    <2> QED BY <2>1, <2>2
  <1>4. pds = Level(lab, 2, r)
    BY <1>3, BelowLevel
  <1>5. pts = Level(lab, 1, r)
    BY <1>4, BelowLevel
  <1>6. small = pts
    <2>1. ASSUME NEW t \in pds, NEW j \in Index, mem[t][j].present PROVE ~ mem[t][j].huge
      <3>1. IsBranch(lab, t, j) /\ lab[t].role = 2
        BY <1>4 DEF Level, IsBranch
      <3> QED BY <2>1, <3>1 DEF Tree, DownOK, IsBranch
    <2>2. \A t \in pds : entries(t) = {j \in Index : mem[t][j].present}
      BY <2>1
    <2>3. \A t \in pds : {mem[t][i].at : i \in entries(t)} = Below(t)
      BY <2>2 DEF Below
    <2> HIDE DEF pds, entries
    <2> QED BY <2>3
  <1>7. UNION {Below(t) : t \in small} = Level(lab, 0, r)
    <2>1. UNION {Below(t) : t \in Level(lab, 1, r)} = Level(lab, 1 - 1, r)
      BY BelowLevel
    <2>2. small = Level(lab, 1, r)
      BY <1>5, <1>6
    <2> HIDE DEF small
    <2> QED BY <2>1, <2>2
  <1>8. OwnPages(r) = {r} \cup pdpts \cup pds \cup pts \cup UNION {Below(t) : t \in small}
    BY DEF OwnPages
  <1> HIDE DEF pdpts, pds, pts, small
  <1>9. {r} = Level(lab, 4, r)
    BY <1>1 DEF Tree, TopOK, Level
  <1>10. OwnSet(lab, r) = Level(lab, 4, r) \cup Level(lab, 3, r) \cup Level(lab, 2, r)
                            \cup Level(lab, 1, r) \cup Level(lab, 0, r)
    BY DEF OwnSet, Level
  <1> QED BY <1>3, <1>4, <1>5, <1>7, <1>8, <1>9, <1>10

FreeLabel(lab, r) ==
    [f \in Memory |-> IF f \in OwnSet(lab, r) THEN Label(30, 0, 0, 0) ELSE lab[f]]

LEMMA CutTree ==
    ASSUME ram \in Nat, NEW m, NEW u, NEW R, NEW H, NEW lab, Tree(m, u, R, H, lab),
           NEW r \in R, r # pml4_table,
           NEW u2, u2 = u \ OwnSet(lab, r),
           NEW m2, m2 = [f \in DOMAIN m |-> IF f \in u \ u2 THEN Garbage ELSE m[f]]
    PROVE  Tree(m2, u2, R \ {r}, H, FreeLabel(lab, r))
  <1> DEFINE own == OwnSet(lab, r)
             lab2 == FreeLabel(lab, r)
             R2 == R \ {r}
  <1>1. /\ DOMAIN lab2 = Memory
        /\ \A f \in Memory : lab2[f] = IF f \in own THEN Label(30, 0, 0, 0) ELSE lab[f]
    BY DEF FreeLabel
  <1>2. \A f \in own : lab2[f].role = 30
    BY <1>1 DEF Label, OwnSet
  <1>3. own \subseteq u
    <2>1. \A f \in own : f \in Memory /\ lab[f].role # 30 /\ f # pml4_table
                           /\ lab[f].role \notin {12, 13, 30}
      BY DEF OwnSet, Tree, TopOK
    <2> HIDE DEF own
    <2> QED BY <2>1 DEF Tree, UseOK
  <1>4. u \ u2 = own
    BY <1>3
  <1>5. /\ DOMAIN m2 = Memory /\ \A x \in Memory : DOMAIN m2[x] = Index
        /\ \A x \in Memory \ own : m2[x] = m[x]
    BY <1>4 DEF Tree, FormOK, Garbage
  <1>6. \A f \in Memory : f \in own <=> lab[f].role \in {0, 1, 2, 3, 4} /\ lab[f].own = r
    BY DEF OwnSet
  <1>7. r \in own
    BY DEF OwnSet, Tree, TopOK
  <1> HIDE DEF own, lab2
  <1>8. \A x, j : IsBranch(lab2, x, j) <=> IsBranch(lab, x, j) /\ x \notin own
    BY <1>1, <1>2 DEF IsBranch
  <1>9. FormOK(m2, lab2)
    BY <1>1, <1>2, <1>5 DEF Tree, FormOK, Roles
  <1>10. DownOK(m2, lab2)
    <2>1. ASSUME NEW x \in Memory, NEW j \in Index, IsBranch(lab2, x, j), m2[x][j].present
          PROVE  IF m2[x][j].huge THEN lab2[x].role = 12
                 ELSE /\ m2[x][j].at \in Memory
                      /\ lab2[m2[x][j].at] = Label(lab2[x].role - 1, x, j, lab2[x].own)
      <3>1. IsBranch(lab, x, j) /\ x \notin own /\ m2[x] = m[x] /\ lab2[x] = lab[x]
        BY <1>1, <1>5, <1>8, <2>1
      <3>2. IF m[x][j].huge THEN lab[x].role = 12
            ELSE /\ m[x][j].at \in Memory
                 /\ lab[m[x][j].at] = Label(lab[x].role - 1, x, j, lab[x].own)
        BY <2>1, <3>1 DEF Tree, DownOK
      <3>3. CASE m[x][j].huge
        BY <3>1, <3>2, <3>3
      <3>4. CASE ~ m[x][j].huge
        <4>1. lab[m[x][j].at].role = lab[x].role - 1 /\ lab[m[x][j].at].own = lab[x].own
          BY <3>2, <3>4 DEF Label
        <4>2. m[x][j].at \notin own
          BY <1>6, <3>1, <3>2, <3>4, <4>1 DEF IsBranch
        <4> QED BY <1>1, <3>1, <3>2, <3>4, <4>2
      <3> QED BY <3>3, <3>4
    <2> QED BY <2>1 DEF DownOK
  <1>11. UpOK(m2, lab2)
    <2>1. ASSUME NEW x \in Memory, lab2[x].role \in {0, 1, 2, 3, 11, 12}
          PROVE  /\ IsBranch(lab2, lab2[x].by, lab2[x].ix)
                 /\ lab2[lab2[x].by].role = lab2[x].role + 1
                 /\ lab2[lab2[x].by].own = lab2[x].own
                 /\ m2[lab2[x].by][lab2[x].ix] = Present(x)
      <3>1. x \notin own /\ lab2[x] = lab[x]
        BY <1>1, <1>2, <2>1
      <3>2. /\ IsBranch(lab, lab[x].by, lab[x].ix)
            /\ lab[lab[x].by].role = lab[x].role + 1 /\ lab[lab[x].by].own = lab[x].own
            /\ m[lab[x].by][lab[x].ix] = Present(x)
        BY <2>1, <3>1 DEF Tree, UpOK
      <3>3. lab[x].by \in Memory /\ lab[x].by \notin own
        BY <1>6, <2>1, <3>1, <3>2 DEF IsBranch
      <3> QED BY <1>1, <1>5, <1>8, <3>1, <3>2, <3>3
    <2> QED BY <2>1 DEF UpOK
  <1>12. TopOK(m2, R2, lab2)
    <2>1. TopOK(m, R, lab)
      BY DEF Tree
    <2>2. \A x \in R2 : x \in Memory /\ x \notin own
      BY <1>6, <2>1 DEF TopOK
    <2>3. \A x \in Memory : (lab2[x].role = 4 <=> x \in R2) /\ (lab2[x].role = 13 <=> x = pdpt_table)
      BY <1>1, <1>2, <1>6, <1>7, <2>1, <2>2 DEF TopOK
    <2>4. \A x \in R2 : lab2[x] = lab[x] /\ m2[x] = m[x]
      BY <1>1, <1>5, <2>2
    <2> QED BY <2>1, <2>2, <2>3, <2>4 DEF TopOK
  <1>13. UseOK(u2, H, lab2)
    <2>1. UseOK(u, H, lab)
      BY DEF Tree
    <2>2. \A x \in H : x \notin own
      BY <1>6, <2>1, Layout DEF UseOK
    <2>3. \A x \in Memory : lab2[x].role = 20 <=> x \in H
      BY <1>1, <1>2, <2>1, <2>2 DEF UseOK
    <2>4. \A x \in Frames : x \in u2 <=> lab2[x].role # 30
      BY <1>1, <1>2, <1>4, <2>1, Layout DEF UseOK
    <2>5. \A x \in Memory \ Frames :
             lab2[x].role \in {4, 12, 13, 30} /\ (lab2[x].role = 4 => x = pml4_table)
      BY <1>1, <1>2, <2>1 DEF UseOK
    <2> QED BY <2>1, <2>2, <2>3, <2>4, <2>5, <1>4 DEF UseOK
  <1> QED BY <1>9, <1>10, <1>11, <1>12, <1>13 DEF Tree, lab2

---------------------------------------------------------------------------
(* The entries a translation reads, and what a change of one does to it.   *)

Entry4(m, r, v) == m[r][PML4_INDEX(v)]
Entry3(m, r, v) == m[Entry4(m, r, v).at][PDPT_INDEX(v)]
Entry2(m, r, v) == m[Entry3(m, r, v).at][PD_INDEX(v)]
Entry1(m, r, v) == m[Entry2(m, r, v).at][PT_INDEX(v)]

LEMMA TranslateIs ==
    ASSUME NEW m, NEW r, NEW v
    PROVE  Translate(m, r, v) =
             IF \/ ~ Entry4(m, r, v).present \/ ~ Entry3(m, r, v).present
                \/ ~ Entry2(m, r, v).present
             THEN Fault
             ELSE IF Entry2(m, r, v).huge THEN Entry2(m, r, v).at + PT_INDEX(v)
             ELSE IF Entry1(m, r, v).present THEN Entry1(m, r, v).at ELSE Fault
  <1> QED BY DEF Translate, Entry4, Entry3, Entry2, Entry1

LEMMA PageDigits ==
    ASSUME NEW v \in Pages
    PROVE  /\ v \in Nat /\ PML4_INDEX(v) \in Index /\ PDPT_INDEX(v) \in Index
           /\ PD_INDEX(v) \in Index /\ PT_INDEX(v) \in Index
  <1>1. v \in Nat /\ (v < TopSize \/ v \in TopSize .. SpaceSize - 1)
    <2>1. v \in 0 .. SpaceSize - 1
      BY DEF Pages
    <2>2. SpaceSize \in Nat
      <3>1. \A x, y \in Nat : x * y \in Nat
        OBVIOUS
      <3> QED BY <3>1, Sizes
    <2> QED BY <2>1, <2>2, Sizes
  <1> QED BY <1>1, Digits

\* The tables a translation reads, below the entries a, b and c, are labelled
\* with its digits.
Routed(lab, a, b, c, v) ==
    /\ a.present =>
          /\ ~ a.huge /\ a.at \in Memory
          /\ \/ lab[a.at].role = 13 /\ PML4_INDEX(v) = 0
             \/ lab[a.at].role = 3 /\ PML4_INDEX(v) # 0 /\ lab[a.at].ix = PML4_INDEX(v)
    /\ a.present /\ b.present =>
          /\ ~ b.huge /\ b.at \in Memory /\ lab[b.at].role \in {2, 12}
          /\ lab[b.at].by = a.at /\ lab[b.at].ix = PDPT_INDEX(v)
    /\ a.present /\ b.present /\ c.present /\ ~ c.huge =>
          /\ c.at \in Memory /\ lab[c.at].role \in {1, 11}
          /\ lab[c.at].by = b.at /\ lab[c.at].ix = PD_INDEX(v)

LEMMA Route ==
    ASSUME ram \in Nat, NEW m, NEW u, NEW R, NEW H, NEW lab, Tree(m, u, R, H, lab),
           NEW r \in R, NEW v \in Pages
    PROVE  Routed(lab, Entry4(m, r, v), Entry3(m, r, v), Entry2(m, r, v), v)
  <1> DEFINE a == Entry4(m, r, v)
             b == Entry3(m, r, v)
             c == Entry2(m, r, v)
  <1>1. r \in Memory /\ lab[r].role = 4 /\ m[r][0] = Present(pdpt_table)
    BY DEF Tree, TopOK
  <1>a. a = m[r][PML4_INDEX(v)]
    BY DEF Entry4
  <1>b. b = m[a.at][PDPT_INDEX(v)]
    BY DEF Entry3
  <1>c. c = m[b.at][PD_INDEX(v)]
    BY DEF Entry2
  <1> HIDE DEF a, b, c
  <1>3. ASSUME NEW t \in Memory, NEW i \in Index, IsBranch(lab, t, i), m[t][i].present
        PROVE  /\ m[t][i].huge => lab[t].role = 12
               /\ ~ m[t][i].huge => /\ m[t][i].at \in Memory
                                    /\ lab[m[t][i].at].role = lab[t].role - 1
                                    /\ lab[m[t][i].at].by = t /\ lab[m[t][i].at].ix = i
    <2>1. IF m[t][i].huge THEN lab[t].role = 12
          ELSE /\ m[t][i].at \in Memory
               /\ lab[m[t][i].at] = Label(lab[t].role - 1, t, i, lab[t].own)
      BY <1>3 DEF Tree, DownOK
    <2>2. ~ m[t][i].huge => lab[m[t][i].at] = Label(lab[t].role - 1, t, i, lab[t].own)
      BY <2>1
    <2>3. \A k, o : Label(k, t, i, o).role = k /\ Label(k, t, i, o).by = t /\ Label(k, t, i, o).ix = i
      BY DEF Label
    <2> QED BY <2>1, <2>2, <2>3
  <1>4. ASSUME a.present
        PROVE  /\ ~ a.huge /\ a.at \in Memory
               /\ \/ lab[a.at].role = 13 /\ PML4_INDEX(v) = 0
                  \/ lab[a.at].role = 3 /\ PML4_INDEX(v) # 0 /\ lab[a.at].ix = PML4_INDEX(v)
    <2>1. CASE PML4_INDEX(v) = 0
      <3>1. a = Present(pdpt_table)
        BY <1>1, <1>a, <2>1
      <3>2. lab[pdpt_table].role = 13 /\ pdpt_table \in Memory
        BY Layout DEF Tree, TopOK
      <3> QED BY <2>1, <3>1, <3>2 DEF Present
    <2>2. CASE PML4_INDEX(v) # 0
      <3>1. IsBranch(lab, r, PML4_INDEX(v)) /\ PML4_INDEX(v) \in Index
        BY <1>1, <2>2, PageDigits DEF IsBranch
      <3> QED BY <1>1, <1>a, <1>3, <1>4, <2>2, <3>1
    <2> QED BY <2>1, <2>2
  <1>5. ASSUME a.present, b.present
        PROVE  /\ ~ b.huge /\ b.at \in Memory /\ lab[b.at].role \in {2, 12}
               /\ lab[b.at].by = a.at /\ lab[b.at].ix = PDPT_INDEX(v)
    <2>1. /\ IsBranch(lab, a.at, PDPT_INDEX(v)) /\ PDPT_INDEX(v) \in Index
          /\ lab[a.at].role \in {3, 13} /\ a.at \in Memory
      BY <1>4, <1>5, PageDigits DEF IsBranch
    <2> QED BY <1>b, <1>3, <1>5, <2>1
  <1>6. ASSUME a.present, b.present, c.present, ~ c.huge
        PROVE  /\ c.at \in Memory /\ lab[c.at].role \in {1, 11}
               /\ lab[c.at].by = b.at /\ lab[c.at].ix = PD_INDEX(v)
    <2>1. /\ IsBranch(lab, b.at, PD_INDEX(v)) /\ PD_INDEX(v) \in Index
          /\ lab[b.at].role \in {2, 12} /\ b.at \in Memory
      BY <1>5, <1>6, PageDigits DEF IsBranch
    <2> QED BY <1>c, <1>3, <1>6, <2>1
  <1>7. Routed(lab, a, b, c, v)
    BY <1>4, <1>5, <1>6 DEF Routed
  <1> QED BY <1>7 DEF a, b, c

\* A table that is added leaves every translation as it was.
Same(m2, m, R) == \A r \in R, v \in Pages : Translate(m2, r, v) = Translate(m, r, v)

\* Table f with this content hangs below an entry that was absent, or stands for
\* the huge page there.
Added(m2, m, lab, t, i, f, content) ==
    /\ lab[t].role \notin {1, 11} /\ lab[f].role = 30 /\ t # f
    /\ \A x \in Memory, j \in Index : x # f /\ ~ (x = t /\ j = i) => m2[x][j] = m[x][j]
    /\ m2[t][i] = Present(f) /\ \A j \in Index : m2[f][j] = content[j]
    /\ m[t][i].present => m[t][i].huge /\ lab[t].role = 12
    /\ ~ m[t][i].present => \A j \in Index : ~ content[j].present
    /\ m[t][i].present => \A j \in Index : content[j] = Present(m[t][i].at + j)

LEMMA AddSameAt ==
    ASSUME NEW m, NEW m2, NEW lab, NEW r \in Memory, NEW v \in Pages,
           Routed(lab, Entry4(m, r, v), Entry3(m, r, v), Entry2(m, r, v), v),
           NEW t, NEW i, NEW f, NEW content, Added(m2, m, lab, t, i, f, content),
           lab[r].role = 4
    PROVE  Translate(m2, r, v) = Translate(m, r, v)
  <1>e. /\ lab[t].role \notin {1, 11} /\ lab[f].role = 30 /\ t # f /\ r # f
        /\ \A x \in Memory, j \in Index : x # f /\ ~ (x = t /\ j = i) => m2[x][j] = m[x][j]
        /\ m2[t][i] = Present(f) /\ \A j \in Index : m2[f][j] = content[j]
        /\ m[t][i].present => m[t][i].huge /\ lab[t].role = 12
        /\ ~ m[t][i].present => \A j \in Index : ~ content[j].present
        /\ m[t][i].present => \A j \in Index : content[j] = Present(m[t][i].at + j)
    BY DEF Added
  <1> DEFINE a == Entry4(m, r, v)
             b == Entry3(m, r, v)
             c == Entry2(m, r, v)
             d == Entry1(m, r, v)
             a2 == Entry4(m2, r, v)
             b2 == Entry3(m2, r, v)
             c2 == Entry2(m2, r, v)
             d2 == Entry1(m2, r, v)
             p4 == PML4_INDEX(v)
             p3 == PDPT_INDEX(v)
             p2 == PD_INDEX(v)
             p1 == PT_INDEX(v)
  <1>a. a = m[r][p4] /\ a2 = m2[r][p4]
    BY DEF Entry4
  <1>b. b = m[a.at][p3] /\ b2 = m2[a2.at][p3]
    BY DEF Entry3
  <1>c. c = m[b.at][p2] /\ c2 = m2[b2.at][p2]
    BY DEF Entry2
  <1>d. d = m[c.at][p1] /\ d2 = m2[c2.at][p1]
    BY DEF Entry1
  <1>2. /\ Translate(m, r, v) = IF ~ a.present \/ ~ b.present \/ ~ c.present THEN Fault
                                ELSE IF c.huge THEN c.at + p1
                                ELSE IF d.present THEN d.at ELSE Fault
        /\ Translate(m2, r, v) = IF ~ a2.present \/ ~ b2.present \/ ~ c2.present THEN Fault
                                 ELSE IF c2.huge THEN c2.at + p1
                                 ELSE IF d2.present THEN d2.at ELSE Fault
    BY TranslateIs
  <1>3. p4 \in Index /\ p3 \in Index /\ p2 \in Index /\ p1 \in Index
    BY PageDigits
  <1>4. /\ a.present => a.at \in Memory /\ lab[a.at].role \in {3, 13}
        /\ a.present /\ b.present => b.at \in Memory /\ lab[b.at].role \in {2, 12}
        /\ a.present /\ b.present /\ c.present /\ ~ c.huge =>
              c.at \in Memory /\ lab[c.at].role \in {1, 11}
    BY DEF Routed
  <1>5. /\ a.present => a.at # f
        /\ a.present /\ b.present => b.at # f
        /\ a.present /\ b.present /\ c.present /\ ~ c.huge => c.at # f /\ c.at # t
    BY <1>e, <1>4
  <1>6. \A p : Present(p).present /\ ~ Present(p).huge /\ Present(p).at = p
    BY DEF Present
  <1> HIDE DEF a, b, c, d, a2, b2, c2, d2, p4, p3, p2, p1
  <1>7. CASE r = t /\ p4 = i
    <2>1. ~ a.present
      BY <1>e, <1>a, <1>7
    <2>2. a2.at = f
      BY <1>e, <1>a, <1>6, <1>7
    <2>3. ~ b2.present
      BY <1>e, <1>a, <1>b, <1>3, <1>7, <2>1, <2>2
    <2> QED BY <1>2, <2>1, <2>3
  <1>8. CASE ~ (r = t /\ p4 = i)
    <2>1. a2 = a
      BY <1>e, <1>a, <1>3, <1>8
    <2>2. CASE ~ a.present
      BY <1>2, <2>1, <2>2
    <2>3. CASE a.present /\ a.at = t /\ p3 = i
      <3>1. ~ b.present
        BY <1>e, <1>b, <1>4, <2>3
      <3>2. b2.at = f
        BY <1>e, <1>b, <1>6, <2>1, <2>3
      <3>3. ~ c2.present
        BY <1>e, <1>b, <1>c, <1>3, <2>3, <3>1, <3>2
      <3> QED BY <1>2, <3>1, <3>3
    <2>4. CASE a.present /\ ~ (a.at = t /\ p3 = i)
      <3>1. b2 = b
        BY <1>e, <1>b, <1>3, <1>4, <1>5, <2>1, <2>4
      <3>2. CASE ~ b.present
        BY <1>2, <3>1, <3>2
      <3>3. CASE b.present /\ b.at = t /\ p2 = i
        <4>1. c2 = Present(f) /\ c = m[t][i]
          BY <1>e, <1>c, <3>1, <3>3
        <4>2. c2.present /\ ~ c2.huge /\ c2.at = f
          BY <1>6, <4>1
        <4>3. d2 = content[p1]
          BY <1>e, <1>d, <1>3, <4>2
        <4>4. CASE ~ c.present
          <5>1. ~ d2.present
            BY <1>e, <1>3, <4>1, <4>3, <4>4
          <5> QED BY <1>2, <4>2, <4>4, <5>1
        <4>5. CASE c.present
          <5>1. c.huge /\ d2 = Present(c.at + p1)
            BY <1>e, <1>3, <4>1, <4>3, <4>5
          <5>2. d2.present /\ d2.at = c.at + p1
            BY <1>6, <5>1
          <5> QED BY <1>2, <2>1, <2>4, <3>1, <3>3, <4>2, <4>5, <5>1, <5>2
        <4> QED BY <4>4, <4>5
      <3>4. CASE b.present /\ ~ (b.at = t /\ p2 = i)
        <4>1. c2 = c
          BY <1>e, <1>c, <1>3, <1>4, <1>5, <2>4, <3>1, <3>4
        <4>2. CASE ~ c.present \/ c.huge
          BY <1>2, <2>1, <3>1, <4>1, <4>2
        <4>3. CASE c.present /\ ~ c.huge
          <5>1. c.at # t /\ c.at # f /\ c.at \in Memory
            BY <1>e, <1>4, <1>5, <2>4, <3>4, <4>3
          <5>2. d2 = d
            BY <1>e, <1>d, <1>3, <4>1, <5>1
          <5> QED BY <1>2, <2>1, <3>1, <4>1, <5>2
        <4> QED BY <4>2, <4>3
      <3> QED BY <3>2, <3>3, <3>4
    <2> QED BY <2>2, <2>3, <2>4
  <1> QED BY <1>7, <1>8

LEMMA AddedEntries ==
    ASSUME NEW m, NEW f \in Memory, NEW t \in Memory, NEW i \in Index, NEW content, f # t,
           DOMAIN m = Memory, \A x \in Memory : DOMAIN m[x] = Index, DOMAIN content = Index,
           NEW m2, m2 = [m EXCEPT ![f] = content, ![t][i] = Present(f)]
    PROVE  /\ m2[t][i] = Present(f) /\ \A j \in Index : m2[f][j] = content[j]
           /\ \A x \in Memory, j \in Index : x # f /\ ~ (x = t /\ j = i) => m2[x][j] = m[x][j]
  <1>1. \A x \in Memory, j \in Index : m2[x][j] =
          IF x = t /\ j = i THEN Present(f) ELSE IF x = f THEN content[j] ELSE m[x][j]
    BY AddEntries
  <1> QED BY <1>1

LEMMA AddSame ==
    ASSUME ram \in Nat, NEW m, NEW u, NEW R, NEW H, NEW lab, Tree(m, u, R, H, lab),
           NEW t, NEW i, IsBranch(lab, t, i), lab[t].role # 1,
           NEW f \in Frames \ u, NEW content, DOMAIN content = Index,
           \/ ~ m[t][i].present /\ \A j \in Index : ~ content[j].present
           \/ m[t][i].present /\ m[t][i].huge /\ content = Split(m[t][i].at),
           NEW m2, m2 = [m EXCEPT ![f] = content, ![t][i] = Present(f)]
    PROVE  Same(m2, m, R)
  <1>1. t \in Memory /\ i \in Index /\ f \in Memory /\ lab[f].role = 30 /\ f # t
    BY FreeRole DEF IsBranch
  <1>2. /\ m2[t][i] = Present(f) /\ \A j \in Index : m2[f][j] = content[j]
        /\ \A x \in Memory, j \in Index : x # f /\ ~ (x = t /\ j = i) => m2[x][j] = m[x][j]
    BY <1>1, AddedEntries DEF Tree, FormOK
  <1>3. m[t][i].present => m[t][i].huge /\ lab[t].role = 12
    BY DEF Tree, DownOK, IsBranch
  <1>4. /\ ~ m[t][i].present => \A j \in Index : ~ content[j].present
        /\ m[t][i].present => \A j \in Index : content[j] = Present(m[t][i].at + j)
    BY DEF Split
  <1>5. lab[t].role \notin {1, 11}
    BY DEF IsBranch
  <1>6. Added(m2, m, lab, t, i, f, content)
    BY <1>1, <1>2, <1>3, <1>4, <1>5, Zenon DEF Added
  <1>7. ASSUME NEW r \in R, NEW v \in Pages
        PROVE  Translate(m2, r, v) = Translate(m, r, v)
    <2>1. Routed(lab, Entry4(m, r, v), Entry3(m, r, v), Entry2(m, r, v), v)
      BY Route
    <2>2. r \in Memory /\ lab[r].role = 4
      BY DEF Tree, TopOK
    <2> QED BY <1>6, <2>1, <2>2, AddSameAt
  <1> QED BY <1>7 DEF Same

\* Writing one entry of a table that maps pages moves one page of a space at
\* most: two pages that read the entry have the same digits.
OneMoves(m2, m, R) ==
    \A r \in R, v, x \in Pages :
        Translate(m2, r, v) # Translate(m, r, v) /\ Translate(m2, r, x) # Translate(m, r, x)
            => v = x

LEMMA SameThrough ==
    ASSUME NEW R, NEW m2, NEW m1, NEW m0, Same(m2, m1, R), Same(m1, m0, R)
    PROVE  Same(m2, m0, R)
  <1> QED BY DEF Same

Elsewhere(m2, m, t, i) ==
    \A x \in Memory, j \in Index : ~ (x = t /\ j = i) => m2[x][j] = m[x][j]

ReadsAt(a, b, c, v, t, i) ==
    /\ a.present /\ b.present /\ c.present /\ ~ c.huge
    /\ c.at = t /\ PT_INDEX(v) = i

LEMMA MovedReads ==
    ASSUME NEW m, NEW m2, NEW lab, NEW r \in Memory, NEW v \in Pages,
           Routed(lab, Entry4(m, r, v), Entry3(m, r, v), Entry2(m, r, v), v),
           lab[r].role = 4, NEW t, NEW i, lab[t].role \in {1, 11},
           Elsewhere(m2, m, t, i), Translate(m2, r, v) # Translate(m, r, v)
    PROVE  ReadsAt(Entry4(m, r, v), Entry3(m, r, v), Entry2(m, r, v), v, t, i)
  <1> DEFINE a == Entry4(m, r, v)
             b == Entry3(m, r, v)
             c == Entry2(m, r, v)
             d == Entry1(m, r, v)
             a2 == Entry4(m2, r, v)
             b2 == Entry3(m2, r, v)
             c2 == Entry2(m2, r, v)
             d2 == Entry1(m2, r, v)
             p4 == PML4_INDEX(v)
             p3 == PDPT_INDEX(v)
             p2 == PD_INDEX(v)
             p1 == PT_INDEX(v)
  <1>a. a = m[r][p4] /\ a2 = m2[r][p4]
    BY DEF Entry4
  <1>b. b = m[a.at][p3] /\ b2 = m2[a2.at][p3]
    BY DEF Entry3
  <1>c. c = m[b.at][p2] /\ c2 = m2[b2.at][p2]
    BY DEF Entry2
  <1>d. d = m[c.at][p1] /\ d2 = m2[c2.at][p1]
    BY DEF Entry1
  <1>1. /\ Translate(m, r, v) = IF ~ a.present \/ ~ b.present \/ ~ c.present THEN Fault
                                ELSE IF c.huge THEN c.at + p1
                                ELSE IF d.present THEN d.at ELSE Fault
        /\ Translate(m2, r, v) = IF ~ a2.present \/ ~ b2.present \/ ~ c2.present THEN Fault
                                 ELSE IF c2.huge THEN c2.at + p1
                                 ELSE IF d2.present THEN d2.at ELSE Fault
    BY TranslateIs
  <1>2. p4 \in Index /\ p3 \in Index /\ p2 \in Index /\ p1 \in Index
    BY PageDigits
  <1>3. /\ a.present => a.at \in Memory /\ a.at # t
        /\ a.present /\ b.present => b.at \in Memory /\ b.at # t
        /\ a.present /\ b.present /\ c.present /\ ~ c.huge => c.at \in Memory
    BY DEF Routed
  <1>4. Translate(m2, r, v) # Translate(m, r, v) /\ r # t
    OBVIOUS
  <1> HIDE DEF a, b, c, d, a2, b2, c2, d2, p4, p3, p2, p1
  <1>5. a2 = a
    BY <1>a, <1>2, <1>4 DEF Elsewhere
  <1>6. a.present
    BY <1>1, <1>4, <1>5
  <1>7. b2 = b
    BY <1>b, <1>2, <1>3, <1>5, <1>6 DEF Elsewhere
  <1>8. b.present
    BY <1>1, <1>4, <1>5, <1>7
  <1>9. c2 = c
    BY <1>c, <1>2, <1>3, <1>6, <1>7, <1>8 DEF Elsewhere
  <1>10. c.present /\ ~ c.huge
    BY <1>1, <1>4, <1>5, <1>7, <1>9
  <1>11. c.at = t /\ p1 = i
    <2>1. d2 # d
      BY <1>1, <1>4, <1>5, <1>7, <1>9
    <2>2. c.at \in Memory
      BY <1>3, <1>6, <1>8, <1>10
    <2> QED BY <1>d, <1>2, <1>9, <2>1, <2>2 DEF Elsewhere
  <1>12. PT_INDEX(v) = i
    BY <1>11 DEF p1
  <1>13. ReadsAt(a, b, c, v, t, i)
    BY <1>6, <1>8, <1>10, <1>11, <1>12 DEF ReadsAt
  <1> QED BY <1>13 DEF a, b, c

\* The digits of a page are those of the tables it reads.
LEMMA OneReads ==
    ASSUME NEW lab, NEW a, NEW b, NEW c, NEW v \in Pages, Routed(lab, a, b, c, v),
           NEW a2, NEW b2, NEW c2, NEW x \in Pages, Routed(lab, a2, b2, c2, x),
           NEW t, NEW i, ReadsAt(a, b, c, v, t, i), ReadsAt(a2, b2, c2, x, t, i)
    PROVE  v = x
  <1>1. PT_INDEX(v) = PT_INDEX(x) /\ c.at = c2.at
    BY DEF ReadsAt
  <1>2. PD_INDEX(v) = PD_INDEX(x) /\ b.at = b2.at
    BY <1>1 DEF ReadsAt, Routed
  <1>3. PDPT_INDEX(v) = PDPT_INDEX(x) /\ a.at = a2.at
    BY <1>2 DEF ReadsAt, Routed
  <1>4. PML4_INDEX(v) = PML4_INDEX(x)
    BY <1>3 DEF ReadsAt, Routed
  <1> QED BY <1>1, <1>2, <1>3, <1>4, DigitsTell, PageDigits

\* Table t is the one that page v reads last, in the space of this root or, when
\* it is the kernel's, in all of them.
LastTable(lab, t, root, v) ==
    /\ t \in Memory /\ lab[t].role \in {1, 11}
    /\ lab[t].ix = PD_INDEX(v) /\ lab[lab[t].by].ix = PDPT_INDEX(v)
    /\ IF lab[t].role = 11 THEN PML4_INDEX(v) = 0
       ELSE /\ PML4_INDEX(v) # 0
            /\ lab[lab[lab[t].by].by].ix = PML4_INDEX(v)
            /\ lab[lab[lab[t].by].by].by = root

LEMMA LastIsRead ==
    ASSUME ram \in Nat, NEW m, NEW u, NEW R, NEW H, NEW lab, Tree(m, u, R, H, lab),
           NEW r \in R, NEW v \in Pages, NEW t, NEW root, LastTable(lab, t, root, v),
           lab[t].role = 11 \/ r = root
    PROVE  ReadsAt(Entry4(m, r, v), Entry3(m, r, v), Entry2(m, r, v), v, t, PT_INDEX(v))
  <1> DEFINE t2 == lab[t].by
             t3 == lab[t2].by
             a == Entry4(m, r, v)
             b == Entry3(m, r, v)
             c == Entry2(m, r, v)
  <1>u. \A f \in Memory : lab[f].role \in {0, 1, 2, 3, 11, 12} =>
            /\ lab[f].by \in Memory /\ lab[f].ix \in Index
            /\ lab[lab[f].by].role = lab[f].role + 1
            /\ m[lab[f].by][lab[f].ix] = Present(f)
    BY DEF Tree, UpOK, IsBranch
  <1>p. \A x : Present(x).present /\ ~ Present(x).huge /\ Present(x).at = x
    BY DEF Present
  <1>t. /\ t \in Memory /\ lab[t].role \in {1, 11}
        /\ lab[t].ix = PD_INDEX(v) /\ lab[t2].ix = PDPT_INDEX(v)
        /\ lab[t].role = 11 => PML4_INDEX(v) = 0
        /\ lab[t].role = 1 => lab[t3].ix = PML4_INDEX(v) /\ lab[t3].by = root
    BY DEF LastTable
  <1> HIDE DEF t2, t3
  <1>1. /\ t2 \in Memory /\ lab[t2].role = lab[t].role + 1
        /\ m[t2][PD_INDEX(v)] = Present(t)
    BY <1>u, <1>t DEF t2
  <1>2. /\ t3 \in Memory /\ lab[t3].role = lab[t2].role + 1
        /\ m[t3][PDPT_INDEX(v)] = Present(t2)
    <2>1. lab[t2].role \in {2, 12}
      BY <1>1, <1>t
    <2> QED BY <1>u, <1>1, <1>t, <2>1 DEF t3
  <1>3. m[r][PML4_INDEX(v)] = Present(t3)
    <2>1. CASE lab[t].role = 11
      <3>1. t3 = pdpt_table
        <4>1. lab[t3].role = 13
          BY <1>1, <1>2, <2>1
        <4> QED BY <1>2, <4>1 DEF Tree, TopOK
      <3>2. m[r][0] = Present(pdpt_table)
        BY DEF Tree, TopOK
      <3> QED BY <1>t, <2>1, <3>1, <3>2
    <2>2. CASE lab[t].role = 1
      <3>1. lab[t3].role = 3
        BY <1>1, <1>2, <2>2
      <3>2. m[lab[t3].by][lab[t3].ix] = Present(t3)
        BY <1>u, <1>2, <3>1
      <3> QED BY <1>t, <2>2, <3>2
    <2> QED BY <1>t, <2>1, <2>2
  <1>4. a = Present(t3)
    BY <1>3 DEF Entry4
  <1>5. b = Present(t2)
    <2>1. Entry4(m, r, v).at = t3
      BY <1>4, <1>p
    <2> QED BY <1>2, <2>1 DEF Entry3
  <1>6. c = Present(t)
    <2>1. Entry3(m, r, v).at = t2
      BY <1>5, <1>p
    <2> QED BY <1>1, <2>1 DEF Entry2
  <1> QED BY <1>4, <1>5, <1>6, <1>p DEF ReadsAt

\* A table of a space that is read through its top table hangs below it.
LEMMA ReadsFromOne ==
    ASSUME ram \in Nat, NEW m, NEW u, NEW R, NEW H, NEW lab, Tree(m, u, R, H, lab),
           NEW r \in R, NEW v \in Pages, NEW t, NEW i, lab[t].role = 1,
           ReadsAt(Entry4(m, r, v), Entry3(m, r, v), Entry2(m, r, v), v, t, i)
    PROVE  lab[lab[lab[t].by].by].by = r
  <1> DEFINE a == Entry4(m, r, v)
             b == Entry3(m, r, v)
             c == Entry2(m, r, v)
  <1>1. Routed(lab, a, b, c, v)
    BY Route
  <1>2. /\ a.present /\ b.present /\ c.present /\ ~ c.huge /\ c.at = t
    BY DEF ReadsAt
  <1>3. /\ lab[t].by = b.at /\ lab[b.at].by = a.at
        /\ t \in Memory /\ b.at \in Memory /\ a.at \in Memory
        /\ ~ a.huge /\ lab[a.at].role \in {3, 13} /\ (lab[a.at].role = 3 => PML4_INDEX(v) # 0)
    BY <1>1, <1>2 DEF Routed
  <1>4. lab[a.at].role = 3
    <2>1. lab[b.at].role = 2
      BY <1>3 DEF Tree, UpOK
    <2> QED BY <1>3, <2>1 DEF Tree, UpOK
  <1>5. a = m[r][PML4_INDEX(v)] /\ r \in Memory /\ lab[r].role = 4
    BY DEF Entry4, Tree, TopOK
  <1> HIDE DEF a, b, c
  <1>6. IsBranch(lab, r, PML4_INDEX(v)) /\ PML4_INDEX(v) \in Index
    BY <1>3, <1>4, <1>5, PageDigits DEF IsBranch
  <1>7. lab[a.at] = Label(lab[r].role - 1, r, PML4_INDEX(v), lab[r].own)
    BY <1>2, <1>3, <1>5, <1>6 DEF Tree, DownOK
  <1>8. lab[a.at].by = r
    BY <1>7 DEF Label
  <1> QED BY <1>3, <1>8

\* What page v leads to when the entry it reads is written.
LEMMA WrittenIsRead ==
    ASSUME NEW m, NEW m2, NEW lab, NEW r \in Memory, NEW v \in Pages,
           Routed(lab, Entry4(m, r, v), Entry3(m, r, v), Entry2(m, r, v), v),
           lab[r].role = 4, NEW t, NEW i, lab[t].role \in {1, 11},
           Elsewhere(m2, m, t, i), m2[t][i].present,
           ReadsAt(Entry4(m, r, v), Entry3(m, r, v), Entry2(m, r, v), v, t, i)
    PROVE  Translate(m2, r, v) = m2[t][i].at
  <1> DEFINE a == Entry4(m, r, v)
             b == Entry3(m, r, v)
             c == Entry2(m, r, v)
             a2 == Entry4(m2, r, v)
             b2 == Entry3(m2, r, v)
             c2 == Entry2(m2, r, v)
             d2 == Entry1(m2, r, v)
             p4 == PML4_INDEX(v)
             p3 == PDPT_INDEX(v)
             p2 == PD_INDEX(v)
             p1 == PT_INDEX(v)
  <1>a. a = m[r][p4] /\ a2 = m2[r][p4]
    BY DEF Entry4
  <1>b. b = m[a.at][p3] /\ b2 = m2[a2.at][p3]
    BY DEF Entry3
  <1>c. c = m[b.at][p2] /\ c2 = m2[b2.at][p2]
    BY DEF Entry2
  <1>d. d2 = m2[c2.at][p1]
    BY DEF Entry1
  <1>1. Translate(m2, r, v) = IF ~ a2.present \/ ~ b2.present \/ ~ c2.present THEN Fault
                              ELSE IF c2.huge THEN c2.at + p1
                              ELSE IF d2.present THEN d2.at ELSE Fault
    BY TranslateIs
  <1>2. p4 \in Index /\ p3 \in Index /\ p2 \in Index /\ p1 \in Index
    BY PageDigits
  <1>3. /\ a.present /\ b.present /\ c.present /\ ~ c.huge /\ c.at = t /\ p1 = i
    BY DEF ReadsAt
  <1>4. /\ a.at \in Memory /\ a.at # t /\ b.at \in Memory /\ b.at # t /\ r # t
    BY <1>3 DEF Routed
  <1> HIDE DEF a, b, c, a2, b2, c2, d2, p4, p3, p2, p1
  <1>5. a2 = a
    BY <1>a, <1>2, <1>4 DEF Elsewhere
  <1>6. b2 = b
    BY <1>b, <1>2, <1>4, <1>5 DEF Elsewhere
  <1>7. c2 = c
    BY <1>c, <1>2, <1>4, <1>6 DEF Elsewhere
  <1>8. d2 = m2[t][i]
    BY <1>d, <1>3, <1>7
  <1> QED BY <1>1, <1>3, <1>5, <1>6, <1>7, <1>8

\* In the spaces with these roots page v leads to this page, and no other page of
\* any space has moved.
Moved(m2, m, R, S, v, page) ==
    \A r \in R, x \in Pages :
        Translate(m2, r, x) = IF r \in S /\ x = v THEN page ELSE Translate(m, r, x)

LEMMA MovedThrough ==
    ASSUME NEW R, NEW S, NEW v, NEW page, NEW m2, NEW m1, NEW m0,
           Moved(m2, m1, R, S, v, page), Same(m1, m0, R)
    PROVE  Moved(m2, m0, R, S, v, page)
  <1> QED BY DEF Moved, Same

LEMMA MovedOnce ==
    ASSUME NEW R, NEW S, NEW v, NEW page, NEW m2, NEW m, Moved(m2, m, R, S, v, page)
    PROVE  OneMoves(m2, m, R)
  <1> QED BY DEF Moved, OneMoves

LEMMA EntryMoves ==
    ASSUME ram \in Nat, NEW m, NEW u, NEW R, NEW H, NEW lab, Tree(m, u, R, H, lab),
           NEW t, NEW root, NEW v \in Pages, LastTable(lab, t, root, v), NEW page,
           NEW m2, Elsewhere(m2, m, t, PT_INDEX(v)), m2[t][PT_INDEX(v)] = Present(page),
           NEW S, \A r \in R : r \in S <=> lab[t].role = 11 \/ r = root
    PROVE  Moved(m2, m, R, S, v, page)
  <1> DEFINE i == PT_INDEX(v)
  <1>1. t \in Memory /\ i \in Index /\ lab[t].role \in {1, 11}
    BY PageDigits DEF LastTable
  <1>2. Elsewhere(m2, m, t, i) /\ m2[t][i] = Present(page)
    OBVIOUS
  <1> HIDE DEF i
  <1>3. ASSUME NEW r \in R, NEW x \in Pages
        PROVE  /\ r \in Memory /\ lab[r].role = 4
               /\ Routed(lab, Entry4(m, r, x), Entry3(m, r, x), Entry2(m, r, x), x)
    BY Route DEF Tree, TopOK
  <1>4. ASSUME NEW r \in S, r \in R
        PROVE  ReadsAt(Entry4(m, r, v), Entry3(m, r, v), Entry2(m, r, v), v, t, i)
    BY <1>4, LastIsRead DEF i
  <1>5. ASSUME NEW r \in R, NEW x \in Pages,
               ReadsAt(Entry4(m, r, x), Entry3(m, r, x), Entry2(m, r, x), x, t, i)
        PROVE  r \in S /\ x = v
    <2>1. r \in S
      <3>1. CASE lab[t].role = 11
        BY <3>1
      <3>2. CASE lab[t].role = 1
        <4>1. lab[lab[lab[t].by].by].by = r
          BY <1>5, <3>2, ReadsFromOne
        <4> QED BY <3>2, <4>1 DEF LastTable
      <3> QED BY <1>1, <3>1, <3>2
    <2>2. x = v
      BY <1>3, <1>4, <1>5, <2>1, OneReads
    <2> QED BY <2>1, <2>2
  <1>6. ASSUME NEW r \in R, NEW x \in Pages
        PROVE  Translate(m2, r, x) = IF r \in S /\ x = v THEN page ELSE Translate(m, r, x)
    <2>1. CASE r \in S /\ x = v
      <3>1. /\ r \in Memory /\ lab[r].role = 4
            /\ Routed(lab, Entry4(m, r, v), Entry3(m, r, v), Entry2(m, r, v), v)
            /\ ReadsAt(Entry4(m, r, v), Entry3(m, r, v), Entry2(m, r, v), v, t, i)
        BY <1>3, <1>4, <2>1
      <3>2. m2[t][i].present /\ m2[t][i].at = page
        BY <1>2 DEF Present
      <3>3. Translate(m2, r, v) = m2[t][i].at
        BY <1>1, <1>2, <3>1, <3>2, WrittenIsRead
      <3> QED BY <2>1, <3>2, <3>3
    <2>2. CASE ~ (r \in S /\ x = v)
      BY <1>1, <1>2, <1>3, <1>5, <2>2, MovedReads
    <2> QED BY <2>1, <2>2
  <1> QED BY <1>6 DEF Moved

LEMMA WriteMoves ==
    ASSUME ram \in Nat, NEW m, NEW u, NEW R, NEW H, NEW lab, Tree(m, u, R, H, lab),
           NEW t, NEW root, NEW v \in Pages, LastTable(lab, t, root, v), NEW page,
           NEW m2, m2 = [m EXCEPT ![t][PT_INDEX(v)] = Present(page)],
           NEW S, \A r \in R : r \in S <=> lab[t].role = 11 \/ r = root
    PROVE  Moved(m2, m, R, S, v, page)
  <1>1. ASSUME NEW mm, mm = [m EXCEPT ![t][PT_INDEX(v)] = Present(page)]
        PROVE  Elsewhere(mm, m, t, PT_INDEX(v)) /\ mm[t][PT_INDEX(v)] = Present(page)
    <2>1. t \in Memory /\ PT_INDEX(v) \in Index
      BY PageDigits DEF LastTable
    <2> QED BY <1>1, <2>1, WriteEntry DEF Tree, FormOK, Elsewhere
  <1>2. ASSUME NEW mm, Elsewhere(mm, m, t, PT_INDEX(v)), mm[t][PT_INDEX(v)] = Present(page)
        PROVE  Moved(mm, m, R, S, v, page)
    BY <1>2, EntryMoves
  <1> QED BY <1>1, <1>2

---------------------------------------------------------------------------
(* The identity map keeps the huge pages of the memory that hold none of   *)
(* the kernel's windows.                                                   *)

Ram == {v \in 0 .. ram - 1 : \A x \in Windows : v \div Entries # x \div Entries}

RamHuge(m) ==
    \A v \in Ram : /\ PDPT_INDEX(v) \in 0 .. Tables - 1
                   /\ m[pdpt_table][PDPT_INDEX(v)] = Present(pd_table(PDPT_INDEX(v)))
                   /\ m[pd_table(PDPT_INDEX(v))][PD_INDEX(v)] = Huge(v - PT_INDEX(v))

\* The entry is none of the directories' over the memory.
OffRam(t, i) == \A v \in Ram : ~ (t = pd_table(PDPT_INDEX(v)) /\ i = PD_INDEX(v))

RamFree(t, i) == OffRam(t, i) /\ \A v \in Ram : ~ (t = pdpt_table /\ i = PDPT_INDEX(v))

LEMMA RamDigits ==
    ASSUME ram \in Nat, NEW m, RamHuge(m), NEW v \in Ram
    PROVE  /\ PDPT_INDEX(v) \in Index /\ PD_INDEX(v) \in Index
           /\ pd_table(PDPT_INDEX(v)) \in Memory \ Frames /\ pd_table(PDPT_INDEX(v)) # 0
           /\ pd_table(PDPT_INDEX(v)) # pdpt_table
           /\ pdpt_table \in Memory \ Frames /\ pdpt_table # 0
  <1>1. v \in Nat
    BY DEF Ram
  <1>2. PDPT_INDEX(v) \in 0 .. Tables - 1
    BY DEF RamHuge
  <1>3. pd_table(PDPT_INDEX(v)) \in Memory \ Frames
    BY <1>2, Layout
  <1>4. pd_table(PDPT_INDEX(v)) = 3 + PDPT_INDEX(v) /\ pdpt_table = 2
    BY DEF pd_table, pdpt_table
  <1>5. pd_table(PDPT_INDEX(v)) # 0 /\ pd_table(PDPT_INDEX(v)) # pdpt_table
    BY <1>2, <1>4, Sizes
  <1> QED BY <1>1, <1>3, <1>4, <1>5, Digits, Layout

\* What is written lies in page f, or is entry i of page t.
Beyond(m2, m, f, t, i) ==
    \A x \in Memory, j \in Index : x # f /\ ~ (x = t /\ j = i) => m2[x][j] = m[x][j]

LEMMA KeepsRam ==
    ASSUME ram \in Nat, NEW m, RamHuge(m), NEW f, f \in Frames \/ f = 0,
           NEW t, NEW i, RamFree(t, i), NEW m2, Beyond(m2, m, f, t, i)
    PROVE  RamHuge(m2)
  <1>1. ASSUME NEW v \in Ram
        PROVE  /\ m2[pdpt_table][PDPT_INDEX(v)] = m[pdpt_table][PDPT_INDEX(v)]
               /\ m2[pd_table(PDPT_INDEX(v))][PD_INDEX(v)] = m[pd_table(PDPT_INDEX(v))][PD_INDEX(v)]
    <2> DEFINE p == pd_table(PDPT_INDEX(v))
               j3 == PDPT_INDEX(v)
               j2 == PD_INDEX(v)
    <2>1. /\ j3 \in Index /\ j2 \in Index /\ p \in Memory /\ p # f
          /\ pdpt_table \in Memory /\ pdpt_table # f
      BY RamDigits
    <2>2. ~ (p = t /\ j2 = i) /\ ~ (pdpt_table = t /\ j3 = i)
      BY DEF RamFree, OffRam
    <2> HIDE DEF p, j3, j2
    <2>3. m2[pdpt_table][j3] = m[pdpt_table][j3] /\ m2[p][j2] = m[p][j2]
      BY <2>1, <2>2 DEF Beyond
    <2> QED BY <2>3 DEF p, j3, j2
  <1> QED BY <1>1 DEF RamHuge

\* The directories over the memory are the kernel's.
LEMMA RamRole ==
    ASSUME ram \in Nat, NEW m, NEW u, NEW R, NEW H, NEW lab, Tree(m, u, R, H, lab),
           RamHuge(m), NEW v \in Ram
    PROVE  /\ lab[pd_table(PDPT_INDEX(v))].role = 12
           /\ lab[pd_table(PDPT_INDEX(v))].ix = PDPT_INDEX(v)
  <1> DEFINE p == pd_table(PDPT_INDEX(v))
             j == PDPT_INDEX(v)
  <1>1. m[pdpt_table][j] = Present(p) /\ j \in Index /\ pdpt_table \in Memory
    BY RamDigits DEF RamHuge
  <1>2. lab[pdpt_table].role = 13
    BY <1>1 DEF Tree, TopOK
  <1> HIDE DEF p, j
  <1>3. Present(p).present /\ ~ Present(p).huge /\ Present(p).at = p
    BY DEF Present
  <1>4. lab[p] = Label(lab[pdpt_table].role - 1, pdpt_table, j, lab[pdpt_table].own)
    BY <1>1, <1>2, <1>3 DEF Tree, DownOK, IsBranch
  <1>5. lab[p].role = 12 /\ lab[p].ix = j
    BY <1>2, <1>4 DEF Label
  <1> QED BY <1>5 DEF p, j

\* A walk for page v touches no huge page of the memory when v is in another one.
Far(v) == \A x \in Ram : x \div Entries # v \div Entries

LEMMA OffRamRole ==
    ASSUME ram \in Nat, NEW m, NEW u, NEW R, NEW H, NEW lab, Tree(m, u, R, H, lab),
           RamHuge(m), NEW t, lab[t].role # 12, NEW i
    PROVE  OffRam(t, i)
  <1> QED BY RamRole DEF OffRam

LEMMA OffRamFar ==
    ASSUME ram \in Nat, ram <= TopSize, NEW m, NEW u, NEW R, NEW H, NEW lab,
           Tree(m, u, R, H, lab), RamHuge(m),
           NEW v \in 0 .. TopSize - 1, Far(v), NEW t, lab[t].ix = PDPT_INDEX(v)
    PROVE  OffRam(t, PD_INDEX(v))
  <1> SUFFICES ASSUME NEW x \in Ram, t = pd_table(PDPT_INDEX(x)), PD_INDEX(v) = PD_INDEX(x)
               PROVE  FALSE
    BY DEF OffRam
  <1>1. PDPT_INDEX(x) = PDPT_INDEX(v)
    BY RamRole
  <1>2. x \in Nat /\ x < TopSize /\ v \in Nat /\ v < TopSize
    BY Sizes DEF Ram
  <1>3. PML4_INDEX(x) = PML4_INDEX(v)
    BY <1>2, Digits
  <1>4. x \div Entries = v \div Entries
    BY <1>1, <1>2, <1>3, DigitsTell
  <1> QED BY <1>4 DEF Far

LEMMA SomeDirectories ==
    ASSUME NEW size \in Nat
    PROVE  gb_count(size) \in 1 .. Tables
  <1> DEFINE count == ((IF size < MinRam THEN MinRam ELSE size) + DirSize - 1) \div DirSize
  <1>1. count \in Int
    BY Sizes, SpaceAssumption
  <1>2. gb_count(size) = IF count > Tables THEN Tables ELSE IF count < 1 THEN 1 ELSE count
    BY DEF gb_count
  <1> HIDE DEF count
  <1> QED BY <1>1, <1>2, Sizes

LEMMA ZeroOffRam ==
    ASSUME ram \in Nat, NEW m, RamHuge(m), NEW i
    PROVE  RamFree(0, i)
  <1> QED BY RamDigits DEF RamFree, OffRam

\* Nor does an entry that maps one page.
LEMMA WriteRam ==
    ASSUME ram \in Nat, NEW m, NEW u, NEW R, NEW H, NEW lab, Tree(m, u, R, H, lab),
           RamHuge(m), NEW t \in Memory, lab[t].role \in {1, 11}, NEW i \in Index,
           NEW m2, Elsewhere(m2, m, t, i)
    PROVE  RamHuge(m2)
  <1>1. OffRam(t, i)
    BY OffRamRole
  <1>2. t # pdpt_table
    BY Layout DEF Tree, TopOK
  <1>3. RamFree(t, i)
    BY <1>1, <1>2 DEF RamFree
  <1>4. Beyond(m2, m, 0, t, i)
    BY DEF Elsewhere, Beyond
  <1> QED BY <1>3, <1>4, KeepsRam

\* The directories that start-up fills map the pages below them to themselves.
LEMMA StartEntries ==
    ASSUME ram \in Nat, mem = IdentityMap(ram), NEW v \in Nat,
           v \div DirSize \in 0 .. gb_count(ram) - 1
    PROVE  /\ PDPT_INDEX(v) \in 0 .. Tables - 1
           /\ mem[pdpt_table][PDPT_INDEX(v)] = Present(pd_table(PDPT_INDEX(v)))
           /\ mem[pd_table(PDPT_INDEX(v))][PD_INDEX(v)] = Huge(v - PT_INDEX(v))
  <1> DEFINE n == gb_count(ram)
  <1>n. n \in 1 .. Tables /\ v \div DirSize \in 0 .. n - 1
    BY SomeDirectories
  <1> HIDE DEF n
  <1> DEFINE q == v \div DirSize
             p == pd_table(q)
             j == PD_INDEX(v)
  <1>1. v \in Nat /\ q \in 0 .. n - 1 /\ q < Entries
    BY <1>n, Sizes
  <1>2. PDPT_INDEX(v) = q
    <2> HIDE DEF q
    <2>1. \A x \in Nat : x < Entries => x % Entries = x
      BY Sizes
    <2> QED BY <1>1, <2>1, <1>n DEF PDPT_INDEX, q
  <1>3. v - PT_INDEX(v) = q * DirSize + j * Entries
    <2>1. /\ v = Entries * (v \div Entries) + PT_INDEX(v)
          /\ v \div Entries = Entries * q + j
          /\ PT_INDEX(v) \in Index /\ j \in Index
      BY <1>1, DigitsMake, Digits
    <2> HIDE DEF q, j
    <2>2. PT_INDEX(v) \in Nat /\ j \in Nat /\ q \in Nat
      BY <1>n, <1>1, <2>1, Sizes DEF Index
    <2>3. Entries * (Entries * q + j) = q * (Entries * Entries) + j * Entries
      BY <2>2, Sizes
    <2>4. q * (Entries * Entries) \in Nat /\ j * Entries \in Nat
      BY <2>2, Sizes
    <2> QED BY <2>1, <2>2, <2>3, <2>4, Sizes
  <1>4. j \in Index /\ q \in Index
    BY <1>n, <1>1, Digits, Sizes DEF Index
  <1> HIDE DEF q
  <1>5. p \in {pd_table(t) : t \in 0 .. n - 1} /\ p # pml4_table /\ p # pdpt_table
    BY <1>n, <1>1 DEF pd_table, pml4_table, pdpt_table
  <1>6. p \in Memory /\ pdpt_table \in Memory /\ pdpt_table # pml4_table
    <2>1. q \in 0 .. Tables - 1
      BY <1>n, <1>1, Sizes
    <2> QED BY <2>1, Layout DEF pml4_table, pdpt_table
  <1>7. pdpt_table \notin {pd_table(t) : t \in 0 .. n - 1}
    BY <1>n DEF pdpt_table, pd_table
  <1>8. mem[pdpt_table] = [i \in Index |-> IF i < n THEN Present(pd_table(i)) ELSE Absent]
    BY <1>6, <1>7 DEF IdentityMap, Memory, n
  <1>9. mem[p] = [i \in Index |-> Huge((p - pd_table(0)) * DirSize + i * Entries)]
    BY <1>5, <1>6 DEF IdentityMap, Memory, n
  <1>10. p - pd_table(0) = q
    BY <1>n, <1>1 DEF pd_table
  <1> HIDE DEF p, j
  <1>11. mem[pdpt_table][q] = Present(pd_table(q))
    BY <1>n, <1>1, <1>4, <1>8
  <1>12. mem[p][j] = Huge(q * DirSize + j * Entries)
    BY <1>4, <1>9, <1>10
  <1>13. q \in 0 .. Tables - 1
    BY <1>n, <1>1, Sizes
  <1> QED BY <1>2, <1>3, <1>11, <1>12, <1>13 DEF p, j

\* The directories that start-up fills reach over the whole memory.
LEMMA EnoughDirectories ==
    ASSUME ram \in Nat, ram <= Tables * DirSize, NEW v \in 0 .. ram - 1
    PROVE  /\ v \div DirSize \in 0 .. gb_count(ram) - 1
           /\ v <= gb_count(ram) * DirSize - 1
  <1> DEFINE n == gb_count(ram)
  <1>0. n \in 1 .. Tables
    BY SomeDirectories
  <1> DEFINE bytes == IF ram < MinRam THEN MinRam ELSE ram
             count == (bytes + DirSize - 1) \div DirSize
             q == v \div DirSize
  <1>1. bytes \in Nat /\ ram <= bytes /\ v \in Nat /\ v + 1 <= ram
    BY SpaceAssumption
  <1>2. n = IF count > Tables THEN Tables ELSE IF count < 1 THEN 1 ELSE count
    BY DEF gb_count
  <1>3. q \in Nat /\ DirSize * q <= v
    BY <1>1, Quotient, Sizes
  <1>4. count \in Nat /\ bytes + DirSize - 1 < DirSize * count + DirSize
    <2>1. bytes + DirSize - 1 \in Nat
      BY <1>1, Sizes
    <2> QED BY <2>1, Quotient, Sizes
  <1> HIDE DEF bytes, count, q, n
  <1>5. \A k \in Nat : k <= q => DirSize * k <= DirSize * q
    <2>1. ASSUME NEW k \in Nat, k <= q PROVE DirSize * k <= DirSize * q
      <3>1. q - k \in Nat /\ q = k + (q - k)
        BY <1>3, <2>1
      <3>2. DirSize * q = DirSize * k + DirSize * (q - k)
        BY <3>1, Sizes
      <3>3. DirSize * (q - k) \in Nat /\ DirSize * k \in Nat
        BY <3>1, Sizes
      <3> QED BY <3>2, <3>3
    <2> QED BY <2>1
  <1>6. q < count
    <2>1. DirSize * count \in Nat
      BY <1>4, Sizes
    <2> QED BY <1>1, <1>3, <1>4, <1>5, <2>1, Sizes
  <1>7. q < Tables
    <2>1. Tables * DirSize = DirSize * Tables /\ DirSize * Tables \in Nat
      BY Sizes
    <2> QED BY <1>1, <1>3, <1>5, <2>1, Sizes
  <1>8. q \in 0 .. n - 1
    BY <1>0, <1>2, <1>3, <1>4, <1>6, <1>7, Sizes
  <1>9. v <= n * DirSize - 1
    <2>1. v < DirSize * q + DirSize
      BY <1>1, Quotient, Sizes DEF q
    <2>2. n \in Nat /\ n - (q + 1) \in Nat /\ n = q + 1 + (n - (q + 1))
      BY <1>0, <1>3, <1>8, Sizes
    <2>3. n * DirSize = DirSize * q + DirSize + (n - (q + 1)) * DirSize
      BY <1>3, <2>2, Sizes
    <2>4. (n - (q + 1)) * DirSize \in Nat /\ DirSize * q \in Nat
      BY <1>3, <2>2, Sizes
    <2> QED BY <1>1, <2>1, <2>3, <2>4, Sizes
  <1> QED BY <1>8, <1>9 DEF q, n

\* paging_init maps the memory to itself.
LEMMA RamStart ==
    ASSUME ram \in Nat, mem = IdentityMap(ram), ram <= Tables * DirSize
    PROVE  RamHuge(mem)
  <1> DEFINE n == gb_count(ram)
  <1>2. ASSUME NEW v \in Ram PROVE v \div DirSize \in 0 .. n - 1
    BY EnoughDirectories DEF Ram
  <1> HIDE DEF n
  <1>3. ASSUME NEW v \in Ram
        PROVE  /\ PDPT_INDEX(v) \in 0 .. Tables - 1
               /\ mem[pdpt_table][PDPT_INDEX(v)] = Present(pd_table(PDPT_INDEX(v)))
               /\ mem[pd_table(PDPT_INDEX(v))][PD_INDEX(v)] = Huge(v - PT_INDEX(v))
    <2>1. v \in Nat
      BY DEF Ram
    <2> QED BY <1>2, <2>1, StartEntries DEF n
  <1> QED BY <1>3 DEF RamHuge

---------------------------------------------------------------------------
(* The walk of map_page.                                                   *)

\* The walk w has come to a table of role k.
OnWalk(w, lab, R, H, k) ==
    /\ w = [mem |-> w.mem, used |-> w.used, zero |-> w.zero, table |-> w.table]
    /\ Tree(w.mem, w.used, R, H, lab)
    /\ w.table \in Memory /\ lab[w.table].role = k

\* A table is there to follow.
Follows(w, i) == w.mem[w.table][i].present /\ ~ w.mem[w.table][i].huge

\* A table is needed and no frame is left.
Stuck(w, i) == ~ Follows(w, i) /\ AllocFrame(w.used) = 0

NextLabel(lab, w, i) ==
    IF Follows(w, i) THEN lab ELSE AddLabel(lab, AllocFrame(w.used), w.table, i)

\* A step that follows an entry changes nothing; one that adds a table leaves
\* it empty, unless it splits a huge page of the kernel's.
Stepped(w, w2, lab, lab2, R, H, k, i) ==
    /\ OnWalk(w2, lab2, R, H, k - 1)
    /\ w2.zero <=> w.zero
    /\ lab2[w2.table].by = w.table /\ lab2[w2.table].ix = i
    /\ \A x \in Memory : lab[x].role # 30 => lab2[x] = lab[x]
    /\ Same(w2.mem, w.mem, R)
    /\ RamHuge(w.mem) /\ OffRam(w.table, i) => RamHuge(w2.mem)
    /\ Follows(w, i) => w2.mem = w.mem /\ w2.table = w.mem[w.table][i].at
    /\ ~ Follows(w, i) /\ k # 12 => \A j \in Index : ~ w2.mem[w2.table][j].present

LEMMA WalkStep ==
    ASSUME ram \in Nat, NEW R, NEW H, NEW lab, NEW k \in {2, 3, 4, 12, 13},
           NEW w, OnWalk(w, lab, R, H, k),
           NEW i \in Index, k = 4 => i # 0 /\ w.table # pml4_table, ~ Stuck(w, i),
           NEW w2, w2 = Descend(w, i), NEW lab2, lab2 = NextLabel(lab, w, i)
    PROVE  Stepped(w, w2, lab, lab2, R, H, k, i)
  <1> DEFINE m == w.mem
             u == w.used
             t == w.table
             f == AllocFrame(u)
  <1>1. IsBranch(lab, t, i) /\ lab[t].role = k /\ Tree(m, u, R, H, lab) /\ t # pml4_table
    BY DEF OnWalk, IsBranch, Tree, TopOK
  <1>2. CASE Follows(w, i)
    <2>1. w2 = [w EXCEPT !.table = m[t][i].at] /\ lab2 = lab
      BY <1>2 DEF Descend, Follows, NextLabel
    <2>2. w2 = [mem |-> m, used |-> u, zero |-> w.zero, table |-> m[t][i].at]
      BY <2>1 DEF OnWalk
    <2>3. m[t][i].at \in Memory /\ lab[m[t][i].at] = Label(k - 1, t, i, lab[t].own)
      BY <1>1, <1>2 DEF Follows, Tree, DownOK, IsBranch
    <2>4. /\ lab[m[t][i].at].role = k - 1 /\ lab[m[t][i].at].by = t
          /\ lab[m[t][i].at].ix = i
      BY <2>3 DEF Label
    <2>5. Same(m, m, R)
      BY DEF Same
    <2> QED BY <1>1, <1>2, <2>1, <2>2, <2>3, <2>4, <2>5 DEF OnWalk, Stepped
  <1>3. CASE ~ Follows(w, i)
    <2>1. f # 0 /\ f \in Frames \ u
      BY <1>3, Allocated DEF Stuck
    <2>2. PICK content :
             /\ \/ ~ m[t][i].present /\ content = Blank
                \/ m[t][i].present /\ m[t][i].huge /\ content = Split(m[t][i].at)
             /\ w2 = AddTable(w, i, content)
      BY <1>3 DEF Descend, Follows
    <2>3. w2 = [mem |-> [m EXCEPT ![f] = content, ![t][i] = Present(f)],
                used |-> u \cup {f}, zero |-> w.zero \/ f = 0, table |-> f]
      BY <2>1, <2>2 DEF AddTable
    <2>4. /\ w2.mem = [m EXCEPT ![f] = content, ![t][i] = Present(f)]
          /\ w2.used = u \cup {f} /\ w2.table = f /\ w2.zero = (w.zero \/ f = 0)
      BY <2>3
    <2>5. lab2 = AddLabel(lab, f, t, i)
      BY <1>3 DEF NextLabel
    <2>6. ~ Absent.present /\ Blank = [j \in Index |-> Absent]
      BY DEF Absent, Blank
    <2>7. DOMAIN content = Index /\ (k = 12 \/ \A j \in Index : ~ content[j].present)
      <3>1. m[t][i].huge /\ m[t][i].present => k = 12
        BY <1>1 DEF Tree, DownOK, IsBranch
      <3> QED BY <2>2, <2>6, <3>1 DEF Split
    <2>8. f \in Memory /\ lab[f].role = 30 /\ f # t
      BY <1>1, <2>1, FreeRole
    <2> HIDE DEF m, u, t, f
    <2>9. Tree(w2.mem, w2.used, R, H, lab2)
      <3>1. ~ m[t][i].present \/ m[t][i].huge
        BY <1>3 DEF Follows, m, t
      <3> QED BY <1>1, <2>1, <2>4, <2>5, <2>7, <3>1, HangTable
    <2>10. /\ lab2[f].role = k - 1 /\ lab2[f].by = t /\ lab2[f].ix = i
           /\ \A x \in Memory : lab[x].role # 30 => lab2[x] = lab[x]
      BY <1>1, <2>5, <2>8 DEF AddLabel, Label, Tree, FormOK
    <2>11. \A j \in Index : w2.mem[f][j] = content[j]
      <3>1. \A x \in Memory, j \in Index : w2.mem[x][j] =
              IF x = t /\ j = i THEN Present(f) ELSE IF x = f THEN content[j] ELSE m[x][j]
        BY <1>1, <2>4, <2>7, <2>8, AddEntries DEF Tree, FormOK, IsBranch
      <3> QED BY <2>8, <3>1
    <2>12. w2.zero <=> w.zero
      BY <2>1, <2>4
    <2>13. w2 = [mem |-> w2.mem, used |-> w2.used, zero |-> w2.zero, table |-> w2.table]
      BY <2>3
    <2>14. Same(w2.mem, m, R)
      <3>1. \/ ~ m[t][i].present /\ \A j \in Index : ~ content[j].present
            \/ m[t][i].present /\ m[t][i].huge /\ content = Split(m[t][i].at)
        BY <2>2, <2>6
      <3>2. IsBranch(lab, t, i) /\ lab[t].role # 1 /\ DOMAIN content = Index
        BY <1>1, <2>7
      <3> QED BY <1>1, <2>1, <2>4, <3>1, <3>2, AddSame
    <2>15. ASSUME RamHuge(m), OffRam(t, i)
           PROVE  RamHuge(w2.mem)
      <3>1. ASSUME NEW v \in Ram, t = pdpt_table, i = PDPT_INDEX(v) PROVE FALSE
        <4>1. m[t][i] = Present(pd_table(PDPT_INDEX(v)))
          BY <2>15, <3>1 DEF RamHuge
        <4> QED BY <1>3, <4>1 DEF Follows, Present, m, t
      <3>2. RamFree(t, i)
        BY <2>15, <3>1 DEF RamFree
      <3>3. Beyond(w2.mem, m, f, t, i)
        <4>1. t \in Memory /\ DOMAIN m = Memory /\ \A x \in Memory : DOMAIN m[x] = Index
          BY <1>1 DEF Tree, FormOK, IsBranch
        <4>2. \A x \in Memory, j \in Index : x # f /\ ~ (x = t /\ j = i) => w2.mem[x][j] = m[x][j]
          BY <1>1, <2>4, <2>7, <2>8, <4>1, AddedEntries DEF IsBranch
        <4> QED BY <4>2 DEF Beyond
      <3> QED BY <2>1, <2>15, <3>2, <3>3, KeepsRam
    <2> QED BY <1>3, <2>4, <2>7, <2>8, <2>9, <2>10, <2>11, <2>12, <2>13, <2>14, <2>15
            DEF OnWalk, Stepped, m, u, t
  <1> QED BY <1>2, <1>3

\* When no frame is left, the walk goes on in page 0; the top tables keep what
\* they share.
Shares(m, R) == \A r \in R : m[r][0] = Present(pdpt_table)

Fallen(w, R) ==
    /\ w = [mem |-> w.mem, used |-> w.used, zero |-> w.zero, table |-> w.table]
    /\ w.zero /\ w.table = 0 /\ AllocFrame(w.used) = 0
    /\ DOMAIN w.mem = Memory /\ \A x \in Memory : DOMAIN w.mem[x] = Index
    /\ pml4_table \in R
    /\ \A r \in R : r \in Memory /\ r # 0 /\ w.mem[r][0] = Present(pdpt_table)

\* Page 0 leads nowhere else.
Loops(w) == \A j \in Index : w.mem[0][j].present => w.mem[0][j] = Present(0)

LEMMA AddFallen ==
    ASSUME ram \in Nat, NEW R, pml4_table \in R, NEW w, AllocFrame(w.used) = 0,
           DOMAIN w.mem = Memory, \A x \in Memory : DOMAIN w.mem[x] = Index,
           \A r \in R : r \in Memory /\ r # 0 /\ w.mem[r][0] = Present(pdpt_table),
           w.table \in Memory, NEW i \in Index, w.table \in R => i # 0,
           NEW content, DOMAIN content = Index,
           NEW w2, w2 = AddTable(w, i, content)
    PROVE  /\ Fallen(w2, R)
           /\ (\A j \in Index : ~ content[j].present) => Loops(w2)
           /\ RamHuge(w.mem) /\ RamFree(w.table, i) => RamHuge(w2.mem)
  <1> DEFINE m == w.mem
             t == w.table
  <1>1. w2 = [mem |-> [m EXCEPT ![0] = content, ![t][i] = Present(0)],
              used |-> w.used \cup ({0} \ {0}), zero |-> (w.zero \/ 0 = 0), table |-> 0]
    BY DEF AddTable
  <1>2. /\ w2.mem = [m EXCEPT ![0] = content, ![t][i] = Present(0)]
        /\ w2.used = w.used \cup ({0} \ {0}) /\ w2.zero = (w.zero \/ 0 = 0) /\ w2.table = 0
        /\ w2 = [mem |-> w2.mem, used |-> w2.used, zero |-> w2.zero, table |-> w2.table]
    BY <1>1
  <1>3. w2.zero
    BY <1>2
  <1>4. AllocFrame(w2.used) = 0
    <2>1. AllocFrame(w.used) = 0 => Frames \subseteq w.used
      <3>1. CASE ~ (Frames \subseteq w.used)
        <4>1. AllocFrame(w.used) \in Frames
          <5>1. Frames \ w.used # {} /\ Frames \ w.used \subseteq Nat
            BY <3>1, Layout
          <5>2. Min(Frames \ w.used) \in Frames \ w.used
            BY <5>1, MinOfNat
          <5> QED BY <3>1, <5>2 DEF AllocFrame
        <4> QED BY <4>1, Layout
      <3> QED BY <3>1
    <2> QED BY <1>2, <2>1 DEF AllocFrame
  <1>5. /\ 0 \in Memory /\ 0 \in Index /\ t \in Memory
        /\ DOMAIN m = Memory /\ \A x \in Memory : DOMAIN m[x] = Index
        /\ \A r \in R : r \in Memory /\ r # 0 /\ m[r][0] = Present(pdpt_table)
        /\ t \in R => i # 0
    BY Layout, Digits DEF Index
  <1> HIDE DEF m, t
  <1>6. /\ DOMAIN w2.mem = Memory /\ \A x \in Memory : DOMAIN w2.mem[x] = Index
        /\ \A x \in Memory, j \in Index : w2.mem[x][j] =
             IF x = t /\ j = i THEN Present(0) ELSE IF x = 0 THEN content[j] ELSE m[x][j]
    <2> DEFINE f == 0
               m2 == w2.mem
    <2>1. f \in Memory /\ m2 = [m EXCEPT ![f] = content, ![t][i] = Present(f)]
      BY <1>2, <1>5
    <2> HIDE DEF f, m2
    <2>2. /\ DOMAIN m2 = Memory /\ \A x \in Memory : DOMAIN m2[x] = Index
          /\ \A x \in Memory, j \in Index : m2[x][j] =
               IF x = t /\ j = i THEN Present(f) ELSE IF x = f THEN content[j] ELSE m[x][j]
      BY <1>5, <2>1, AddEntries
    <2> QED BY <2>2 DEF f, m2
  <1>7. \A r \in R : r \in Memory /\ r # 0 /\ w2.mem[r][0] = Present(pdpt_table)
    BY <1>5, <1>6
  <1>8. (\A j \in Index : ~ content[j].present) => Loops(w2)
    BY <1>5, <1>6 DEF Loops
  <1>9. ASSUME RamHuge(m), RamFree(t, i) PROVE RamHuge(w2.mem)
    <2>1. Beyond(w2.mem, m, 0, t, i)
      BY <1>6 DEF Beyond
    <2> QED BY <1>9, <2>1, KeepsRam
  <1> QED BY <1>2, <1>3, <1>4, <1>6, <1>7, <1>8, <1>9 DEF Fallen, m, t

LEMMA StuckStep ==
    ASSUME ram \in Nat, NEW R, NEW H, NEW lab, NEW k \in {2, 3, 4, 12, 13},
           NEW w, OnWalk(w, lab, R, H, k),
           NEW i \in Index, k = 4 => i # 0, Stuck(w, i),
           NEW w2, w2 = Descend(w, i)
    PROVE  /\ Fallen(w2, R) /\ (k # 12 => Loops(w2))
           /\ RamHuge(w.mem) /\ OffRam(w.table, i) => RamHuge(w2.mem)
  <1>1. Tree(w.mem, w.used, R, H, lab) /\ w.table \in Memory /\ lab[w.table].role = k
    BY DEF OnWalk
  <1>2. PICK content :
           /\ content = Blank \/ (/\ w.mem[w.table][i].huge /\ w.mem[w.table][i].present
                                  /\ content = Split(w.mem[w.table][i].at))
           /\ w2 = AddTable(w, i, content)
    BY DEF Stuck, Descend, Follows
  <1>3. DOMAIN content = Index
    BY <1>2 DEF Blank, Split
  <1>4. k # 12 => content = Blank
    <2>1. IsBranch(lab, w.table, i)
      BY <1>1 DEF IsBranch
    <2> QED BY <1>1, <1>2, <2>1 DEF Tree, DownOK, IsBranch
  <1>5. \A j \in Index : ~ Blank[j].present
    BY DEF Blank, Absent
  <1>6. \A r \in R : r \in Memory /\ r # 0 /\ w.mem[r][0] = Present(pdpt_table)
    <2>1. ASSUME NEW r \in R PROVE r \in Memory /\ r # 0 /\ w.mem[r][0] = Present(pdpt_table)
      <3>1. r \in Memory /\ lab[r].role = 4 /\ w.mem[r][0] = Present(pdpt_table)
        BY <1>1 DEF Tree, TopOK
      <3>2. r = 0 => r = pml4_table
        BY <1>1, <3>1, Layout DEF Tree, UseOK
      <3> QED BY <3>1, <3>2 DEF pml4_table
    <2> QED BY <2>1
  <1>7. w.table \in R => i # 0
    BY <1>1 DEF Tree, TopOK
  <1>8. /\ pml4_table \in R /\ DOMAIN w.mem = Memory
        /\ \A x \in Memory : DOMAIN w.mem[x] = Index
        /\ AllocFrame(w.used) = 0
    BY <1>1 DEF Tree, TopOK, FormOK, Stuck
  <1>9. ASSUME RamHuge(w.mem), OffRam(w.table, i) PROVE RamFree(w.table, i)
    <2>1. ASSUME NEW v \in Ram, w.table = pdpt_table, i = PDPT_INDEX(v) PROVE FALSE
      <3>1. w.mem[w.table][i] = Present(pd_table(PDPT_INDEX(v)))
        BY <1>9, <2>1 DEF RamHuge
      <3> QED BY <3>1 DEF Stuck, Follows, Present
    <2> QED BY <1>9, <2>1 DEF RamFree
  <1> QED BY <1>1, <1>2, <1>3, <1>4, <1>5, <1>6, <1>7, <1>8, <1>9, AddFallen

LEMMA FallenStep ==
    ASSUME ram \in Nat, NEW R, NEW w, Fallen(w, R), Loops(w),
           NEW i \in Index, NEW w2, w2 = Descend(w, i)
    PROVE  Fallen(w2, R) /\ Loops(w2) /\ (RamHuge(w.mem) => RamHuge(w2.mem))
  <1>1. w.table = 0 /\ 0 \in Memory /\ 0 \notin R
    BY Layout DEF Fallen
  <1>2. CASE w.mem[0][i].present
    <2>1. w.mem[0][i] = Present(0)
      BY <1>2 DEF Loops
    <2>2. w2 = [w EXCEPT !.table = 0]
      BY <1>1, <1>2, <2>1 DEF Descend, Present
    <2>3. w2 = w
      BY <1>1, <2>2 DEF Fallen
    <2> QED BY <2>3
  <1>3. CASE ~ w.mem[0][i].present
    <2>1. w2 = AddTable(w, i, Blank)
      BY <1>1, <1>3 DEF Descend
    <2>2. DOMAIN Blank = Index /\ \A j \in Index : ~ Blank[j].present
      BY DEF Blank, Absent
    <2>3. RamHuge(w.mem) => RamFree(w.table, i)
      BY <1>1, ZeroOffRam
    <2> QED BY <1>1, <2>1, <2>2, <2>3, AddFallen DEF Fallen
  <1> QED BY <1>2, <1>3

LEMMA FallenEnd ==
    ASSUME ram \in Nat, NEW R, NEW w, Fallen(w, R), NEW i \in Index, NEW entry,
           NEW m2, m2 = [w.mem EXCEPT ![w.table][i] = entry]
    PROVE  Shares(m2, R) /\ (RamHuge(w.mem) => RamHuge(m2))
  <1>1. /\ w.table = 0 /\ 0 \in Memory /\ 0 \in Index
        /\ w = [mem |-> w.mem, used |-> w.used, zero |-> w.zero, table |-> w.table]
    BY Layout, Digits DEF Fallen
  <1>2. m2 = [w.mem EXCEPT ![0][i] = entry]
    BY <1>1
  <1>3. \A r \in R : m2[r] = w.mem[r]
    BY <1>2 DEF Fallen
  <1>4. ASSUME RamHuge(w.mem) PROVE RamHuge(m2)
    <2>1. Beyond(m2, w.mem, 0, 0, i)
      BY <1>2 DEF Fallen, Beyond
    <2>2. RamFree(0, i)
      BY <1>4, ZeroOffRam
    <2> QED BY <1>4, <2>1, <2>2, KeepsRam
  <1> QED BY <1>2, <1>3, <1>4 DEF Fallen, Shares

LEMMA WalkEnd ==
    ASSUME NEW w,
           w = [mem |-> w.mem, used |-> w.used, zero |-> w.zero, table |-> w.table],
           NEW i, NEW entry, NEW w2, w2 = [w EXCEPT !.mem[w.table][i] = entry]
    PROVE  /\ w2.mem = [w.mem EXCEPT ![w.table][i] = entry]
           /\ w2.used = w.used /\ w2.zero = w.zero
  <1> QED OBVIOUS

\* What map_page keeps: the tree, and all translations but that of page v in the
\* spaces with these roots; when no frame is left, what the top tables share.
Kept(w, R, H, S, v, page) ==
    IF w.zero THEN Shares(w.mem, R)
    ELSE Moved(w.mem, mem, R, S, v, page) /\ \E lab : Tree(w.mem, w.used, R, H, lab)

LEMMA LowPages == 0 .. TopSize - 1 \subseteq Pages
  <1>1. TopSize <= TopSize * Entries
    <2>1. TopSize * Entries = TopSize + TopSize * (Entries - 1)
      BY Sizes
    <2>2. Entries - 1 \in Nat
      BY Sizes
    <2>3. TopSize * (Entries - 1) \in Nat
      BY <2>2, Sizes
    <2> QED BY <2>1, <2>3, Sizes
  <1>2. SpaceSize \in Int
    BY <1>1, Sizes
  <1> QED BY <1>1, <1>2, Sizes DEF Pages

\* The kernel maps a page below the shared entry.
LEMMA KernelWalk ==
    ASSUME ram \in Nat, ~ zeroTable, NEW taken, NEW R, NEW H, NEW lab,
           Tree(mem, taken, R, H, lab), NEW v \in 0 .. TopSize - 1, NEW page
    PROVE  /\ Kept(MapPage(taken, pml4_table, v, page), R, H, R, v, page)
           /\ ram <= TopSize /\ Far(v) /\ RamHuge(mem)
                 => RamHuge(MapPage(taken, pml4_table, v, page).mem)
  <1> DEFINE top == [mem |-> mem, used |-> taken, zero |-> zeroTable, table |-> pml4_table]
             a == PDPT_INDEX(v)
             b == PD_INDEX(v)
             c == PT_INDEX(v)
             w1 == Descend(top, PML4_INDEX(v))
             w2 == Descend(w1, a)
             w3 == Descend(w2, b)
             w == [w3 EXCEPT !.mem[w3.table][c] = Present(page)]
             far == ram <= TopSize /\ Far(v) /\ RamHuge(mem)
  <1>1. MapPage(taken, pml4_table, v, page) = w
    BY DEF MapPage
  <1>w. w = [w3 EXCEPT !.mem[w3.table][c] = Present(page)]
    OBVIOUS
  <1> HIDE DEF w
  <1>2. v \in Nat /\ PML4_INDEX(v) = 0 /\ a \in Index /\ b \in Index /\ c \in Index
    <2>1. v \in Nat /\ v < TopSize
      BY Sizes
    <2> QED BY <2>1, Digits
  <1>3. OnWalk(w1, lab, R, H, 13) /\ ~ w1.zero /\ w1.mem = mem
    <2>1. mem[pml4_table][0] = Present(pdpt_table)
      BY DEF Tree, TopOK
    <2>2. w1 = [top EXCEPT !.table = pdpt_table]
      BY <1>2, <2>1 DEF Descend, Present
    <2>3. w1 = [mem |-> mem, used |-> taken, zero |-> zeroTable, table |-> pdpt_table]
      BY <2>2
    <2>4. w1.mem = mem /\ w1.used = taken /\ w1.zero = zeroTable /\ w1.table = pdpt_table
      BY <2>3
    <2>5. pdpt_table \in Memory /\ lab[pdpt_table].role = 13
      BY Layout DEF Tree, TopOK
    <2> HIDE DEF w1
    <2> QED BY <2>3, <2>4, <2>5 DEF OnWalk
  <1> HIDE DEF w1
  <1>4. far => RamHuge(w1.mem) /\ OffRam(w1.table, a)
    BY <1>3, OffRamRole DEF OnWalk
  <1>5. ASSUME NEW t, NEW l, NEW m, NEW u, Tree(m, u, R, H, l), l[t].ix = a, RamHuge(m), far
        PROVE  OffRam(t, b)
    BY <1>5, OffRamFar
  <1> HIDE DEF a, b, c, far
  <1>6. CASE Stuck(w1, a)
    <2>1. Fallen(w2, R) /\ Loops(w2) /\ (far => RamHuge(w2.mem))
      BY <1>2, <1>3, <1>4, <1>6, StuckStep
    <2> HIDE DEF w2
    <2>2. Fallen(w3, R) /\ (far => RamHuge(w3.mem))
      BY <1>2, <2>1, FallenStep
    <2> HIDE DEF w3
    <2>w. w.mem = [w3.mem EXCEPT ![w3.table][c] = Present(page)] /\ w.zero = w3.zero
      BY <1>w, <2>2, WalkEnd DEF Fallen
    <2>3. w.zero /\ Shares(w.mem, R) /\ (RamHuge(w3.mem) => RamHuge(w.mem))
      <3>1. Shares(w.mem, R) /\ (RamHuge(w3.mem) => RamHuge(w.mem))
        BY <1>2, <2>2, <2>w, FallenEnd
      <3> QED BY <2>2, <2>w, <3>1 DEF Fallen
    <2> QED BY <1>1, <2>2, <2>3 DEF Kept, far
  <1>7. CASE ~ Stuck(w1, a)
    <2> DEFINE lab2 == NextLabel(lab, w1, a)
    <2>1. Stepped(w1, w2, lab, lab2, R, H, 13, a)
      BY <1>2, <1>3, <1>7, WalkStep
    <2> HIDE DEF w2, lab2
    <2>2. /\ OnWalk(w2, lab2, R, H, 12) /\ ~ w2.zero
          /\ lab2[w2.table].ix = a
          /\ Same(w2.mem, mem, R) /\ (far => RamHuge(w2.mem))
      BY <1>3, <1>4, <2>1 DEF Stepped
    <2>3. far => OffRam(w2.table, b)
      BY <1>5, <2>2 DEF OnWalk
    <2>4. CASE Stuck(w2, b)
      <3>1. Fallen(w3, R) /\ (far => RamHuge(w3.mem))
        BY <1>2, <2>2, <2>3, <2>4, StuckStep
      <3> HIDE DEF w3
      <3>w. w.mem = [w3.mem EXCEPT ![w3.table][c] = Present(page)] /\ w.zero = w3.zero
        BY <1>w, <3>1, WalkEnd DEF Fallen
      <3>2. w.zero /\ Shares(w.mem, R) /\ (RamHuge(w3.mem) => RamHuge(w.mem))
        <4>1. Shares(w.mem, R) /\ (RamHuge(w3.mem) => RamHuge(w.mem))
          BY <1>2, <3>1, <3>w, FallenEnd
        <4> QED BY <3>1, <3>w, <4>1 DEF Fallen
      <3> QED BY <1>1, <3>1, <3>2 DEF Kept, far
    <2>5. CASE ~ Stuck(w2, b)
      <3> DEFINE lab3 == NextLabel(lab2, w2, b)
      <3>1. Stepped(w2, w3, lab2, lab3, R, H, 12, b)
        BY <1>2, <2>2, <2>5, WalkStep
      <3> HIDE DEF w3, lab3
      <3>2. /\ OnWalk(w3, lab3, R, H, 11) /\ ~ w3.zero
            /\ Same(w3.mem, w2.mem, R) /\ (far => RamHuge(w3.mem))
        BY <2>2, <2>3, <3>1 DEF Stepped
      <3>3. /\ w.mem = [w3.mem EXCEPT ![w3.table][c] = Present(page)]
            /\ w.used = w3.used /\ w.zero = w3.zero
        BY <1>w, <3>2, WalkEnd DEF OnWalk
      <3>4. Tree(w.mem, w.used, R, H, lab3)
        BY <1>2, <3>2, <3>3, KernelEntry DEF OnWalk
      <3>5. Moved(w.mem, mem, R, R, v, page)
        <4>1. /\ lab3[w3.table].by = w2.table /\ lab3[w3.table].ix = b
              /\ lab3[w3.table].role = 11 /\ w3.table \in Memory
              /\ lab3[w2.table] = lab2[w2.table]
          BY <2>2, <3>1 DEF Stepped, OnWalk
        <4>2. LastTable(lab3, w3.table, pml4_table, v)
          BY <1>2, <2>2, <4>1 DEF LastTable, a, b
        <4>3. Moved(w.mem, w3.mem, R, R, v, page)
          <5>1. v \in Pages
            BY LowPages
          <5>2. Tree(w3.mem, w3.used, R, H, lab3)
            BY <3>2 DEF OnWalk
          <5> QED BY <3>3, <4>1, <4>2, <5>1, <5>2, WriteMoves DEF c
        <4>4. Same(w3.mem, mem, R)
          BY <2>2, <3>2, SameThrough
        <4> QED BY <4>3, <4>4, MovedThrough
      <3>6. far => RamHuge(w.mem)
        <4>1. Elsewhere(w.mem, w3.mem, w3.table, c)
          BY <1>2, <3>2, <3>3, WriteEntry DEF OnWalk, Tree, FormOK, Elsewhere
        <4> QED BY <1>2, <3>2, <4>1, WriteRam DEF OnWalk
      <3> QED BY <1>1, <3>2, <3>3, <3>4, <3>5, <3>6 DEF Kept, far
    <2> QED BY <2>4, <2>5
  <1> QED BY <1>6, <1>7

\* The walk has either followed entries of the tree as it was, or come to a
\* table just added.
Empty(w) == \A j \in Index : ~ w.mem[w.table][j].present

LEMMA KeepsEmpty ==
    ASSUME NEW w, NEW w2, NEW lab, NEW lab2, NEW R, NEW H, NEW k, k # 12, NEW i \in Index,
           Stepped(w, w2, lab, lab2, R, H, k, i)
    PROVE  /\ Empty(w) => Empty(w2)
           /\ Empty(w2) \/ (/\ w.mem[w.table][i].present /\ ~ w.mem[w.table][i].huge
                            /\ w2.mem = w.mem /\ w2.table = w.mem[w.table][i].at)
  <1> QED BY DEF Stepped, Empty, Follows

\* A page that a space does not map has no entry, wherever the walk ends.
LEMMA EndIsFree ==
    ASSUME ram \in Nat, NEW root, NEW v, Translate(mem, root, v) = Fault,
           NEW w1, NEW w2, NEW w3, NEW R, NEW H, NEW lab, OnWalk(w3, lab, R, H, 1),
           PT_INDEX(v) \in Index,
           Empty(w1) \/ (/\ mem[root][PML4_INDEX(v)].present
                         /\ w1.mem = mem /\ w1.table = mem[root][PML4_INDEX(v)].at),
           Empty(w1) => Empty(w2),
           Empty(w2) \/ (/\ w1.mem[w1.table][PDPT_INDEX(v)].present
                         /\ w2.mem = w1.mem /\ w2.table = w1.mem[w1.table][PDPT_INDEX(v)].at),
           Empty(w2) => Empty(w3),
           Empty(w3) \/ (/\ w2.mem[w2.table][PD_INDEX(v)].present
                         /\ ~ w2.mem[w2.table][PD_INDEX(v)].huge
                         /\ w3.mem = w2.mem /\ w3.table = w2.mem[w2.table][PD_INDEX(v)].at)
    PROVE  ~ w3.mem[w3.table][PT_INDEX(v)].present
  <1> DEFINE a == mem[root][PML4_INDEX(v)]
             b == mem[a.at][PDPT_INDEX(v)]
             c == mem[b.at][PD_INDEX(v)]
             d == mem[c.at][PT_INDEX(v)]
  <1>1. CASE Empty(w3)
    BY <1>1 DEF Empty
  <1>2. CASE ~ Empty(w3)
    <2>1. ~ Empty(w1) /\ ~ Empty(w2)
      BY <1>2
    <2>2. a.present /\ w1.mem = mem /\ w1.table = a.at
      BY <2>1
    <2> HIDE DEF a
    <2>3. b.present /\ w2.mem = mem /\ w2.table = b.at
      BY <2>1, <2>2
    <2> HIDE DEF b
    <2>4. c.present /\ ~ c.huge /\ w3.mem = mem /\ w3.table = c.at
      BY <1>2, <2>3
    <2> HIDE DEF c
    <2>5. d.present => d.at \in Nat
      <3>1. IsBranch(lab, w3.table, PT_INDEX(v)) /\ lab[w3.table].role = 1
        BY DEF OnWalk, IsBranch
      <3>2. d.present => d.at \in Memory
        BY <2>4, <3>1 DEF OnWalk, Tree, DownOK, IsBranch
      <3> QED BY <3>2, Layout
    <2>6. Translate(mem, root, v) = IF d.present THEN d.at ELSE Fault
      BY <2>2, <2>3, <2>4 DEF Translate, a, b, c
    <2>7. ~ d.present
      BY <2>5, <2>6 DEF Fault
    <2> QED BY <2>4, <2>7
  <1> QED BY <1>1, <1>2

\* A caller maps a frame it holds at a free page of its space.
LEMMA UserWalk ==
    ASSUME ram \in Nat, ~ zeroTable, NEW R, NEW H, NEW lab, Tree(mem, used, R, H, lab),
           NEW root \in R, root # pml4_table, NEW v \in UserPages,
           Translate(mem, root, v) = Fault, NEW f \in H
    PROVE  /\ Kept(MapPage(used, root, v, f), R, H \ {f}, {root}, v, f)
           /\ RamHuge(mem) => RamHuge(MapPage(used, root, v, f).mem)
  <1> DEFINE top == [mem |-> mem, used |-> used, zero |-> zeroTable, table |-> root]
             d == PML4_INDEX(v)
             a == PDPT_INDEX(v)
             b == PD_INDEX(v)
             c == PT_INDEX(v)
             w1 == Descend(top, d)
             w2 == Descend(w1, a)
             w3 == Descend(w2, b)
             w == [w3 EXCEPT !.mem[w3.table][c] = Present(f)]
             lab1 == NextLabel(lab, top, d)
             lab2 == NextLabel(lab1, w1, a)
             lab3 == NextLabel(lab2, w2, b)
  <1>1. MapPage(used, root, v, f) = w
    BY DEF MapPage
  <1>w. w = [w3 EXCEPT !.mem[w3.table][c] = Present(f)]
    OBVIOUS
  <1> HIDE DEF w
  <1>2. d \in Index /\ d # 0 /\ a \in Index /\ b \in Index /\ c \in Index
    <2>1. v \in Nat /\ v \in TopSize .. SpaceSize - 1
      BY Sizes, SpaceAssumption
    <2> QED BY <2>1, Digits
  <1>v. v \in Pages
    <2>1. v \in TopSize .. SpaceSize - 1
      BY SpaceAssumption
    <2> QED BY <2>1, Sizes DEF Pages
  <1>3. /\ top.mem = mem /\ top.used = used /\ top.table = root /\ ~ top.zero
        /\ top = [mem |-> top.mem, used |-> top.used, zero |-> top.zero, table |-> top.table]
    OBVIOUS
  <1>4. Translate(mem, root, v) = Fault
    OBVIOUS
  <1> HIDE DEF top
  <1>5. OnWalk(top, lab, R, H, 4) /\ top.table # pml4_table
    <2>1. root \in Memory /\ lab[root].role = 4
      BY DEF Tree, TopOK
    <2> QED BY <1>3, <2>1 DEF OnWalk
  <1> DEFINE huge == RamHuge(mem)
  <1> HIDE DEF d, a, b, c, huge
  <1>a. ASSUME NEW x, NEW l, NEW k, k # 12, OnWalk(x, l, R, H, k), RamHuge(x.mem), NEW i
        PROVE  OffRam(x.table, i)
    BY <1>a, OffRamRole DEF OnWalk
  <1>6. CASE Stuck(top, d)
    <2>a. huge => RamHuge(top.mem) /\ OffRam(top.table, d)
      BY <1>a, <1>3, <1>5 DEF huge
    <2>1. Fallen(w1, R) /\ Loops(w1) /\ (huge => RamHuge(w1.mem))
      BY <1>2, <1>5, <1>6, <2>a, StuckStep
    <2> HIDE DEF w1
    <2>2. Fallen(w2, R) /\ Loops(w2) /\ (huge => RamHuge(w2.mem))
      BY <1>2, <2>1, FallenStep
    <2> HIDE DEF w2
    <2>3. Fallen(w3, R) /\ (huge => RamHuge(w3.mem))
      BY <1>2, <2>2, FallenStep
    <2> HIDE DEF w3
    <2>w. w.mem = [w3.mem EXCEPT ![w3.table][c] = Present(f)] /\ w.zero = w3.zero
      BY <1>w, <2>3, WalkEnd DEF Fallen
    <2>4. w.zero /\ Shares(w.mem, R) /\ (RamHuge(w3.mem) => RamHuge(w.mem))
      <3>1. Shares(w.mem, R) /\ (RamHuge(w3.mem) => RamHuge(w.mem))
        BY <1>2, <2>3, <2>w, FallenEnd
      <3> QED BY <2>3, <2>w, <3>1 DEF Fallen
    <2> QED BY <1>1, <2>3, <2>4 DEF Kept, huge
  <1>7. CASE ~ Stuck(top, d)
    <2>1. Stepped(top, w1, lab, lab1, R, H, 4, d)
      BY <1>2, <1>5, <1>7, WalkStep
    <2> HIDE DEF w1, lab1
    <2>2. /\ OnWalk(w1, lab1, R, H, 3) /\ ~ w1.zero
          /\ Same(w1.mem, mem, R) /\ (huge => RamHuge(w1.mem))
      BY <1>a, <1>3, <1>5, <2>1 DEF Stepped, huge
    <2>3. CASE Stuck(w1, a)
      <3>a. huge => OffRam(w1.table, a)
        BY <1>a, <2>2
      <3>1. Fallen(w2, R) /\ Loops(w2) /\ (huge => RamHuge(w2.mem))
        BY <1>2, <2>2, <2>3, <3>a, StuckStep
      <3> HIDE DEF w2
      <3>2. Fallen(w3, R) /\ (huge => RamHuge(w3.mem))
        BY <1>2, <3>1, FallenStep
      <3> HIDE DEF w3
      <3>w. w.mem = [w3.mem EXCEPT ![w3.table][c] = Present(f)] /\ w.zero = w3.zero
        BY <1>w, <3>2, WalkEnd DEF Fallen
      <3>3. w.zero /\ Shares(w.mem, R) /\ (RamHuge(w3.mem) => RamHuge(w.mem))
        <4>1. Shares(w.mem, R) /\ (RamHuge(w3.mem) => RamHuge(w.mem))
          BY <1>2, <3>2, <3>w, FallenEnd
        <4> QED BY <3>2, <3>w, <4>1 DEF Fallen
      <3> QED BY <1>1, <3>2, <3>3 DEF Kept, huge
    <2>4. CASE ~ Stuck(w1, a)
      <3>1. Stepped(w1, w2, lab1, lab2, R, H, 3, a)
        BY <1>2, <2>2, <2>4, WalkStep
      <3> HIDE DEF w2, lab2
      <3>2. /\ OnWalk(w2, lab2, R, H, 2) /\ ~ w2.zero
            /\ Same(w2.mem, w1.mem, R) /\ (huge => RamHuge(w2.mem))
        BY <1>a, <2>2, <3>1 DEF Stepped
      <3>3. CASE Stuck(w2, b)
        <4>a. huge => OffRam(w2.table, b)
          BY <1>a, <3>2
        <4>1. Fallen(w3, R) /\ (huge => RamHuge(w3.mem))
          BY <1>2, <3>2, <3>3, <4>a, StuckStep
        <4> HIDE DEF w3
        <4>w. w.mem = [w3.mem EXCEPT ![w3.table][c] = Present(f)] /\ w.zero = w3.zero
          BY <1>w, <4>1, WalkEnd DEF Fallen
        <4>2. w.zero /\ Shares(w.mem, R) /\ (RamHuge(w3.mem) => RamHuge(w.mem))
          <5>1. Shares(w.mem, R) /\ (RamHuge(w3.mem) => RamHuge(w.mem))
            BY <1>2, <4>1, <4>w, FallenEnd
          <5> QED BY <4>1, <4>w, <5>1 DEF Fallen
        <4> QED BY <1>1, <4>1, <4>2 DEF Kept, huge
      <3>4. CASE ~ Stuck(w2, b)
        <4>1. Stepped(w2, w3, lab2, lab3, R, H, 2, b)
          BY <1>2, <3>2, <3>4, WalkStep
        <4> HIDE DEF w3, lab3
        <4>2. /\ OnWalk(w3, lab3, R, H, 1) /\ ~ w3.zero
              /\ Same(w3.mem, w2.mem, R) /\ (huge => RamHuge(w3.mem))
          BY <1>a, <3>2, <4>1 DEF Stepped
        <4>3. ~ w3.mem[w3.table][c].present
          <5>1. Empty(w1) \/ (/\ mem[root][d].present
                              /\ w1.mem = mem /\ w1.table = mem[root][d].at)
            BY <1>2, <1>3, <2>1, KeepsEmpty
          <5>2. /\ Empty(w1) => Empty(w2)
                /\ Empty(w2) \/ (/\ w1.mem[w1.table][a].present
                                 /\ w2.mem = w1.mem /\ w2.table = w1.mem[w1.table][a].at)
            BY <1>2, <3>1, KeepsEmpty
          <5>3. /\ Empty(w2) => Empty(w3)
                /\ Empty(w3) \/ (/\ w2.mem[w2.table][b].present /\ ~ w2.mem[w2.table][b].huge
                                 /\ w3.mem = w2.mem /\ w3.table = w2.mem[w2.table][b].at)
            BY <1>2, <4>1, KeepsEmpty
          <5> QED BY <1>2, <1>4, <4>2, <5>1, <5>2, <5>3, EndIsFree DEF a, b, c, d
        <4>4. /\ w.mem = [w3.mem EXCEPT ![w3.table][c] = Present(f)]
              /\ w.used = w3.used /\ w.zero = w3.zero
          BY <1>w, <4>2, WalkEnd DEF OnWalk
        <4>5. Tree(w.mem, w.used, R, H \ {f}, AddLabel(lab3, f, w3.table, c))
          BY <1>2, <4>2, <4>3, <4>4, HangPage DEF OnWalk
        <4>6. Moved(w.mem, mem, R, {root}, v, f)
          <5>a. /\ lab1[w1.table].by = root /\ lab1[w1.table].ix = d
                /\ w1.table \in Memory /\ lab1[w1.table].role = 3
            BY <1>3, <2>1 DEF Stepped, OnWalk
          <5>b. /\ lab2[w2.table].by = w1.table /\ lab2[w2.table].ix = a
                /\ w2.table \in Memory /\ lab2[w2.table].role = 2
                /\ lab2[w1.table] = lab1[w1.table]
            BY <3>1, <5>a DEF Stepped, OnWalk
          <5>c. /\ lab3[w3.table].by = w2.table /\ lab3[w3.table].ix = b
                /\ w3.table \in Memory /\ lab3[w3.table].role = 1
                /\ lab3[w2.table] = lab2[w2.table] /\ lab3[w1.table] = lab2[w1.table]
            BY <4>1, <5>a, <5>b DEF Stepped, OnWalk
          <5>d. LastTable(lab3, w3.table, root, v)
            BY <1>2, <5>a, <5>b, <5>c DEF LastTable, a, b, d
          <5>1. Moved(w.mem, w3.mem, R, {root}, v, f)
            <6>1. v \in Pages
              BY <1>v
            <6>2. Tree(w3.mem, w3.used, R, H, lab3)
              BY <4>2 DEF OnWalk
            <6>3. \A r \in R : r \in {root} <=> lab3[w3.table].role = 11 \/ r = root
              BY <5>c
            <6>4. w.mem = [w3.mem EXCEPT ![w3.table][PT_INDEX(v)] = Present(f)]
              BY <4>4 DEF c
            <6> QED BY <5>d, <6>1, <6>2, <6>3, <6>4, WriteMoves
          <5>2. Same(w3.mem, w1.mem, R)
            BY <3>2, <4>2, SameThrough
          <5>3. Same(w3.mem, mem, R)
            BY <2>2, <5>2, SameThrough
          <5> QED BY <5>1, <5>3, MovedThrough
        <4>7. huge => RamHuge(w.mem)
          <5>1. /\ Tree(w3.mem, w3.used, R, H, lab3) /\ w3.table \in Memory
                /\ lab3[w3.table].role \in {1, 11}
            BY <4>2 DEF OnWalk
          <5>2. Elsewhere(w.mem, w3.mem, w3.table, c)
            BY <1>2, <4>4, <5>1, WriteEntry DEF Tree, FormOK, Elsewhere
          <5> QED BY <1>2, <4>2, <5>1, <5>2, WriteRam
        <4> QED BY <1>1, <4>2, <4>4, <4>5, <4>6, <4>7 DEF Kept, huge
      <3> QED BY <3>3, <3>4
    <2> QED BY <2>3, <2>4
  <1> QED BY <1>6, <1>7

---------------------------------------------------------------------------
(* The identity map is a tree.                                             *)

StartLabel ==
    [page \in Memory |->
        CASE page = pml4_table -> Label(4, 0, 0, pml4_table)
          [] page = pdpt_table -> Label(13, 0, 0, pdpt_table)
          [] page \in {pd_table(t) : t \in 0 .. gb_count(ram) - 1} ->
                Label(12, pdpt_table, page - pd_table(0), pdpt_table)
          [] OTHER -> Label(30, 0, 0, 0)]

LEMMA InitTree ==
    ASSUME ram \in Nat, mem = IdentityMap(ram)
    PROVE  Tree(mem, {}, {pml4_table}, {}, StartLabel)
  <1> DEFINE lab == StartLabel
             n == gb_count(ram)
             pds == {pd_table(t) : t \in 0 .. n - 1}
  <1>1. n \in Nat /\ n >= 1 /\ n <= Tables /\ n <= Entries
    BY SomeDirectories, Sizes
  <1>2. mem = [page \in Memory |->
                 CASE page = pml4_table -> [Blank EXCEPT ![0] = Present(pdpt_table)]
                   [] page = pdpt_table ->
                        [i \in Index |-> IF i < n THEN Present(pd_table(i)) ELSE Absent]
                   [] page \in pds ->
                        [i \in Index |-> Huge((page - pd_table(0)) * DirSize + i * Entries)]
                   [] OTHER -> Garbage]
    BY DEF IdentityMap, Memory
  <1> HIDE DEF n
  <1>3. \A x : x \in pds <=> x \in Int /\ x - 3 \in 0 .. n - 1
    <2>1. \A t \in 0 .. n - 1 : pd_table(t) \in Int /\ pd_table(t) - 3 = t
      BY <1>1 DEF pd_table
    <2>2. \A x \in Int : pd_table(x - 3) = x
      BY DEF pd_table
    <2> QED BY <1>1, <2>1, <2>2
  <1>4. /\ pml4_table \in Memory \ Frames /\ pdpt_table \in Memory \ Frames
        /\ \A x \in pds : x \in Memory \ Frames
        /\ pml4_table = 1 /\ pdpt_table = 2 /\ pd_table(0) = 3
    <2>1. \A t \in 0 .. n - 1 : t \in 0 .. Tables - 1
      BY <1>1, Sizes
    <2>2. \A x \in pds : x \in Memory \ Frames
      BY <2>1, Layout
    <2> QED BY <2>2, Layout DEF pml4_table, pdpt_table, pd_table
  <1> HIDE DEF pds
  <1>5. \A x \in pds : x # pml4_table /\ x # pdpt_table
    <2>1. \A x \in pds : x \in Int /\ x >= 3
      BY <1>1, <1>3
    <2> QED BY <1>4, <2>1
  <1>6. /\ DOMAIN lab = Memory
        /\ lab[pml4_table] = Label(4, 0, 0, pml4_table)
        /\ lab[pdpt_table] = Label(13, 0, 0, pdpt_table)
        /\ \A x \in pds : lab[x] = Label(12, pdpt_table, x - 3, pdpt_table)
        /\ \A x \in Memory : x # pml4_table /\ x # pdpt_table /\ x \notin pds
                                => lab[x] = Label(30, 0, 0, 0)
    <2>1. lab = [page \in Memory |->
                   CASE page = pml4_table -> Label(4, 0, 0, pml4_table)
                     [] page = pdpt_table -> Label(13, 0, 0, pdpt_table)
                     [] page \in pds -> Label(12, pdpt_table, page - pd_table(0), pdpt_table)
                     [] OTHER -> Label(30, 0, 0, 0)]
      BY DEF StartLabel, n, pds
    <2> HIDE DEF lab
    <2>2. pml4_table # pdpt_table
      BY <1>4
    <2>3. \A x \in pds : lab[x] = Label(12, pdpt_table, x - 3, pdpt_table)
      BY <1>4, <1>5, <2>1
    <2>4. \A x \in Memory : x # pml4_table /\ x # pdpt_table /\ x \notin pds
                                => lab[x] = Label(30, 0, 0, 0)
      BY <2>1
    <2>5. lab[pml4_table] = Label(4, 0, 0, pml4_table)
      BY <1>4, <1>5, <2>1, <2>2
    <2>6. lab[pdpt_table] = Label(13, 0, 0, pdpt_table)
      BY <1>4, <1>5, <2>1, <2>2
    <2> QED BY <2>1, <2>3, <2>4, <2>5, <2>6
  <1> HIDE DEF lab
  <1>7. \A x \in Memory : \/ x = pml4_table /\ lab[x].role = 4 /\ lab[x].own = x
                          \/ x = pdpt_table /\ lab[x].role = 13 /\ lab[x].own = x
                          \/ x \in pds /\ lab[x].role = 12
                          \/ x \notin pds /\ x # pml4_table /\ x # pdpt_table /\ lab[x].role = 30
    <2>1. \A r, b, i, o : Label(r, b, i, o).role = r /\ Label(r, b, i, o).own = o
      BY DEF Label
    <2>2. lab[pml4_table].role = 4 /\ lab[pml4_table].own = pml4_table
      BY <1>6, <2>1
    <2>3. lab[pdpt_table].role = 13 /\ lab[pdpt_table].own = pdpt_table
      BY <1>6, <2>1
    <2>4. \A x \in pds : lab[x].role = 12
      BY <1>6, <2>1
    <2>5. \A x \in Memory : x # pml4_table /\ x # pdpt_table /\ x \notin pds => lab[x].role = 30
      BY <1>6, <2>1
    <2> QED BY <2>2, <2>3, <2>4, <2>5
  <1>8. /\ DOMAIN mem = Memory
        /\ mem[pml4_table] = [Blank EXCEPT ![0] = Present(pdpt_table)]
        /\ mem[pdpt_table] = [i \in Index |-> IF i < n THEN Present(pd_table(i)) ELSE Absent]
        /\ \A x \in pds : mem[x] = [i \in Index |-> Huge((x - pd_table(0)) * DirSize + i * Entries)]
        /\ \A x \in Memory : x # pml4_table /\ x # pdpt_table /\ x \notin pds => mem[x] = Garbage
    <2>1. pml4_table # pdpt_table
      BY <1>4
    <2>2. DOMAIN mem = Memory
      BY <1>2
    <2>3. mem[pml4_table] = [Blank EXCEPT ![0] = Present(pdpt_table)]
      BY <1>2, <1>4, <1>5, <2>1
    <2>4. mem[pdpt_table] = [i \in Index |-> IF i < n THEN Present(pd_table(i)) ELSE Absent]
      BY <1>2, <1>4, <1>5, <2>1
    <2>5. \A x \in pds : mem[x] = [i \in Index |-> Huge((x - pd_table(0)) * DirSize + i * Entries)]
      BY <1>2, <1>4, <1>5
    <2>6. \A x \in Memory : x # pml4_table /\ x # pdpt_table /\ x \notin pds => mem[x] = Garbage
      BY <1>2
    <2> QED BY <2>2, <2>3, <2>4, <2>5, <2>6
  <1>9. FormOK(mem, lab)
    <2>1. DOMAIN Blank = Index /\ DOMAIN Garbage = Index
      BY DEF Blank, Garbage
    <2>2. \A x \in Memory : DOMAIN mem[x] = Index
      BY <1>8, <2>1
    <2> QED BY <1>6, <1>7, <1>8, <2>2 DEF FormOK, Roles
  <1>10. DownOK(mem, lab)
    <2>1. ASSUME NEW x \in Memory, NEW j \in Index, IsBranch(lab, x, j), mem[x][j].present
          PROVE  IF mem[x][j].huge THEN lab[x].role = 12
                 ELSE /\ mem[x][j].at \in Memory
                      /\ lab[mem[x][j].at] = Label(lab[x].role - 1, x, j, lab[x].own)
      <3>1. CASE x = pml4_table
        <4>1. j # 0
          BY <1>4, <1>5, <1>7, <2>1, <3>1 DEF IsBranch
        <4>2. mem[x][j] = Absent
          BY <1>8, <3>1, <4>1 DEF Blank
        <4> QED BY <2>1, <4>2 DEF Absent
      <3>2. CASE x = pdpt_table
        <4>1. mem[x][j] = IF j < n THEN Present(pd_table(j)) ELSE Absent
          BY <1>8, <3>2
        <4>2. j < n /\ mem[x][j] = Present(pd_table(j))
          BY <2>1, <4>1 DEF Absent
        <4>3. j \in 0 .. n - 1
          BY <1>1, <4>2 DEF Index
        <4>4. pd_table(j) \in pds /\ pd_table(j) - 3 = j
          BY <1>1, <4>3 DEF pds, pd_table
        <4>5. lab[pd_table(j)] = Label(12, pdpt_table, j, pdpt_table)
          BY <1>6, <4>4
        <4>6. lab[x].role - 1 = 12 /\ lab[x].own = pdpt_table
          BY <1>4, <1>5, <1>7, <3>2
        <4> QED BY <1>4, <3>2, <4>2, <4>4, <4>5, <4>6 DEF Present
      <3>3. CASE x \in pds
        <4>1. \A page : Huge(page).huge
          BY DEF Huge
        <4>2. mem[x][j] = Huge((x - pd_table(0)) * DirSize + j * Entries)
          BY <1>8, <3>3
        <4>3. lab[x].role = 12
          BY <1>5, <1>7, <3>3
        <4>4. mem[x][j].huge
          BY <4>1, <4>2
        <4> QED BY <4>3, <4>4
      <3>4. CASE lab[x].role = 30
        BY <2>1, <3>4 DEF IsBranch
      <3> QED BY <1>7, <3>1, <3>2, <3>3, <3>4
    <2> QED BY <2>1 DEF DownOK
  <1>11. UpOK(mem, lab)
    <2>1. ASSUME NEW x \in Memory, lab[x].role \in {0, 1, 2, 3, 11, 12}
          PROVE  /\ IsBranch(lab, lab[x].by, lab[x].ix)
                 /\ lab[lab[x].by].role = lab[x].role + 1
                 /\ lab[lab[x].by].own = lab[x].own
                 /\ mem[lab[x].by][lab[x].ix] = Present(x)
      <3>1. x \in pds /\ lab[x].role = 12
        BY <1>7, <2>1
      <3>2. lab[x].by = pdpt_table /\ lab[x].ix = x - 3 /\ lab[x].own = pdpt_table
        <4>1. lab[x] = Label(12, pdpt_table, x - 3, pdpt_table)
          BY <1>6, <3>1
        <4> QED BY <4>1 DEF Label
      <3>3. x - 3 \in 0 .. n - 1 /\ x \in Int
        BY <1>3, <3>1
      <3>4. x - 3 \in Index /\ x - 3 < n /\ pd_table(x - 3) = x
        BY <1>1, <3>3, Sizes DEF Index, pd_table
      <3>5. mem[pdpt_table][x - 3] = Present(x)
        BY <1>8, <3>4
      <3>6. lab[pdpt_table].role = 13 /\ lab[pdpt_table].own = pdpt_table
        BY <1>4, <1>5, <1>7
      <3> QED BY <1>4, <3>1, <3>2, <3>4, <3>5, <3>6 DEF IsBranch
    <2> QED BY <2>1 DEF UpOK
  <1>12. TopOK(mem, {pml4_table}, lab)
    <2>1. mem[pml4_table][0] = Present(pdpt_table)
      BY <1>8, Digits DEF Blank
    <2>2. \A i \in Index : i # 0 => ~ mem[pml4_table][i].present
      BY <1>8 DEF Blank, Absent
    <2>3. lab[pml4_table].own = pml4_table
      BY <1>6 DEF Label
    <2>4. \A f \in Memory : (lab[f].role = 4 <=> f \in {pml4_table}) /\ (lab[f].role = 13 <=> f = pdpt_table)
      BY <1>4, <1>5, <1>7
    <2> QED BY <1>4, <2>1, <2>2, <2>3, <2>4 DEF TopOK
  <1>13. UseOK({}, {}, lab)
    <2>1. \A f \in Memory : lab[f].role # 20 /\ lab[f].role \in {4, 12, 13, 30}
                              /\ (lab[f].role = 4 => f = pml4_table)
      BY <1>7
    <2>2. \A f \in Frames : lab[f].role = 30
      BY <1>4, <1>7, Layout
    <2> QED BY <2>1, <2>2 DEF UseOK
  <1> QED BY <1>9, <1>10, <1>11, <1>12, <1>13 DEF Tree, lab

---------------------------------------------------------------------------
(* Every action keeps the invariant.                                       *)

Stage ==
    /\ ram \in RamSizes
    /\ Kernel \in DOMAIN pml4 /\ pml4[Kernel] = pml4_table
    /\ \A s, t \in DOMAIN pml4 : pml4[s] = pml4[t] => s = t
    /\ space \in DOMAIN pml4
    /\ booted # "yes" => DOMAIN pml4 = {Kernel}
    /\ heapEnd \in HeapStart .. HeapStart + HeapPages
    /\ booted = "heap" => heapEnd = HeapStart /\ ~ zeroTable

Trees ==
    IF zeroTable THEN Shares(mem, Roots)
    ELSE \E lab : Tree(mem, used, Roots, held, lab)

SpInv == Stage /\ Trees /\ RamHuge(mem)

LEMMA RamNat ==
    ASSUME Stage
    PROVE  ram \in Nat
  <1> QED BY SpaceAssumption DEF Stage

\* The memory ends within the identity map, and a window shares no huge page with
\* the pages of Ram.
LEMMA FarWindows ==
    ASSUME Stage, NEW v \in Windows
    PROVE  ram <= TopSize /\ Far(v)
  <1>1. ram \in Nat /\ ram <= Tables * DirSize
    BY RamNat, Sizes, SpaceAssumption DEF Stage
  <1>2. ram <= TopSize
    <2>1. \A a, b, c \in Nat : a <= b => a * c <= b * c
      <3>1. ASSUME NEW a \in Nat, NEW b \in Nat, NEW c \in Nat, a <= b PROVE a * c <= b * c
        <4>1. b - a \in Nat /\ b = a + (b - a)
          BY <3>1
        <4>2. b * c = a * c + (b - a) * c /\ (b - a) * c \in Nat /\ a * c \in Nat
          BY <4>1
        <4> QED BY <4>2
      <3> QED BY <3>1
    <2>2. Tables * DirSize <= Entries * DirSize
      BY <2>1, Sizes
    <2>3. Entries * DirSize = TopSize /\ Tables * DirSize \in Nat
      BY Sizes
    <2> QED BY <1>1, <2>2, <2>3, Sizes
  <1>3. Far(v)
    BY DEF Far, Ram
  <1> QED BY <1>2, <1>3

\* What is written in frames leaves it.
LEMMA FramesKeepRam ==
    ASSUME ram \in Nat, ram' = ram, RamHuge(mem), \A x \in Memory \ Frames : mem'[x] = mem[x]
    PROVE  RamHuge(mem)'
  <1>1. ASSUME NEW v \in Ram
        PROVE  /\ mem'[pdpt_table] = mem[pdpt_table]
               /\ mem'[pd_table(PDPT_INDEX(v))] = mem[pd_table(PDPT_INDEX(v))]
    BY RamDigits
  <1> QED BY <1>1 DEF RamHuge, Ram

LEMMA SameRam ==
    ASSUME ram' = ram, RamHuge(mem')
    PROVE  RamHuge(mem)'
  <1> QED BY DEF RamHuge, Ram

LEMMA SpInit ==
    ASSUME Init
    PROVE  SpInv
  <1>1. ram \in Nat /\ mem = IdentityMap(ram) /\ used = {} /\ held = {} /\ ~ zeroTable
    BY SpaceAssumption DEF Init
  <1>2. DOMAIN pml4 = {Kernel} /\ pml4[Kernel] = pml4_table
    BY DEF Init
  <1>3. Roots = {pml4_table}
    BY <1>2 DEF Roots
  <1>4. Stage
    BY <1>1, <1>2, SpaceAssumption DEF Init, Stage
  <1>5. Trees
    BY <1>1, <1>3, InitTree DEF Trees
  <1>6. RamHuge(mem)
    BY <1>1, <1>4, RamStart, SpaceAssumption, Sizes DEF Stage
  <1> QED BY <1>4, <1>5, <1>6 DEF SpInv

\* The invariant speaks of the memory's pages, which stay the same.
LEMMA SameMemory ==
    ASSUME ram' = ram, NEW lab, Tree(mem', used', Roots', held', lab)
    PROVE  Tree(mem, used, Roots, held, lab)'
  <1>1. Memory' = Memory /\ Frames' = Frames
    BY DEF Memory, Frames
  <1>2. FormOK(mem, lab)'
    BY <1>1 DEF Tree, FormOK
  <1>3. DownOK(mem, lab)'
    BY <1>1 DEF Tree, DownOK, IsBranch
  <1>4. UpOK(mem, lab)'
    BY <1>1 DEF Tree, UpOK, IsBranch
  <1>5. TopOK(mem, Roots, lab)'
    BY <1>1 DEF Tree, TopOK
  <1>6. UseOK(used, held, lab)'
    BY <1>1 DEF Tree, UseOK
  <1> QED BY <1>2, <1>3, <1>4, <1>5, <1>6 DEF Tree

LEMMA KeptTrees ==
    ASSUME ram' = ram, NEW w, Mapped(w), NEW S, NEW v, NEW page,
           Kept(w, Roots', held', S, v, page)
    PROVE  Trees'
  <1>1. mem' = w.mem /\ used' = w.used /\ zeroTable' = w.zero
    BY DEF Mapped
  <1>2. CASE w.zero
    BY <1>1, <1>2 DEF Kept, Trees, Shares
  <1>3. CASE ~ w.zero
    <2>1. PICK lab : Tree(w.mem, w.used, Roots', held', lab)
      BY <1>3 DEF Kept
    <2>2. Tree(mem, used, Roots, held, lab)'
      BY <1>1, <2>1, SameMemory
    <2> QED BY <1>1, <1>3, <2>2 DEF Trees
  <1> QED BY <1>2, <1>3

\* The windows of the kernel lie below the shared entry.
LEMMA WindowsBelow ==
    /\ \A v \in Windows : v \in 0 .. TopSize - 1
    /\ TestAddr \in Windows /\ DOMAIN Mmio \subseteq Windows
    /\ HeapStart \in Nat /\ HeapPages \in Nat \ {0}
    /\ \A v \in HeapStart .. HeapStart + HeapPages - 1 : v \in Windows
  <1> QED BY SpaceAssumption DEF Windows

\* The kernel's step moves one page of its windows, in all spaces.
KernelPage ==
    ~ zeroTable' => \E v \in Windows : \E page : Moved(mem', mem, Roots, Roots, v, page)

\* A step moves one page of a space at most.
OnePage == ~ zeroTable' => OneMoves(mem', mem, Roots)

\* The kernel maps a page, with the frame it has just taken for it or none.
LEMMA KernelMaps ==
    ASSUME Stage, Trees, NEW fresh, fresh \subseteq {AllocFrame(used)} \ {0},
           ~ zeroTable, NEW v \in Windows, NEW page,
           Mapped(MapPage(used \cup fresh, pml4_table, v, page)),
           held' = held \cup fresh, UNCHANGED <<ram, pml4>>
    PROVE  Trees' /\ KernelPage /\ (RamHuge(mem) => RamHuge(mem)')
  <1> DEFINE w == MapPage(used \cup fresh, pml4_table, v, page)
  <1>1. ram \in Nat /\ ram' = ram /\ Roots' = Roots
    BY RamNat DEF Roots
  <1>2. Kept(w, Roots, held \cup fresh, Roots, v, page) /\ (RamHuge(mem) => RamHuge(w.mem))
    <2>1. PICK lab : Tree(mem, used, Roots, held, lab)
      BY DEF Trees
    <2>2. \E lab2 : Tree(mem, used \cup fresh, Roots, held \cup fresh, lab2)
      <3>1. CASE fresh = {}
        <4>1. used \cup fresh = used /\ held \cup fresh = held
          BY <3>1
        <4> QED BY <2>1, <4>1
      <3>2. CASE fresh # {}
        <4>1. fresh = {AllocFrame(used)} /\ AllocFrame(used) # 0
          BY <3>2
        <4>2. AllocFrame(used) \in Frames \ used
          BY <1>1, <4>1, Allocated
        <4>3. Tree(mem, used \cup fresh, Roots, held \cup fresh, HoldLabel(lab, AllocFrame(used)))
          BY <1>1, <2>1, <4>1, <4>2, HoldFrame
        <4> QED BY <4>3
      <3> QED BY <3>1, <3>2
    <2>3. PICK lab2 : Tree(mem, used \cup fresh, Roots, held \cup fresh, lab2)
      BY <2>2
    <2>4. v \in 0 .. TopSize - 1
      BY WindowsBelow
    <2>5. /\ Kept(w, Roots, held \cup fresh, Roots, v, page)
          /\ ram <= TopSize /\ Far(v) /\ RamHuge(mem) => RamHuge(w.mem)
      BY <1>1, <2>3, <2>4, KernelWalk
    <2> QED BY <2>5, FarWindows
  <1> HIDE DEF w
  <1>3. Mapped(w) /\ Kept(w, Roots', held', Roots, v, page)
    BY <1>1, <1>2 DEF w
  <1>4. Trees'
    BY <1>1, <1>3, KeptTrees
  <1>5. KernelPage
    <2>1. ASSUME ~ zeroTable' PROVE Moved(mem', mem, Roots, Roots, v, page)
      BY <1>2, <1>3, <2>1 DEF Kept, Mapped
    <2> QED BY <2>1 DEF KernelPage
  <1>6. RamHuge(mem) => RamHuge(mem)'
    BY <1>1, <1>2, <1>3, SameRam DEF Mapped
  <1> QED BY <1>4, <1>5, <1>6

LEMMA StartUpStep ==
    ASSUME SpInv, ~ zeroTable,
           \/ HeapInit \/ MapMmio \/ MapTest \/ HeapGrows
           \/ \E v \in MapPages, page \in MapTargets : MemoryMap(v, page)
    PROVE  SpInv' /\ KernelPage
  <1> DEFINE Good == Trees' /\ KernelPage /\ RamHuge(mem)'
  <1>a. RamHuge(mem) /\ Stage /\ Trees
    BY DEF SpInv
  <1> USE DEF Good
  <1>1. ASSUME HeapPage, heapEnd \in HeapStart .. HeapStart + HeapPages - 1
        PROVE  Good /\ heapEnd' \in HeapStart .. HeapStart + HeapPages
    <2> DEFINE fresh == {AllocFrame(used)}
    <2>1. fresh \subseteq {AllocFrame(used)} \ {0} /\ held' = held \cup fresh
      BY <1>1 DEF HeapPage
    <2>2. heapEnd \in Windows
      BY <1>1, WindowsBelow
    <2>3. Mapped(MapPage(used \cup fresh, pml4_table, heapEnd, AllocFrame(used)))
      BY <1>1 DEF HeapPage
    <2>4. UNCHANGED <<ram, pml4>> /\ heapEnd' = heapEnd + 1
      BY <1>1 DEF HeapPage
    <2> HIDE DEF fresh
    <2>5. Good
      BY <1>1, <2>1, <2>2, <2>3, <2>4, <1>a, KernelMaps
    <2> QED BY <1>1, <2>4, <2>5, WindowsBelow
  <1>2. CASE HeapInit
    <2>1. HeapPage /\ booted = "heap" /\ booted' = "mmio"
      BY <1>2 DEF HeapInit
    <2>2. heapEnd \in HeapStart .. HeapStart + HeapPages - 1
      BY <2>1, WindowsBelow DEF SpInv, Stage
    <2>3. Good /\ heapEnd' \in HeapStart .. HeapStart + HeapPages
      BY <1>1, <2>1, <2>2
    <2>4. UNCHANGED <<ram, pml4, space>>
      BY <2>1 DEF HeapPage
    <2> QED BY <2>1, <2>2, <2>3, <2>4 DEF SpInv, Stage
  <1>3. CASE MapMmio
    <2>1. /\ booted = "mmio" /\ UNCHANGED <<ram, pml4, held, heapEnd, booted, space>>
          /\ \E v \in DOMAIN Mmio : Mapped(MapPage(used, pml4_table, v, Mmio[v]))
      BY <1>3 DEF MapMmio
    <2>2. PICK v \in DOMAIN Mmio : Mapped(MapPage(used, pml4_table, v, Mmio[v]))
      BY <2>1
    <2>3. v \in Windows
      BY WindowsBelow
    <2>4. used \cup {} = used /\ held' = held \cup {}
      BY <2>1
    <2>5. Mapped(MapPage(used \cup {}, pml4_table, v, Mmio[v]))
      BY <2>2, <2>4
    <2>6. {} \subseteq {AllocFrame(used)} \ {0}
      OBVIOUS
    <2>7. Good
      BY <2>1, <2>3, <2>4, <2>5, <2>6, <1>a, KernelMaps
    <2> QED BY <2>1, <2>7 DEF SpInv, Stage
  <1>4. CASE MapTest
    <2> DEFINE fresh == {AllocFrame(used)} \ {0}
    <2>1. /\ booted = "mmio" /\ booted' = "yes" /\ UNCHANGED <<ram, pml4, heapEnd, space>>
          /\ Mapped(MapPage(used \cup fresh, pml4_table, TestAddr, AllocFrame(used)))
          /\ held' = held \cup fresh
      BY <1>4 DEF MapTest
    <2>2. TestAddr \in Windows
      BY WindowsBelow
    <2>3. fresh \subseteq {AllocFrame(used)} \ {0}
      OBVIOUS
    <2> HIDE DEF fresh
    <2>4. Good
      BY <2>1, <2>2, <2>3, <1>a, KernelMaps
    <2> QED BY <2>1, <2>4 DEF SpInv, Stage
  <1>5. CASE HeapGrows
    <2>1. HeapPage /\ booted = "yes" /\ booted' = "yes" /\ heapEnd < HeapStart + HeapPages
      BY <1>5 DEF HeapGrows
    <2>2. heapEnd \in HeapStart .. HeapStart + HeapPages - 1
      BY <2>1, WindowsBelow DEF SpInv, Stage
    <2>3. Good /\ heapEnd' \in HeapStart .. HeapStart + HeapPages
      BY <1>1, <2>1, <2>2
    <2>4. UNCHANGED <<ram, pml4, space>>
      BY <2>1 DEF HeapPage
    <2> QED BY <2>1, <2>3, <2>4 DEF SpInv, Stage
  <1>6. ASSUME NEW v \in MapPages, NEW page \in MapTargets, MemoryMap(v, page)
        PROVE  SpInv' /\ KernelPage
    <2>1. /\ booted = "yes" /\ UNCHANGED <<ram, pml4, held, heapEnd, booted, space>>
          /\ Mapped(MapPage(used, pml4_table, v, page))
      BY <1>6 DEF MemoryMap
    <2>2. used \cup {} = used /\ held' = held \cup {} /\ v \in Windows
      BY <2>1 DEF Windows
    <2>3. Mapped(MapPage(used \cup {}, pml4_table, v, page))
      BY <2>1, <2>2
    <2>4. {} \subseteq {AllocFrame(used)} \ {0}
      OBVIOUS
    <2>5. Good
      BY <2>1, <2>2, <2>3, <2>4, <1>a, KernelMaps
    <2> QED BY <2>1, <2>5 DEF SpInv, Stage
  <1> QED BY <1>2, <1>3, <1>4, <1>5, <1>6

LEMMA CreateStep ==
    ASSUME SpInv, Alive, NEW s \in Spaces, AddressSpaceCreate(s)
    PROVE  SpInv'
  <1> DEFINE f == AllocFrame(used)
  <1>1. /\ booted = "yes" /\ s \notin DOMAIN pml4 /\ f # 0 /\ ~ zeroTable /\ ram \in Nat
        /\ used' = used \cup {f} /\ mem' = [mem EXCEPT ![f] = [Blank EXCEPT ![0] = mem[pml4_table][0]]]
        /\ pml4' = [x \in DOMAIN pml4 \cup {s} |-> IF x = s THEN f ELSE pml4[x]]
        /\ UNCHANGED <<ram, current, held, heapEnd, booted, zeroTable, space>>
    BY RamNat DEF AddressSpaceCreate, Alive, copy_kernel_mappings, SpInv
  <1>2. f \in Frames \ used
    BY <1>1, Allocated
  <1> HIDE DEF f
  <1>3. PICK lab : Tree(mem, used, Roots, held, lab)
    BY <1>1 DEF SpInv, Trees
  <1>4. \A x \in DOMAIN pml4 : pml4[x] # f
    <2>1. \A r \in Roots : r # f
      <3>1. f \in Memory /\ lab[f].role = 30
        BY <1>1, <1>2, <1>3, FreeRole
      <3> QED BY <1>3, <3>1 DEF Tree, TopOK
    <2> QED BY <2>1 DEF Roots
  <1>5. Roots' = Roots \cup {f}
    BY <1>1 DEF Roots
  <1>6. Tree(mem', used', Roots', held', TopLabel(lab, f))
    BY <1>1, <1>2, <1>3, <1>5, NewTop
  <1>7. Trees'
    BY <1>1, <1>6, SameMemory DEF Trees
  <1>8. Stage'
    <2>1. Kernel # s
      BY SpaceAssumption
    <2>2. DOMAIN pml4' = DOMAIN pml4 \cup {s}
      BY <1>1
    <2>3. \A x, y \in DOMAIN pml4' : pml4'[x] = pml4'[y] => x = y
      BY <1>1, <1>4 DEF SpInv, Stage
    <2> QED BY <1>1, <2>1, <2>2, <2>3 DEF SpInv, Stage
  <1>9. RamHuge(mem)'
    <2>1. \A x \in Memory \ Frames : mem'[x] = mem[x]
      BY <1>1, <1>2
    <2> QED BY <1>1, <2>1, FramesKeepRam DEF SpInv
  <1> QED BY <1>7, <1>8, <1>9 DEF SpInv

LEMMA AllocStep ==
    ASSUME SpInv, Alive, AllocPage
    PROVE  SpInv'
  <1> DEFINE f == AllocFrame(used)
  <1>1. /\ f # 0 /\ ~ zeroTable /\ ram \in Nat /\ used' = used \cup {f} /\ held' = held \cup {f}
        /\ UNCHANGED <<ram, mem, pml4, current, heapEnd, booted, zeroTable, space>>
    BY RamNat DEF AllocPage, Alive, SpInv
  <1>2. f \in Frames \ used
    BY <1>1, Allocated
  <1> HIDE DEF f
  <1>3. PICK lab : Tree(mem, used, Roots, held, lab)
    BY <1>1 DEF SpInv, Trees
  <1>4. Tree(mem', used', Roots', held', HoldLabel(lab, f))
    BY <1>1, <1>2, <1>3, HoldFrame DEF Roots
  <1>5. Trees'
    BY <1>1, <1>4, SameMemory DEF Trees
  <1>6. RamHuge(mem)'
    BY <1>1, SameRam DEF SpInv
  <1> QED BY <1>1, <1>5, <1>6 DEF SpInv, Stage

LEMMA MapToStep ==
    ASSUME SpInv, Alive, NEW s \in Spaces, NEW v \in UserPages, NEW f \in held, MapTo(s, v, f)
    PROVE  SpInv' /\ (~ zeroTable' => Moved(mem', mem, Roots, {pml4[s]}, v, f))
  <1> DEFINE w == MapPage(used, pml4[s], v, f)
  <1>1. /\ s \in DOMAIN pml4 \ {Kernel} /\ Translate(mem, pml4[s], v) = Fault /\ Mapped(w)
        /\ held' = held \ {f} /\ ~ zeroTable /\ ram \in Nat
        /\ UNCHANGED <<ram, pml4, current, heapEnd, booted, space>>
    BY RamNat DEF MapTo, Alive, SpInv
  <1>2. pml4[s] \in Roots /\ pml4[s] # pml4_table /\ Roots' = Roots
    BY <1>1 DEF SpInv, Stage, Roots
  <1>3. PICK lab : Tree(mem, used, Roots, held, lab)
    BY <1>1 DEF SpInv, Trees
  <1>4. Kept(w, Roots, held \ {f}, {pml4[s]}, v, f) /\ (RamHuge(mem) => RamHuge(w.mem))
    BY <1>1, <1>2, <1>3, UserWalk
  <1> HIDE DEF w
  <1>5. Trees'
    BY <1>1, <1>2, <1>4, KeptTrees
  <1>6. ~ zeroTable' => Moved(mem', mem, Roots, {pml4[s]}, v, f)
    BY <1>1, <1>4 DEF Kept, Mapped
  <1>7. RamHuge(mem)'
    BY <1>1, <1>4, SameRam DEF Mapped, SpInv
  <1> QED BY <1>1, <1>5, <1>6, <1>7 DEF SpInv, Stage

LEMMA ExitStep ==
    ASSUME SpInv, Alive, Exit
    PROVE  SpInv'
  <1> DEFINE r == pml4[space]
  <1>1. /\ space # Kernel /\ ~ zeroTable /\ ram \in Nat /\ space' = Kernel
        /\ used' = used \ OwnPages(r)
        /\ mem' = [f \in DOMAIN mem |-> IF f \in used \ used' THEN Garbage ELSE mem[f]]
        /\ pml4' = [x \in DOMAIN pml4 \ {space} |-> pml4[x]]
        /\ UNCHANGED <<ram, current, held, heapEnd, booted, zeroTable>>
    BY RamNat DEF Exit, AddressSpaceDestroy, FreeFrames, Alive, SpInv
  <1>2. r \in Roots /\ r # pml4_table /\ Roots' = Roots \ {r}
    BY <1>1 DEF SpInv, Stage, Roots
  <1> HIDE DEF r
  <1>3. PICK lab : Tree(mem, used, Roots, held, lab)
    BY <1>1 DEF SpInv, Trees
  <1>4. used' = used \ OwnSet(lab, r)
    BY <1>1, <1>2, <1>3, OwnPagesAre
  <1>5. Tree(mem', used', Roots', held', FreeLabel(lab, r))
    BY <1>1, <1>2, <1>3, <1>4, CutTree
  <1>6. Trees'
    BY <1>1, <1>5, SameMemory DEF Trees
  <1>7. Stage'
    <2>1. booted = "yes" /\ space \in DOMAIN pml4
      BY <1>1 DEF SpInv, Stage
    <2> QED BY <1>1, <2>1 DEF SpInv, Stage
  <1>8. RamHuge(mem)'
    <2>1. used \subseteq Frames /\ DOMAIN mem = Memory
      BY <1>3 DEF Tree, UseOK, FormOK
    <2>2. \A x \in Memory \ Frames : mem'[x] = mem[x]
      BY <1>1, <2>1
    <2> QED BY <1>1, <2>2, FramesKeepRam DEF SpInv
  <1> QED BY <1>6, <1>7, <1>8 DEF SpInv

LEMMA StillStep ==
    ASSUME SpInv, UNCHANGED <<ram, mem, used, pml4, held, heapEnd, booted, zeroTable>>,
           space' \in DOMAIN pml4
    PROVE  SpInv'
  <1>1. Stage' /\ Roots' = Roots
    BY DEF SpInv, Stage, Roots
  <1>2. zeroTable => Trees'
    BY <1>1 DEF SpInv, Trees, Shares
  <1>3. ASSUME ~ zeroTable PROVE Trees'
    <2>1. PICK lab : Tree(mem, used, Roots, held, lab)
      BY <1>3 DEF SpInv, Trees
    <2>2. Tree(mem', used', Roots', held', lab)
      BY <1>1, <2>1
    <2> QED BY <1>1, <1>3, <2>2, SameMemory DEF Trees
  <1>4. Trees'
    BY <1>2, <1>3 DEF SpInv
  <1>5. RamHuge(mem)'
    BY SameRam DEF SpInv
  <1> QED BY <1>1, <1>4, <1>5 DEF SpInv

LEMMA SpStep ==
    ASSUME SpInv, [Next]_vars
    PROVE  SpInv'
  <1>1. ASSUME NEW s \in Spaces, AddressSpaceSwitch(s) PROVE SpInv'
    BY <1>1, StillStep DEF AddressSpaceSwitch
  <1>2. CASE UNCHANGED vars
    BY <1>2, StillStep DEF vars, SpInv, Stage
  <1>3. ASSUME HeapInit PROVE ~ zeroTable
    BY <1>3 DEF HeapInit, SpInv, Stage
  <1> QED BY <1>1, <1>2, <1>3, StartUpStep, CreateStep, AllocStep, MapToStep, ExitStep
          DEF Next, Call, Alive

LEMMA MovesStep ==
    ASSUME SpInv, [Next]_vars, DOMAIN pml4' = DOMAIN pml4
    PROVE  OnePage
  <1>1. ASSUME mem' = mem PROVE OnePage
    BY <1>1 DEF OnePage, OneMoves
  <1>2. CASE \E s \in Spaces : AddressSpaceCreate(s)
    BY <1>2 DEF AddressSpaceCreate
  <1>3. CASE Exit
    BY <1>3 DEF Exit, AddressSpaceDestroy, SpInv, Stage
  <1>4. CASE AllocPage \/ (\E s \in Spaces : AddressSpaceSwitch(s)) \/ UNCHANGED vars
    BY <1>1, <1>4 DEF AllocPage, AddressSpaceSwitch, vars
  <1>6. ASSUME KernelPage PROVE OnePage
    BY <1>6, MovedOnce DEF KernelPage, OnePage
  <1>5. CASE HeapInit
    <2>1. ~ zeroTable
      BY <1>5 DEF HeapInit, SpInv, Stage
    <2> QED BY <1>5, <2>1, StartUpStep, <1>6
  <1>7. ASSUME NEW s \in Spaces, NEW v \in UserPages, NEW f \in held, Alive, MapTo(s, v, f)
        PROVE  OnePage
    BY <1>7, MapToStep, MovedOnce DEF OnePage
  <1> QED BY <1>2, <1>3, <1>4, <1>5, <1>6, <1>7, StartUpStep DEF Next, Call, Alive

LEMMA MovesHold ==
    ASSUME SpInv, [Next]_vars
    PROVE  [~ zeroTable' /\ DOMAIN pml4' = DOMAIN pml4 =>
              \A root \in Roots :
                  Cardinality({v \in Pages : Translate(mem', root, v) # Translate(mem, root, v)}) <= 1]_vars
  <1> SUFFICES ASSUME ~ zeroTable', DOMAIN pml4' = DOMAIN pml4, NEW root \in Roots
               PROVE  Cardinality({v \in Pages : Translate(mem', root, v) # Translate(mem, root, v)}) <= 1
    OBVIOUS
  <1> DEFINE S == {v \in Pages : Translate(mem', root, v) # Translate(mem, root, v)}
  <1>1. \A v, x \in S : v = x
    BY MovesStep DEF OnePage, OneMoves
  <1> HIDE DEF S
  <1>2. CASE S = {}
    BY <1>2, FS_EmptySet DEF S
  <1>3. CASE S # {}
    <2>1. PICK v : S = {v}
      BY <1>1, <1>3
    <2>2. Cardinality(S) = 1
      BY <2>1, FS_Singleton
    <2> QED BY <2>2 DEF S
  <1> QED BY <1>2, <1>3

LEMMA SpAlways == Spec => []SpInv
  <1> QED BY SpInit, SpStep, PTL DEF Spec

---------------------------------------------------------------------------
(* What the invariant says of the spaces.                                  *)

LEMMA SharedHolds ==
    ASSUME SpInv
    PROVE  KernelIsShared
  <1>1. ASSUME NEW root \in Roots, NEW v \in 0 .. TopSize - 1
        PROVE  Translate(mem, root, v) = Translate(mem, pml4_table, v)
    <2>1. mem[root][0] = mem[pml4_table][0]
      <3>1. CASE zeroTable
        BY <3>1 DEF SpInv, Trees, Shares, Stage, Roots
      <3>2. CASE ~ zeroTable
        BY <3>2 DEF SpInv, Trees, Tree, TopOK
      <3> QED BY <3>1, <3>2
    <2>2. PML4_INDEX(v) = 0
      <3>1. v \in Nat /\ v < TopSize
        BY Sizes
      <3> QED BY <3>1, Digits
    <2> QED BY <2>1, <2>2 DEF Translate
  <1> QED BY <1>1 DEF KernelIsShared

\* The pages of Ram are at themselves in every space.
LEMMA RamHolds ==
    ASSUME SpInv, NEW root \in Roots, NEW page \in Ram
    PROVE  Translate(mem, root, page) = page
  <1>1. ram \in Nat /\ ram <= TopSize /\ page \in Nat /\ page < TopSize
    <2>1. Stage /\ ram \in Nat
      BY RamNat DEF SpInv
    <2>2. ram <= TopSize
      BY <2>1, WindowsBelow, FarWindows
    <2> QED BY <2>1, <2>2, Sizes DEF Ram
  <1> DEFINE a == Entry4(mem, root, page)
             b == Entry3(mem, root, page)
             c == Entry2(mem, root, page)
             p3 == PDPT_INDEX(page)
             p2 == PD_INDEX(page)
             p1 == PT_INDEX(page)
  <1>2. a = mem[root][PML4_INDEX(page)] /\ b = mem[a.at][p3] /\ c = mem[b.at][p2]
    BY DEF Entry4, Entry3, Entry2
  <1>3. mem[root][0] = Present(pdpt_table) /\ PML4_INDEX(page) = 0
    <2>1. mem[root][0] = Present(pdpt_table)
      <3>1. CASE zeroTable
        BY <3>1 DEF SpInv, Trees, Shares
      <3>2. CASE ~ zeroTable
        BY <3>2 DEF SpInv, Trees, Tree, TopOK
      <3> QED BY <3>1, <3>2
    <2> QED BY <1>1, <2>1, Digits
  <1>4. /\ mem[pdpt_table][p3] = Present(pd_table(p3))
        /\ mem[pd_table(p3)][p2] = Huge(page - p1)
    BY <1>1 DEF SpInv, RamHuge
  <1>5. p1 \in Nat
    BY <1>1, Digits, Sizes DEF Index
  <1>6. Translate(mem, root, page) =
          IF ~ a.present \/ ~ b.present \/ ~ c.present THEN Fault
          ELSE IF c.huge THEN c.at + p1
          ELSE IF Entry1(mem, root, page).present THEN Entry1(mem, root, page).at ELSE Fault
    BY TranslateIs
  <1> HIDE DEF a, b, c, p3, p2, p1
  <1>7. a.present /\ a.at = pdpt_table
    BY <1>2, <1>3 DEF Present
  <1>8. b.present /\ b.at = pd_table(p3)
    BY <1>2, <1>4, <1>7 DEF Present
  <1>9. c = Huge(page - p1)
    BY <1>2, <1>4, <1>8
  <1>10. c.present /\ c.huge /\ c.at = page - p1
    BY <1>9 DEF Huge
  <1>11. (page - p1) + p1 = page
    BY <1>1, <1>5
  <1> QED BY <1>6, <1>7, <1>8, <1>10, <1>11

\* The links of a space are entries of its own tables.
EntriesOf(ts) == UNION {{<<t, i, mem[t][i].at>> : i \in {j \in Index : mem[t][j].present}} : t \in ts}
Ends(ls) == {l[3] : l \in ls}
Level4(root) == {l \in EntriesOf({root}) : l[2] >= 1}

LEMMA LinksAre ==
    ASSUME NEW root
    PROVE  Links(root) = Level4(root) \cup EntriesOf(Ends(Level4(root)))
                           \cup EntriesOf(Ends(EntriesOf(Ends(Level4(root)))))
                           \cup EntriesOf(Ends(EntriesOf(Ends(EntriesOf(Ends(Level4(root)))))))
  <1> QED BY DEF Links, EntriesOf, Ends, Level4

\* The entries of the tables of role k of a space; from the top table but entry 0.
LinkSet(lab, k, r) ==
    {l \in EntriesOf(Level(lab, k, r)) : k = 4 => l[2] >= 1}

LEMMA EndsOfLevel ==
    ASSUME NEW u, NEW R, NEW H, NEW lab, Tree(mem, u, R, H, lab),
           NEW k \in {1, 2, 3, 4}, NEW r
    PROVE  Ends(LinkSet(lab, k, r)) = Level(lab, k - 1, r)
  <1>1. ASSUME NEW x \in LinkSet(lab, k, r) PROVE x[3] \in Level(lab, k - 1, r)
    <2>1. PICK t \in Level(lab, k, r) : \E i \in Index : mem[t][i].present
                                           /\ x = <<t, i, mem[t][i].at>>
      BY <1>1 DEF LinkSet, EntriesOf
    <2>2. PICK i \in Index : mem[t][i].present /\ x = <<t, i, mem[t][i].at>>
      BY <2>1
    <2>3. x[2] = i /\ x[3] = mem[t][i].at /\ (k = 4 => i >= 1)
      BY <1>1, <2>2 DEF LinkSet
    <2>4. IsBranch(lab, t, i) /\ lab[t].role = k /\ lab[t].own = r
      BY <2>1, <2>3, Sizes DEF Level, IsBranch, Index
    <2>5. mem[t][i].at \in Memory /\ lab[mem[t][i].at] = Label(k - 1, t, i, r)
      BY <2>2, <2>4 DEF Tree, DownOK, IsBranch
    <2> QED BY <2>3, <2>5 DEF Level, Label
  <1>2. ASSUME NEW f \in Level(lab, k - 1, r)
        PROVE  \E x \in LinkSet(lab, k, r) : x[3] = f
    <2>1. lab[f].role \in {0, 1, 2, 3, 11, 12} /\ lab[f].role + 1 = k /\ f \in Memory
      BY <1>2 DEF Level
    <2> DEFINE t == lab[f].by
               i == lab[f].ix
               x == <<t, i, f>>
    <2>2. IsBranch(lab, t, i) /\ lab[t].role = k /\ lab[t].own = r /\ mem[t][i] = Present(f)
      BY <1>2, <2>1 DEF Tree, UpOK, Level
    <2> HIDE DEF t, i
    <2>3. t \in Level(lab, k, r) /\ i \in Index /\ mem[t][i].present /\ mem[t][i].at = f
      BY <2>2 DEF Level, IsBranch, Present
    <2>4. x \in EntriesOf(Level(lab, k, r))
      BY <2>3 DEF EntriesOf
    <2>5. k = 4 => i >= 1
      BY <2>2, <2>3, Sizes DEF IsBranch, Index
    <2>6. x[2] = i /\ x[3] = f
      OBVIOUS
    <2> HIDE DEF x
    <2>7. x \in LinkSet(lab, k, r)
      BY <2>4, <2>5, <2>6 DEF LinkSet
    <2> QED BY <2>6, <2>7
  <1> QED BY <1>1, <1>2 DEF Ends

LEMMA LinksOf ==
    ASSUME NEW u, NEW R, NEW H, NEW lab, Tree(mem, u, R, H, lab), NEW r \in R
    PROVE  Links(r) = LinkSet(lab, 4, r) \cup LinkSet(lab, 3, r)
                        \cup LinkSet(lab, 2, r) \cup LinkSet(lab, 1, r)
  <1>1. {r} = Level(lab, 4, r)
    BY DEF Tree, TopOK, Level
  <1>2. Level4(r) = LinkSet(lab, 4, r)
    BY <1>1 DEF Level4, LinkSet
  <1>3. \A k \in {1, 2, 3} : EntriesOf(Level(lab, k, r)) = LinkSet(lab, k, r)
    BY DEF LinkSet
  <1>4. Ends(Level4(r)) = Level(lab, 3, r)
    <2>1. Ends(LinkSet(lab, 4, r)) = Level(lab, 4 - 1, r)
      BY EndsOfLevel
    <2> QED BY <1>2, <2>1
  <1>5. Ends(LinkSet(lab, 3, r)) = Level(lab, 2, r)
    <2>1. Ends(LinkSet(lab, 3, r)) = Level(lab, 3 - 1, r)
      BY EndsOfLevel
    <2> QED BY <2>1
  <1>6. Ends(LinkSet(lab, 2, r)) = Level(lab, 1, r)
    <2>1. Ends(LinkSet(lab, 2, r)) = Level(lab, 2 - 1, r)
      BY EndsOfLevel
    <2> QED BY <2>1
  <1> QED BY <1>2, <1>3, <1>4, <1>5, <1>6, LinksAre

\* What a link leads to is labelled with the link.
LEMMA LinkLabel ==
    ASSUME NEW u, NEW R, NEW H, NEW lab, Tree(mem, u, R, H, lab),
           NEW x \in UNION {Links(r) : r \in R}
    PROVE  \E t, i : /\ x = <<t, i, x[3]>> /\ x[3] \in Memory
                     /\ lab[x[3]].by = t /\ lab[x[3]].ix = i
                     /\ lab[x[3]].role \in {0, 1, 2, 3}
  <1>1. PICK r \in R : x \in Links(r)
    OBVIOUS
  <1>2. PICK k \in {1, 2, 3, 4} : x \in LinkSet(lab, k, r)
    BY <1>1, LinksOf
  <1>3. PICK t \in Level(lab, k, r) : \E i \in Index : mem[t][i].present
                                         /\ x = <<t, i, mem[t][i].at>>
    BY <1>2 DEF LinkSet, EntriesOf
  <1>4. PICK i \in Index : mem[t][i].present /\ x = <<t, i, mem[t][i].at>>
    BY <1>3
  <1>5. x[2] = i /\ x[3] = mem[t][i].at /\ (k = 4 => i >= 1)
    BY <1>2, <1>4 DEF LinkSet
  <1>6. IsBranch(lab, t, i) /\ lab[t].role = k
    BY <1>3, <1>5, Sizes DEF Level, IsBranch, Index
  <1>7. mem[t][i].at \in Memory /\ lab[mem[t][i].at] = Label(k - 1, t, i, lab[t].own)
    BY <1>4, <1>6 DEF Tree, DownOK, IsBranch
  <1>8. lab[x[3]].by = t /\ lab[x[3]].ix = i /\ lab[x[3]].role = k - 1
    BY <1>5, <1>7 DEF Label
  <1> QED BY <1>4, <1>5, <1>7, <1>8

LEMMA OwnedHolds ==
    ASSUME SpInv
    PROVE  OwnedOnce
  <1> SUFFICES ASSUME ~ zeroTable
               PROVE  /\ \A x, y \in UserLinks : x[3] = y[3] => x = y
                      /\ held \subseteq used
                      /\ \A x \in UserLinks : x[3] \in used \ (held \cup Roots)
    BY DEF OwnedOnce
  <1>1. PICK lab : Tree(mem, used, Roots, held, lab)
    BY DEF SpInv, Trees
  <1>2. UserLinks \subseteq UNION {Links(r) : r \in Roots}
    BY DEF UserLinks
  <1>3. \A x \in UserLinks :
          \E t, i : /\ x = <<t, i, x[3]>> /\ x[3] \in Memory
                    /\ lab[x[3]].by = t /\ lab[x[3]].ix = i
                    /\ lab[x[3]].role \in {0, 1, 2, 3}
    BY <1>1, <1>2, LinkLabel
  <1>4. ASSUME NEW x \in UserLinks, NEW y \in UserLinks, x[3] = y[3] PROVE x = y
    <2>1. x = <<lab[x[3]].by, lab[x[3]].ix, x[3]>>
      BY <1>3
    <2>2. y = <<lab[y[3]].by, lab[y[3]].ix, y[3]>>
      BY <1>3
    <2> QED BY <1>4, <2>1, <2>2
  <1>5. \A x \in UserLinks : x[3] \in Memory /\ lab[x[3]].role \in {0, 1, 2, 3}
    BY <1>3
  <1>6. held \subseteq used /\ \A f \in Memory : lab[f].role \in {0, 1, 2, 3} =>
                                   f \in used \ (held \cup Roots)
    BY <1>1 DEF Tree, UseOK, TopOK
  <1> QED BY <1>4, <1>5, <1>6

LEMMA LostHolds ==
    ASSUME SpInv
    PROVE  NothingLost
  <1> DEFINE pds == Below(pdpt_table)
             ends == {l[3] : l \in UserLinks}
  <1> SUFFICES ASSUME ~ zeroTable, NEW f \in used
               PROVE  f \in Roots \cup held \cup ends \cup pds \cup UNION {Below(t) : t \in pds}
    BY DEF NothingLost
  <1>1. PICK lab : Tree(mem, used, Roots, held, lab)
    BY DEF SpInv, Trees
  <1>2. f \in Frames /\ f \in Memory /\ lab[f].role # 30 /\ lab[f].role \in Roles
    BY <1>1, Layout, RamNat DEF Tree, UseOK, FormOK, SpInv
  <1>3. CASE lab[f].role = 4
    BY <1>1, <1>2, <1>3 DEF Tree, TopOK
  <1>4. CASE lab[f].role = 20
    BY <1>1, <1>2, <1>4 DEF Tree, UseOK
  <1>5. CASE lab[f].role = 13
    BY <1>1, <1>2, <1>5, Layout, RamNat DEF Tree, TopOK, SpInv
  <1>6. ASSUME NEW g \in Memory, lab[g].role = 12 PROVE g \in pds
    <2>1. /\ IsBranch(lab, lab[g].by, lab[g].ix) /\ lab[lab[g].by].role = 13
          /\ mem[lab[g].by][lab[g].ix] = Present(g)
      BY <1>1, <1>6 DEF Tree, UpOK
    <2>2. lab[g].by = pdpt_table /\ lab[g].ix \in Index
      BY <1>1, <2>1 DEF Tree, TopOK, IsBranch
    <2> QED BY <2>1, <2>2 DEF Below, Present
  <1>7. CASE lab[f].role = 11
    <2>1. /\ IsBranch(lab, lab[f].by, lab[f].ix) /\ lab[lab[f].by].role = 12
          /\ mem[lab[f].by][lab[f].ix] = Present(f)
      BY <1>1, <1>2, <1>7 DEF Tree, UpOK
    <2>2. lab[f].by \in pds /\ f \in Below(lab[f].by)
      BY <1>6, <2>1 DEF IsBranch, Below, Present
    <2> QED BY <2>2
  <1>8. CASE lab[f].role \in {0, 1, 2, 3}
    <2> DEFINE k == lab[f].role + 1
               r == lab[f].own
    <2>1. k \in {1, 2, 3, 4} /\ f \in Level(lab, k - 1, r)
      BY <1>2, <1>8 DEF Level
    <2>2. \A j \in {1, 2, 3, 4}, g \in Memory : g \in Level(lab, j - 1, r) =>
             \E h \in Memory : h \in Level(lab, j, r) /\ (j = 4 => h \in Roots \ {pml4_table})
      <3>1. ASSUME NEW j \in {1, 2, 3, 4}, NEW g \in Memory, g \in Level(lab, j - 1, r)
            PROVE  \E h \in Memory : h \in Level(lab, j, r) /\ (j = 4 => h \in Roots \ {pml4_table})
        <4> DEFINE h == lab[g].by
        <4>1. /\ IsBranch(lab, h, lab[g].ix) /\ lab[h].role = j /\ lab[h].own = r
              /\ mem[h][lab[g].ix] = Present(g)
          BY <1>1, <3>1 DEF Tree, UpOK, Level
        <4> HIDE DEF h
        <4>2. h \in Memory /\ h \in Level(lab, j, r)
          BY <4>1 DEF IsBranch, Level
        <4>3. j = 4 => h \in Roots /\ h # pml4_table
          BY <1>1, <4>1 DEF Tree, TopOK, IsBranch, Present
        <4> QED BY <4>2, <4>3
      <3> QED BY <3>1
    <2>3. r \in Roots \ {pml4_table}
      <3> HIDE DEF r
      <3>1. \E h \in Memory : h \in Level(lab, 4, r) /\ h \in Roots \ {pml4_table}
        <4>1. \A g \in Memory : g \in Level(lab, 3, r) =>
                \E h \in Memory : h \in Level(lab, 4, r) /\ h \in Roots \ {pml4_table}
          <5>1. 4 - 1 = 3 /\ 4 \in {1, 2, 3, 4}
            OBVIOUS
          <5> QED BY <2>2, <5>1
        <4>2. \A g \in Memory : g \in Level(lab, 2, r) => \E h \in Memory : h \in Level(lab, 3, r)
          <5>1. 3 - 1 = 2 /\ 3 \in {1, 2, 3, 4}
            OBVIOUS
          <5> QED BY <2>2, <5>1
        <4>3. \A g \in Memory : g \in Level(lab, 1, r) => \E h \in Memory : h \in Level(lab, 2, r)
          <5>1. 2 - 1 = 1 /\ 2 \in {1, 2, 3, 4}
            OBVIOUS
          <5> QED BY <2>2, <5>1
        <4>4. \A g \in Memory : g \in Level(lab, 0, r) => \E h \in Memory : h \in Level(lab, 1, r)
          <5>1. 1 - 1 = 0 /\ 1 \in {1, 2, 3, 4}
            OBVIOUS
          <5> QED BY <2>2, <5>1
        <4>5. f \in Level(lab, lab[f].role, r)
          BY <1>2 DEF Level, r
        <4> QED BY <1>2, <1>8, <4>1, <4>2, <4>3, <4>4, <4>5
      <3>2. PICK h \in Memory : h \in Level(lab, 4, r) /\ h \in Roots \ {pml4_table}
        BY <3>1
      <3>3. h = r
        BY <1>1, <3>2 DEF Level, Tree, TopOK
      <3> QED BY <3>2, <3>3
    <2> HIDE DEF k, r
    <2>4. f \in Ends(LinkSet(lab, k, r))
      BY <1>1, <2>1, EndsOfLevel
    <2>5. LinkSet(lab, k, r) \subseteq Links(r)
      BY <1>1, <2>1, <2>3, LinksOf
    <2>6. LinkSet(lab, k, r) \subseteq UserLinks
      BY <2>3, <2>5 DEF UserLinks
    <2>7. f \in ends
      BY <2>4, <2>6 DEF Ends
    <2> QED BY <2>7
  <1> QED BY <1>2, <1>3, <1>4, <1>5, <1>6, <1>7, <1>8 DEF Roles

---------------------------------------------------------------------------
(* What the tables mean to the callers: the maps of module Mappings.       *)

Low == 0 .. TopSize - 1

\* Of the tables, a translation reads the kernel's and those of its space.
LEMMA ReadsOnly ==
    ASSUME ram \in Nat, NEW m, NEW u, NEW R, NEW H, NEW lab, Tree(m, u, R, H, lab),
           NEW r \in R, NEW v \in Pages, NEW m2,
           \A x \in Memory :
              \/ lab[x].role \in {11, 12, 13}
              \/ lab[x].role \in {1, 2, 3, 4} /\ lab[x].own = r
              => m2[x] = m[x]
    PROVE  Translate(m2, r, v) = Translate(m, r, v)
  <1> DEFINE a == Entry4(m, r, v)
             b == Entry3(m, r, v)
             c == Entry2(m, r, v)
             d == Entry1(m, r, v)
             a2 == Entry4(m2, r, v)
             b2 == Entry3(m2, r, v)
             c2 == Entry2(m2, r, v)
             d2 == Entry1(m2, r, v)
             p1 == PT_INDEX(v)
  <1>r. Routed(lab, a, b, c, v)
    BY Route
  <1>a. a = m[r][PML4_INDEX(v)] /\ a2 = m2[r][PML4_INDEX(v)]
    BY DEF Entry4
  <1>b. b = m[a.at][PDPT_INDEX(v)] /\ b2 = m2[a2.at][PDPT_INDEX(v)]
    BY DEF Entry3
  <1>c. c = m[b.at][PD_INDEX(v)] /\ c2 = m2[b2.at][PD_INDEX(v)]
    BY DEF Entry2
  <1>d. d = m[c.at][p1] /\ d2 = m2[c2.at][p1]
    BY DEF Entry1
  <1>1. /\ Translate(m, r, v) = IF ~ a.present \/ ~ b.present \/ ~ c.present THEN Fault
                                ELSE IF c.huge THEN c.at + p1
                                ELSE IF d.present THEN d.at ELSE Fault
        /\ Translate(m2, r, v) = IF ~ a2.present \/ ~ b2.present \/ ~ c2.present THEN Fault
                                 ELSE IF c2.huge THEN c2.at + p1
                                 ELSE IF d2.present THEN d2.at ELSE Fault
    BY TranslateIs
  <1> HIDE DEF a, b, c, d, a2, b2, c2, d2, p1
  <1>2. r \in Memory /\ lab[r].role = 4 /\ lab[r].own = r /\ PML4_INDEX(v) \in Index
    BY PageDigits DEF Tree, TopOK
  <1>u. \A f \in Memory : lab[f].role \in {1, 2, 11, 12} =>
            lab[lab[f].by].role = lab[f].role + 1 /\ lab[lab[f].by].own = lab[f].own
    BY DEF Tree, UpOK
  <1>3. a2 = a
    BY <1>2, <1>a
  <1>4. ASSUME a.present
        PROVE  a.at \in Memory /\ (lab[a.at].role = 13 \/ (lab[a.at].role = 3 /\ lab[a.at].own = r))
    <2>1. /\ a.at \in Memory /\ ~ a.huge
          /\ lab[a.at].role = 13 \/ (lab[a.at].role = 3 /\ PML4_INDEX(v) # 0)
      BY <1>4, <1>r DEF Routed
    <2>2. ASSUME PML4_INDEX(v) # 0 PROVE lab[a.at].own = r
      <3>1. IsBranch(lab, r, PML4_INDEX(v))
        BY <1>2, <2>2 DEF IsBranch
      <3>2. lab[a.at] = Label(lab[r].role - 1, r, PML4_INDEX(v), lab[r].own)
        BY <1>2, <1>4, <1>a, <2>1, <3>1 DEF Tree, DownOK
      <3> QED BY <1>2, <3>2 DEF Label
    <2> QED BY <2>1, <2>2
  <1>5. ASSUME a.present PROVE b2 = b
    BY <1>3, <1>4, <1>5, <1>b
  <1>6. ASSUME a.present, b.present
        PROVE  b.at \in Memory /\ (lab[b.at].role = 12 \/ (lab[b.at].role = 2 /\ lab[b.at].own = r))
    <2>1. b.at \in Memory /\ lab[b.at].role \in {2, 12} /\ lab[b.at].by = a.at
      BY <1>6, <1>r DEF Routed
    <2> QED BY <1>4, <1>6, <1>u, <2>1
  <1>7. ASSUME a.present, b.present PROVE c2 = c
    BY <1>5, <1>6, <1>7, <1>c
  <1>8. ASSUME a.present, b.present, c.present, ~ c.huge
        PROVE  d2 = d
    <2>1. c.at \in Memory /\ lab[c.at].role \in {1, 11} /\ lab[c.at].by = b.at
      BY <1>8, <1>r DEF Routed
    <2>2. lab[c.at].role = 11 \/ (lab[c.at].role = 1 /\ lab[c.at].own = r)
      BY <1>6, <1>8, <1>u, <2>1
    <2> QED BY <1>7, <1>8, <1>d, <2>1, <2>2
  <1>9. CASE ~ a.present
    BY <1>1, <1>3, <1>9
  <1>10. CASE a.present /\ ~ b.present
    BY <1>1, <1>3, <1>5, <1>10
  <1>11. CASE a.present /\ b.present /\ (~ c.present \/ c.huge)
    BY <1>1, <1>3, <1>5, <1>7, <1>11
  <1>12. CASE a.present /\ b.present /\ c.present /\ ~ c.huge
    BY <1>1, <1>3, <1>5, <1>7, <1>8, <1>12
  <1> QED BY <1>9, <1>10, <1>11, <1>12

\* Above the kernel's part a space leads to pages labelled as mapped.
LEMMA UserPage ==
    ASSUME ram \in Nat, NEW m, NEW u, NEW R, NEW H, NEW lab, Tree(m, u, R, H, lab),
           NEW r \in R, NEW v \in Pages \ Low, Translate(m, r, v) # Fault
    PROVE  Translate(m, r, v) \in Memory /\ lab[Translate(m, r, v)].role = 0
  <1> DEFINE a == Entry4(m, r, v)
             b == Entry3(m, r, v)
             c == Entry2(m, r, v)
             d == Entry1(m, r, v)
             p1 == PT_INDEX(v)
  <1>r. Routed(lab, a, b, c, v)
    BY Route
  <1>c. c = m[b.at][PD_INDEX(v)] /\ d = m[c.at][p1]
    BY DEF Entry2, Entry1
  <1>1. Translate(m, r, v) = IF ~ a.present \/ ~ b.present \/ ~ c.present THEN Fault
                             ELSE IF c.huge THEN c.at + p1
                             ELSE IF d.present THEN d.at ELSE Fault
    BY TranslateIs
  <1> HIDE DEF a, b, c, d
  <1>2. p1 \in Index /\ PD_INDEX(v) \in Index /\ PML4_INDEX(v) # 0
    <2>1. v \in Nat /\ v \in TopSize .. SpaceSize - 1
      BY PageDigits, Sizes DEF Pages, Low
    <2> QED BY <2>1, Digits
  <1>3. a.present /\ b.present /\ c.present
    BY <1>1
  <1>u. \A f \in Memory : lab[f].role \in {1, 2, 11, 12} =>
            lab[lab[f].by].role = lab[f].role + 1
    BY DEF Tree, UpOK
  <1>4. a.at \in Memory /\ lab[a.at].role = 3
    BY <1>2, <1>3, <1>r DEF Routed
  <1>5. b.at \in Memory /\ lab[b.at].role = 2
    BY <1>3, <1>4, <1>r, <1>u DEF Routed
  <1>6. ~ c.huge
    <2>1. IsBranch(lab, b.at, PD_INDEX(v))
      BY <1>2, <1>5 DEF IsBranch
    <2> QED BY <1>2, <1>3, <1>5, <1>c, <2>1 DEF Tree, DownOK
  <1>7. c.at \in Memory /\ lab[c.at].role = 1
    BY <1>3, <1>5, <1>6, <1>r, <1>u DEF Routed
  <1>8. d.present
    BY <1>1, <1>3, <1>6
  <1>9. d.at \in Memory /\ lab[d.at].role = 0
    <2>1. IsBranch(lab, c.at, p1)
      BY <1>2, <1>7 DEF IsBranch
    <2>2. d.at \in Memory /\ lab[d.at] = Label(lab[c.at].role - 1, c.at, p1, lab[c.at].own)
      BY <1>2, <1>7, <1>8, <1>c, <2>1 DEF Tree, DownOK
    <2> QED BY <1>7, <2>2 DEF Label
  <1> QED BY <1>1, <1>3, <1>6, <1>8, <1>9

\* paging_init leads each page below the directories it fills to itself.
LEMMA StartMap ==
    ASSUME ram \in Nat, mem = IdentityMap(ram), NEW v \in Pages
    PROVE  Translate(mem, pml4_table, v) = IF v <= gb_count(ram) * DirSize - 1 THEN v ELSE Fault
  <1> DEFINE n == gb_count(ram)
             a == Entry4(mem, pml4_table, v)
             b == Entry3(mem, pml4_table, v)
             c == Entry2(mem, pml4_table, v)
             p1 == PT_INDEX(v)
             q == v \div DirSize
  <1>1. n \in 1 .. Tables /\ n <= Entries
    BY SomeDirectories, Sizes
  <1>2. /\ v \in Nat /\ PML4_INDEX(v) \in Index /\ PDPT_INDEX(v) \in Index
        /\ PD_INDEX(v) \in Index /\ p1 \in Index
    BY PageDigits
  <1>3. a = mem[pml4_table][PML4_INDEX(v)] /\ b = mem[a.at][PDPT_INDEX(v)] /\ c = mem[b.at][PD_INDEX(v)]
    BY DEF Entry4, Entry3, Entry2
  <1>4. /\ ~ a.present \/ ~ b.present => Translate(mem, pml4_table, v) = Fault
        /\ a.present /\ b.present /\ c.present /\ c.huge => Translate(mem, pml4_table, v) = c.at + p1
    BY TranslateIs
  <1>5. /\ mem[pml4_table] = [Blank EXCEPT ![0] = Present(pdpt_table)]
        /\ mem[pdpt_table] = [i \in Index |-> IF i < n THEN Present(pd_table(i)) ELSE Absent]
    <2>1. pml4_table \in Memory /\ pdpt_table \in Memory /\ pdpt_table # pml4_table
      BY Layout DEF pml4_table, pdpt_table
    <2>2. {pml4_table, pdpt_table} \cap {pd_table(t) : t \in 0 .. n - 1} = {}
      BY <1>1 DEF pml4_table, pdpt_table, pd_table
    <2> HIDE DEF n
    <2>3. mem[pml4_table] = [Blank EXCEPT ![0] = Present(pdpt_table)]
      BY <2>1, <2>2 DEF IdentityMap, Memory, n
    <2>4. mem[pdpt_table] = [i \in Index |-> IF i < n THEN Present(pd_table(i)) ELSE Absent]
      BY <2>1, <2>2 DEF IdentityMap, Memory, n
    <2> QED BY <2>3, <2>4
  <1>q. q \in Nat /\ DirSize * q <= v /\ v < DirSize * q + DirSize
    BY <1>2, Quotient, Sizes
  <1>6. \A x, y \in Nat : x <= y => x * DirSize <= y * DirSize /\ x * DirSize \in Nat /\ y * DirSize \in Nat
    <2>1. ASSUME NEW x \in Nat, NEW y \in Nat, x <= y
          PROVE  x * DirSize <= y * DirSize /\ x * DirSize \in Nat /\ y * DirSize \in Nat
      <3>1. y - x \in Nat /\ y = x + (y - x)
        BY <2>1
      <3>2. y * DirSize = x * DirSize + (y - x) * DirSize /\ (y - x) * DirSize \in Nat /\ x * DirSize \in Nat
        BY <3>1, Sizes
      <3> QED BY <3>2
    <2> QED BY <2>1
  <1> HIDE DEF n, a, b, c, p1, q
  <1>7. q < n <=> v <= n * DirSize - 1
    <2>1. DirSize * q = q * DirSize /\ (q + 1) * DirSize = q * DirSize + DirSize /\ q * DirSize \in Nat
      BY <1>q, Sizes
    <2>2. n \in Nat /\ n * DirSize \in Nat
      BY <1>1, Sizes
    <2>3. ASSUME q < n PROVE v < n * DirSize
      <3>1. q + 1 \in Nat /\ q + 1 <= n
        BY <1>q, <2>2, <2>3
      <3>2. (q + 1) * DirSize <= n * DirSize
        BY <1>6, <2>2, <3>1
      <3>3. v < (q + 1) * DirSize /\ (q + 1) * DirSize \in Nat
        BY <1>2, <1>q, <2>1, Sizes
      <3> QED BY <1>2, <2>2, <3>2, <3>3
    <2>4. ASSUME ~ (q < n) PROVE ~ (v < n * DirSize)
      <3>1. n * DirSize <= q * DirSize
        BY <1>6, <1>q, <2>2, <2>4
      <3> QED BY <1>2, <1>q, <2>1, <2>2, <3>1
    <2> QED BY <1>2, <2>2, <2>3, <2>4
  <1>8. CASE q < n
    <2>1. q \in 0 .. n - 1 /\ q < Entries
      BY <1>1, <1>q, <1>8, Sizes
    <2>2. PML4_INDEX(v) = 0
      <3>1. v < TopSize
        <4>1. n * DirSize <= Entries * DirSize /\ Entries * DirSize = TopSize
          BY <1>1, <1>6, Sizes
        <4>2. n * DirSize \in Nat
          BY <1>1, Sizes
        <4> QED BY <1>2, <1>7, <1>8, <4>1, <4>2, Sizes
      <3> QED BY <1>2, <3>1, Digits
    <2>3. /\ mem[pdpt_table][PDPT_INDEX(v)] = Present(pd_table(PDPT_INDEX(v)))
          /\ mem[pd_table(PDPT_INDEX(v))][PD_INDEX(v)] = Huge(v - p1)
      BY <1>2, <2>1, StartEntries DEF n, q, p1
    <2>4. a = Present(pdpt_table)
      BY <1>2, <1>3, <1>5, <2>2 DEF Blank
    <2>5. b = Present(pd_table(PDPT_INDEX(v)))
      BY <1>3, <2>3, <2>4 DEF Present
    <2>6. c = Huge(v - p1)
      BY <1>3, <2>3, <2>5 DEF Present
    <2>7. v - p1 + p1 = v
      BY <1>2, Sizes DEF Index
    <2> QED BY <1>4, <1>7, <1>8, <2>4, <2>5, <2>6, <2>7 DEF Present, Huge, n
  <1>9. CASE ~ (q < n)
    <2>1. ~ a.present \/ ~ b.present
      <3>1. CASE PML4_INDEX(v) # 0
        BY <1>2, <1>3, <1>5, <3>1 DEF Blank, Absent
      <3>2. CASE PML4_INDEX(v) = 0
        <4>1. a = Present(pdpt_table)
          BY <1>2, <1>3, <1>5, <3>2 DEF Blank
        <4>2. PDPT_INDEX(v) = q
          <5>1. v < TopSize \/ v \in TopSize .. SpaceSize - 1
            BY <1>2, Sizes DEF Pages
          <5>2. v < TopSize
            BY <1>2, <3>2, <5>1, Digits
          <5>3. q < Entries
            <6>1. ASSUME Entries <= q PROVE FALSE
              <7>1. Entries * DirSize <= q * DirSize /\ Entries * DirSize = TopSize /\ DirSize * q = q * DirSize
                BY <1>6, <1>q, <6>1, Sizes
              <7>2. q * DirSize \in Nat
                BY <1>q, Sizes
              <7> QED BY <1>2, <1>q, <5>2, <7>1, <7>2, Sizes
            <6> QED BY <1>q, <6>1, Sizes
          <5>4. \A x \in Nat : x < Entries => x % Entries = x
            BY Sizes
          <5> QED BY <1>q, <5>3, <5>4 DEF PDPT_INDEX, q
        <4>3. ~ mem[pdpt_table][PDPT_INDEX(v)].present
          BY <1>2, <1>5, <1>9, <4>2 DEF Absent
        <4> QED BY <1>3, <4>1, <4>3 DEF Present
      <3> QED BY <3>1, <3>2
    <2> QED BY <1>4, <1>7, <1>9, <2>1 DEF n
  <1> QED BY <1>8, <1>9

\* The pages of the kernel's part are those below entry 0 of a top table.
LEMMA LowIs ==
    ASSUME NEW v \in Pages
    PROVE  v \in Low <=> PML4_INDEX(v) = 0
  <1>1. v \in Nat /\ (v < TopSize \/ v \in TopSize .. SpaceSize - 1)
    BY PageDigits, Sizes DEF Pages
  <1>2. v < TopSize => PML4_INDEX(v) = 0
    BY <1>1, Digits
  <1>3. v \in TopSize .. SpaceSize - 1 => PML4_INDEX(v) # 0
    BY <1>1, Digits
  <1> QED BY <1>1, <1>2, <1>3, Sizes DEF Low

\* The maps of the live spaces.
Map == [s \in DOMAIN pml4 |-> [v \in Pages |-> Translate(mem, pml4[s], v)]]

LEMMA MapAt ==
    /\ DOMAIN Map = DOMAIN pml4 /\ DOMAIN Map' = DOMAIN pml4'
    /\ \A s \in DOMAIN pml4 :
          DOMAIN Map[s] = Pages /\ \A v \in Pages : Map[s][v] = Translate(mem, pml4[s], v)
    /\ \A s \in DOMAIN pml4' :
          DOMAIN Map'[s] = Pages /\ \A v \in Pages : Map'[s][v] = Translate(mem', pml4'[s], v)
  <1> QED BY DEF Map

LEMMA InitMaps ==
    ASSUME Init
    PROVE  Maps!MapsInit
  <1>1. /\ zeroTable = FALSE /\ DOMAIN pml4 = {Kernel} /\ pml4[Kernel] = pml4_table
        /\ mem = IdentityMap(ram) /\ ram \in Nat
    BY SpaceAssumption DEF Init
  <1> DEFINE last == gb_count(ram) * DirSize - 1
  <1>2. last \in 0 .. TopSize - 1
    <2> DEFINE n == gb_count(ram)
    <2>1. n \in 1 .. Tables /\ n <= Entries /\ n \in Nat
      BY <1>1, SomeDirectories, Sizes
    <2> HIDE DEF n
    <2>2. Entries - n \in Nat /\ n - 1 \in Nat
      BY <2>1, Sizes
    <2>3. TopSize = n * DirSize + (Entries - n) * DirSize
      BY <2>1, <2>2, Sizes
    <2>4. n * DirSize = (n - 1) * DirSize + DirSize
      BY <2>1, Sizes
    <2>5. (Entries - n) * DirSize \in Nat /\ (n - 1) * DirSize \in Nat
      BY <2>2, Sizes
    <2>6. n * DirSize - 1 \in 0 .. TopSize - 1
      BY <2>3, <2>4, <2>5, Sizes
    <2> QED BY <2>6 DEF n
  <1>3. \A v \in Pages : Map[Kernel][v] = IF v <= last THEN v ELSE Fault
    BY <1>1, MapAt, StartMap
  <1> HIDE DEF last
  <1>4. DOMAIN Map = {Kernel}
    BY <1>1, MapAt
  <1> QED BY <1>1, <1>2, <1>3, <1>4 DEF Maps!MapsInit, Map

\* The kernel's part is the same in all spaces before and after each step.
LEMMA KernelShared ==
    (SpInv => KernelIsShared) /\ (SpInv' => KernelIsShared')
  <1>1. SpInv => KernelIsShared
    BY SharedHolds
  <1> QED BY <1>1, PTL

LEMMA SharedMap ==
    ASSUME SpInv'
    PROVE  Maps!Shared(Map')
  <1>1. ASSUME NEW s \in DOMAIN Map', NEW v \in Low
        PROVE  Map'[s][v] = Map'[Kernel][v]
    <2>1. /\ s \in DOMAIN pml4' /\ Kernel \in DOMAIN pml4' /\ pml4'[Kernel] = pml4_table
          /\ v \in Pages
      BY <1>1, MapAt, LowPages DEF SpInv, Stage, Low
    <2>2. KernelIsShared'
      BY KernelShared
    <2>3. pml4'[s] \in Roots'
      BY <2>1 DEF Roots
    <2>4. Translate(mem', pml4'[s], v) = Translate(mem', pml4_table, v)
      BY <1>1, <2>2, <2>3 DEF KernelIsShared, Low
    <2> QED BY <2>1, <2>4, MapAt
  <1> QED BY <1>1 DEF Maps!Shared, Low

LEMMA FailMaps ==
    ASSUME SpInv', ~ zeroTable, zeroTable', DOMAIN pml4' = DOMAIN pml4
    PROVE  Maps!MapsNext
  <1>1. DOMAIN Map' = DOMAIN Map
    BY MapAt
  <1>2. Maps!Shared(Map')
    BY SharedMap
  <1> QED BY <1>1, <1>2 DEF Maps!MapsNext, Maps!Fail, Map

\* What map_page moves for the kernel.
LEMMA KernelMap ==
    ASSUME SpInv', ~ zeroTable, pml4' = pml4, KernelPage
    PROVE  Maps!MapsNext
  <1>1. CASE zeroTable'
    BY <1>1, FailMaps
  <1>2. CASE ~ zeroTable'
    <2>1. PICK v \in Low : \E page : Moved(mem', mem, Roots, Roots, v, page)
      BY <1>2, WindowsBelow DEF KernelPage, Low
    <2>2. ASSUME NEW s \in DOMAIN Map, NEW u \in Pages, Map'[s][u] # Map[s][u]
          PROVE  s \in DOMAIN Map /\ u = v
      <3>1. s \in DOMAIN pml4 /\ pml4[s] \in Roots
        BY <2>2, MapAt DEF Roots
      <3>2. Translate(mem', pml4[s], u) # Translate(mem, pml4[s], u)
        BY <2>2, <3>1, MapAt
      <3> QED BY <2>1, <2>2, <3>1, <3>2 DEF Moved
    <2>3. Maps!OnlyMoves(DOMAIN Map, v)
      BY <2>2 DEF Maps!OnlyMoves, Map
    <2>4. Maps!Shared(Map')
      BY SharedMap
    <2>5. Maps!MapKernel(v)
      BY <2>3, <2>4 DEF Maps!MapKernel, Map
    <2>6. DOMAIN Map' = DOMAIN Map
      BY MapAt
    <2>7. Maps!MapsOne
      BY <2>1, <2>5, <2>6 DEF Maps!MapsOne, Map, Low
    <2> QED BY <1>2, <2>7 DEF Maps!MapsNext
  <1> QED BY <1>1, <1>2

\* A process's page goes where no space has one of its own: the frame is held
\* by its caller, and no page below a space's own tables is.
LEMMA ProcessMap ==
    ASSUME SpInv, SpInv', Alive, NEW s \in Spaces, NEW v \in UserPages, NEW f \in held,
           MapTo(s, v, f)
    PROVE  Maps!MapsNext
  <1>1. /\ s \in DOMAIN pml4 \ {Kernel} /\ Translate(mem, pml4[s], v) = Fault
        /\ ~ zeroTable /\ ram \in Nat /\ pml4' = pml4
    BY RamNat DEF MapTo, Alive, SpInv
  <1>2. CASE zeroTable'
    BY <1>1, <1>2, FailMaps
  <1>3. CASE ~ zeroTable'
    <2>1. Moved(mem', mem, Roots, {pml4[s]}, v, f)
      BY <1>3, MapToStep
    <2>2. v \in Pages \ Low
      BY SpaceAssumption, Sizes DEF Pages, Low
    <2>3. PICK lab : Tree(mem, used, Roots, held, lab)
      BY <1>1 DEF SpInv, Trees
    <2>4. f \in Frames /\ f \in Memory /\ lab[f].role = 20 /\ f # Fault
      <3>1. f \in Frames /\ f \in Memory /\ lab[f].role = 20
        BY <1>1, <2>3, Layout DEF Tree, UseOK
      <3> QED BY <1>1, <3>1, Layout DEF Fault
    <2>5. \A t \in DOMAIN pml4 : pml4[t] \in Roots /\ (pml4[t] = pml4[s] => t = s)
      BY <1>1 DEF Roots, SpInv, Stage
    <2>6. Map[s][v] = Fault /\ Map'[s][v] = f
      <3>1. Translate(mem', pml4[s], v) = f
        BY <1>1, <2>1, <2>2, <2>5 DEF Moved
      <3> QED BY <1>1, <2>2, <3>1, MapAt
    <2>7. Maps!OnlyMoves({s}, v)
      <3>1. ASSUME NEW t \in DOMAIN Map, NEW u \in Pages, Map'[t][u] # Map[t][u]
            PROVE  t \in {s} /\ u = v
        <4>1. t \in DOMAIN pml4
          BY <3>1, MapAt
        <4>2. Translate(mem', pml4[t], u) # Translate(mem, pml4[t], u)
          BY <1>1, <3>1, <4>1, MapAt
        <4> QED BY <2>1, <2>5, <3>1, <4>1, <4>2 DEF Moved
      <3> QED BY <3>1 DEF Maps!OnlyMoves, Map
    <2>8. ASSUME NEW t \in DOMAIN Map, NEW u \in Pages \ Low
          PROVE  Map[t][u] # Map'[s][v]
      <3>1. t \in DOMAIN pml4 /\ pml4[t] \in Roots
        BY <2>5, MapAt
      <3>2. Translate(mem, pml4[t], u) # f
        <4>1. Translate(mem, pml4[t], u) # Fault => lab[Translate(mem, pml4[t], u)].role = 0
          BY <1>1, <2>3, <3>1, UserPage
        <4> QED BY <2>4, <4>1
      <3> QED BY <2>6, <3>1, <3>2, MapAt
    <2>9. Maps!MapUser(s, v)
      BY <1>1, <2>4, <2>6, <2>7, <2>8 DEF Maps!MapUser, Map, Low
    <2>10. DOMAIN Map' = DOMAIN Map /\ s \in DOMAIN Map
      BY <1>1, MapAt
    <2>11. Maps!MapsOne
      BY <2>2, <2>9, <2>10 DEF Maps!MapsOne, Map, Low
    <2> QED BY <1>1, <1>3, <2>11 DEF Maps!MapsNext
  <1> QED BY <1>2, <1>3

\* A new top table shows the kernel's part and nothing else.
LEMMA CreateMap ==
    ASSUME SpInv, Alive, NEW s \in Spaces, AddressSpaceCreate(s)
    PROVE  Maps!Create(s) /\ Maps!MapsNext
  <1> DEFINE f == AllocFrame(used)
  <1>1. /\ s \notin DOMAIN pml4 /\ f # 0 /\ ~ zeroTable /\ ~ zeroTable' /\ ram \in Nat
        /\ mem' = [mem EXCEPT ![f] = [Blank EXCEPT ![0] = mem[pml4_table][0]]]
        /\ pml4' = [x \in DOMAIN pml4 \cup {s} |-> IF x = s THEN f ELSE pml4[x]]
    BY RamNat DEF AddressSpaceCreate, Alive, copy_kernel_mappings, SpInv
  <1>2. f \in Frames \ used
    BY <1>1, Allocated
  <1> HIDE DEF f
  <1>3. PICK lab : Tree(mem, used, Roots, held, lab)
    BY <1>1 DEF SpInv, Trees
  <1>4. f \in Memory /\ lab[f].role = 30
    BY <1>1, <1>2, <1>3, FreeRole
  <1>5. DOMAIN mem = Memory /\ \A x \in Memory : x # f => mem'[x] = mem[x]
    BY <1>1, <1>3 DEF Tree, FormOK
  <1>6. ASSUME NEW t \in DOMAIN pml4, NEW v \in Pages
        PROVE  Translate(mem', pml4[t], v) = Translate(mem, pml4[t], v)
    <2>1. pml4[t] \in Roots
      BY DEF Roots
    <2>2. \A x \in Memory :
              \/ lab[x].role \in {11, 12, 13}
              \/ lab[x].role \in {1, 2, 3, 4} /\ lab[x].own = pml4[t]
              => mem'[x] = mem[x]
      BY <1>4, <1>5
    <2>3. ram \in Nat
      BY <1>1
    <2> QED BY <1>3, <2>1, <2>2, <2>3, ReadsOnly
  <1>7. Kernel \in DOMAIN pml4 /\ pml4[Kernel] = pml4_table /\ pml4_table # f /\ pml4_table \in Memory
    BY <1>1, <1>2, Layout DEF SpInv, Stage
  <1>8. ASSUME NEW v \in Pages
        PROVE  Translate(mem', f, v) = IF v \in Low THEN Translate(mem, pml4_table, v) ELSE Fault
    <2>1. mem'[f] = [Blank EXCEPT ![0] = mem[pml4_table][0]] /\ PML4_INDEX(v) \in Index /\ 0 \in Index
      BY <1>1, <1>4, <1>5, PageDigits, Sizes DEF Index
    <2>2. CASE v \in Low
      <3>1. PML4_INDEX(v) = 0
        BY <2>2, LowIs
      <3>2. mem'[f][0] = mem'[pml4_table][0]
        BY <1>5, <1>7, <2>1 DEF Blank
      <3>3. Translate(mem', f, v) = Translate(mem', pml4_table, v)
        BY <3>1, <3>2 DEF Translate
      <3> QED BY <1>6, <1>7, <2>2, <3>3
    <2>3. CASE v \notin Low
      <3>1. PML4_INDEX(v) # 0
        BY <2>3, LowIs
      <3>2. ~ mem'[f][PML4_INDEX(v)].present
        BY <2>1, <3>1 DEF Blank, Absent
      <3> QED BY <2>3, <3>2 DEF Translate
    <2> QED BY <2>2, <2>3
  <1>9. Map' = [t \in DOMAIN Map \cup {s} |->
                  IF t # s THEN Map[t]
                  ELSE [v \in Pages |-> IF v \in Low THEN Map[Kernel][v] ELSE Fault]]
    <2>1. ASSUME NEW t \in DOMAIN pml4
          PROVE  [v \in Pages |-> Translate(mem', pml4'[t], v)] = Map[t]
      <3>1. pml4'[t] = pml4[t]
        BY <1>1
      <3> QED BY <1>6, <3>1 DEF Map
    <2>2. [v \in Pages |-> Translate(mem', pml4'[s], v)]
             = [v \in Pages |-> IF v \in Low THEN Map[Kernel][v] ELSE Fault]
      <3>1. pml4'[s] = f
        BY <1>1
      <3>2. \A v \in Pages : Map[Kernel][v] = Translate(mem, pml4_table, v)
        BY <1>7, MapAt
      <3> QED BY <1>8, <3>1, <3>2
    <2>3. DOMAIN pml4' = DOMAIN pml4 \cup {s} /\ DOMAIN Map = DOMAIN pml4
      BY <1>1, MapAt
    <2>4. Map' = [t \in DOMAIN pml4' |-> [v \in Pages |-> Translate(mem', pml4'[t], v)]]
      BY DEF Map
    <2> HIDE DEF Map
    <2> QED BY <1>1, <2>1, <2>2, <2>3, <2>4
  <1>10. s \in DOMAIN Map' \ DOMAIN Map
    BY <1>1, MapAt
  <1>11. Maps!Create(s)
    BY <1>9, <1>10 DEF Maps!Create, Map, Low
  <1> QED BY <1>1, <1>11 DEF Maps!MapsNext

\* An exit writes in the tables of its own space only.
LEMMA ExitMap ==
    ASSUME SpInv, Alive, Exit
    PROVE  Maps!Destroy(space) /\ Maps!MapsNext
  <1> DEFINE r == pml4[space]
  <1>1. /\ space # Kernel /\ ~ zeroTable /\ ~ zeroTable' /\ ram \in Nat /\ space \in DOMAIN pml4
        /\ used' = used \ OwnPages(r)
        /\ mem' = [f \in DOMAIN mem |-> IF f \in used \ used' THEN Garbage ELSE mem[f]]
        /\ pml4' = [x \in DOMAIN pml4 \ {space} |-> pml4[x]]
    BY RamNat DEF Exit, AddressSpaceDestroy, FreeFrames, Alive, SpInv, Stage
  <1>2. r \in Roots
    BY <1>1 DEF Roots
  <1>3. \A t \in DOMAIN pml4 : pml4[t] \in Roots /\ (pml4[t] = r => t = space)
    BY <1>1 DEF SpInv, Stage, Roots
  <1> HIDE DEF r
  <1>4. PICK lab : Tree(mem, used, Roots, held, lab)
    BY <1>1 DEF SpInv, Trees
  <1>5. used' = used \ OwnSet(lab, r)
    BY <1>1, <1>2, <1>4, OwnPagesAre
  <1>6. DOMAIN mem = Memory /\ \A x \in Memory : x \notin OwnSet(lab, r) => mem'[x] = mem[x]
    BY <1>1, <1>4, <1>5 DEF Tree, FormOK
  <1>7. ASSUME NEW t \in DOMAIN pml4 \ {space}, NEW v \in Pages
        PROVE  Translate(mem', pml4[t], v) = Translate(mem, pml4[t], v)
    <2>1. pml4[t] \in Roots /\ pml4[t] # r
      BY <1>3
    <2>2. \A x \in Memory :
              \/ lab[x].role \in {11, 12, 13}
              \/ lab[x].role \in {1, 2, 3, 4} /\ lab[x].own = pml4[t]
              => mem'[x] = mem[x]
      BY <1>6, <2>1 DEF OwnSet
    <2> QED BY <1>1, <1>4, <2>1, <2>2, ReadsOnly
  <1>8. Map' = [t \in DOMAIN Map \ {space} |-> Map[t]]
    <2>1. ASSUME NEW t \in DOMAIN pml4 \ {space}
          PROVE  [v \in Pages |-> Translate(mem', pml4'[t], v)] = Map[t]
      <3>1. pml4'[t] = pml4[t]
        BY <1>1
      <3> QED BY <1>7, <3>1 DEF Map
    <2>2. DOMAIN pml4' = DOMAIN pml4 \ {space} /\ DOMAIN Map = DOMAIN pml4
      BY <1>1, MapAt
    <2>3. Map' = [t \in DOMAIN pml4' |-> [v \in Pages |-> Translate(mem', pml4'[t], v)]]
      BY DEF Map
    <2> HIDE DEF Map
    <2> QED BY <2>1, <2>2, <2>3
  <1>9. space \in DOMAIN Map \ DOMAIN Map'
    BY <1>1, MapAt
  <1>10. Maps!Destroy(space)
    BY <1>1, <1>8, <1>9 DEF Maps!Destroy, Map
  <1>11. space \in DOMAIN Map
    BY <1>9
  <1> QED BY <1>1, <1>10, <1>11 DEF Maps!MapsNext, Map

LEMMA MapsStep ==
    ASSUME SpInv, [Next]_vars
    PROVE  [Maps!MapsNext]_<<Map, zeroTable>>
  <1>1. SpInv'
    BY SpStep
  <1>2. ASSUME mem' = mem, pml4' = pml4, zeroTable' = zeroTable
        PROVE  UNCHANGED <<Map, zeroTable>>
    BY <1>2 DEF Map
  <1>3. CASE AllocPage \/ (\E s \in Spaces : AddressSpaceSwitch(s)) \/ UNCHANGED vars
    BY <1>2, <1>3 DEF AllocPage, AddressSpaceSwitch, vars
  <1>4. ASSUME ~ zeroTable,
               \/ HeapInit \/ MapMmio \/ MapTest \/ HeapGrows
               \/ \E v \in MapPages, page \in MapTargets : MemoryMap(v, page)
        PROVE  Maps!MapsNext
    <2>1. pml4' = pml4
      BY <1>4 DEF HeapInit, MapMmio, MapTest, HeapGrows, HeapPage, MemoryMap
    <2> QED BY <1>1, <1>4, <2>1, StartUpStep, KernelMap
  <1>5. HeapInit => ~ zeroTable
    BY DEF HeapInit, SpInv, Stage
  <1>6. ASSUME NEW s \in Spaces, NEW v \in UserPages, NEW f \in held, Alive, MapTo(s, v, f)
        PROVE  Maps!MapsNext
    BY <1>1, <1>6, ProcessMap
  <1>7. ASSUME NEW s \in Spaces, Alive, AddressSpaceCreate(s)
        PROVE  Maps!MapsNext
    BY <1>7, CreateMap
  <1>8. ASSUME Alive, Exit
        PROVE  Maps!MapsNext
    BY <1>8, ExitMap
  <1> QED BY <1>3, <1>4, <1>5, <1>6, <1>7, <1>8 DEF Next, Call, Alive

\* Until map_page runs out of frames, the kernel has each page of the memory but
\* its windows where it is.
Straight ==
    ~ zeroTable => \A page \in 0 .. ram - 1 \ Windows : Translate(mem, pml4_table, page) = page

LEMMA RamLow ==
    ASSUME Stage
    PROVE  \A page \in 0 .. ram - 1 : page \in Pages /\ page \in Low
  <1>1. ram \in Nat /\ ram <= TopSize
    BY RamNat, WindowsBelow, FarWindows
  <1> QED BY <1>1, LowPages, Sizes DEF Low

LEMMA StraightStart ==
    ASSUME Init
    PROVE  Straight
  <1>1. Stage /\ ram \in Nat /\ mem = IdentityMap(ram) /\ ram <= Tables * DirSize
    <2>1. Stage /\ ram \in RamSizes /\ mem = IdentityMap(ram)
      BY SpInit DEF Init, SpInv
    <2> QED BY <2>1, RamNat, SpaceAssumption, Sizes
  <1>2. ASSUME NEW page \in 0 .. ram - 1 PROVE page <= gb_count(ram) * DirSize - 1
    BY <1>1, <1>2, EnoughDirectories
  <1>3. \A page \in 0 .. ram - 1 : Translate(mem, pml4_table, page) = page
    BY <1>1, <1>2, RamLow, StartMap
  <1> QED BY <1>3 DEF Straight

LEMMA KeepsSize ==
    ASSUME SpInv, [Next]_vars
    PROVE  ram' = ram /\ (zeroTable => zeroTable')
  <1>1. ram' = ram
    BY DEF Next, Call, HeapInit, HeapGrows, HeapPage, MapMmio, MapTest, MemoryMap, AllocPage,
           AddressSpaceCreate, AddressSpaceSwitch, Exit, MapTo, vars
  <1>2. ASSUME zeroTable
        PROVE  (\E s \in Spaces : AddressSpaceSwitch(s)) \/ UNCHANGED vars
    BY <1>2 DEF Next, Call, Alive, HeapInit, SpInv, Stage
  <1> QED BY <1>1, <1>2 DEF AddressSpaceSwitch, vars

LEMMA StraightStep ==
    ASSUME SpInv, Straight, [Next]_vars
    PROVE  Straight'
  <1> SUFFICES ASSUME ~ zeroTable', NEW page \in 0 .. ram' - 1, page \notin Windows
               PROVE  Translate(mem', pml4_table, page) = page
    BY DEF Straight
  <1>r. ram' = ram /\ (zeroTable => zeroTable')
    BY KeepsSize
  <1>1. ~ zeroTable /\ page \in 0 .. ram - 1 /\ Translate(mem, pml4_table, page) = page
    BY <1>r DEF Straight
  <1>2. /\ page \in Pages /\ Kernel \in DOMAIN pml4 /\ pml4[Kernel] = pml4_table
        /\ pml4_table \in Roots
    BY <1>1, RamLow DEF SpInv, Stage, Roots
  <1>3. ASSUME KernelPage PROVE Translate(mem', pml4_table, page) = page
    BY <1>1, <1>2, <1>3 DEF KernelPage, Moved
  <1>4. ASSUME mem' = mem PROVE Translate(mem', pml4_table, page) = page
    BY <1>1, <1>4
  <1>5. CASE AllocPage \/ (\E s \in Spaces : AddressSpaceSwitch(s)) \/ UNCHANGED vars
    BY <1>4, <1>5 DEF AllocPage, AddressSpaceSwitch, vars
  <1>6. ASSUME NEW s \in Spaces, NEW v \in UserPages, NEW f \in held, Alive, MapTo(s, v, f)
        PROVE  Translate(mem', pml4_table, page) = page
    <2>1. Moved(mem', mem, Roots, {pml4[s]}, v, f)
      BY <1>6, MapToStep
    <2>2. pml4[s] # pml4_table
      BY <1>2, <1>6 DEF MapTo, SpInv, Stage
    <2> QED BY <1>1, <1>2, <2>1, <2>2 DEF Moved
  <1>7. ASSUME Kernel \in DOMAIN pml4', pml4'[Kernel] = pml4_table, Map'[Kernel] = Map[Kernel]
        PROVE  Translate(mem', pml4_table, page) = page
    <2>1. Map[Kernel][page] = Translate(mem, pml4_table, page)
      BY <1>2, MapAt
    <2>2. Map'[Kernel][page] = Translate(mem', pml4_table, page)
      BY <1>2, <1>7, MapAt
    <2> QED BY <1>1, <1>7, <2>1, <2>2
  <1>8. SpInv' /\ Kernel \in DOMAIN pml4' /\ pml4'[Kernel] = pml4_table
    BY SpStep DEF SpInv, Stage
  <1>9. ASSUME NEW s \in Spaces, Alive, AddressSpaceCreate(s)
        PROVE  Translate(mem', pml4_table, page) = page
    <2>1. Maps!Create(s)
      BY <1>9, CreateMap
    <2>2. Map' = [t \in DOMAIN Map \cup {s} |->
                    IF t # s THEN Map[t]
                    ELSE [v \in Pages |-> IF v \in Low THEN Map[Kernel][v] ELSE Fault]]
      BY <2>1 DEF Maps!Create, Map, Low
    <2>3. Kernel # s /\ Kernel \in DOMAIN Map
      BY <1>2, MapAt, SpaceAssumption
    <2>4. Map'[Kernel] = Map[Kernel]
      BY <2>2, <2>3
    <2> QED BY <1>7, <1>8, <2>4
  <1>10. ASSUME Alive, Exit
         PROVE  Translate(mem', pml4_table, page) = page
    <2>1. Maps!Destroy(space) /\ space # Kernel
      BY <1>10, ExitMap DEF Exit
    <2>2. Map' = [t \in DOMAIN Map \ {space} |-> Map[t]]
      BY <2>1 DEF Maps!Destroy, Map
    <2>3. Kernel \in DOMAIN Map
      BY <1>2, MapAt
    <2>4. Map'[Kernel] = Map[Kernel]
      BY <2>1, <2>2, <2>3
    <2> QED BY <1>7, <1>8, <2>4
  <1> QED BY <1>1, <1>3, <1>5, <1>6, <1>9, <1>10, StartUpStep DEF Next, Call

LEMMA IdentityHolds ==
    ASSUME SpInv, Straight
    PROVE  RamIsIdentity
  <1> SUFFICES ASSUME NEW root \in Roots, NEW page \in 0 .. ram - 1 \ Windows,
                      zeroTable => \A v \in Windows : page \div Entries # v \div Entries
               PROVE  Translate(mem, root, page) = page
    BY DEF RamIsIdentity
  <1>1. CASE zeroTable
    <2>1. page \in Ram
      BY <1>1 DEF Ram
    <2> QED BY <2>1, RamHolds
  <1>2. CASE ~ zeroTable
    <2>1. page \in Low
      BY RamLow DEF SpInv
    <2>2. Translate(mem, root, page) = Translate(mem, pml4_table, page)
      BY <2>1, SharedHolds DEF KernelIsShared, Low
    <2> QED BY <1>2, <2>2 DEF Straight
  <1> QED BY <1>1, <1>2

\* The maps keep the processes apart.
LEMMA ApartStep ==
    ASSUME Maps!Apart, [Maps!MapsNext]_<<Map, zeroTable>>
    PROVE  Maps!Apart'
  <1>1. ASSUME ~ zeroTable, Maps!MapsOne PROVE Maps!Apart'
    <2>a. /\ DOMAIN Map' = DOMAIN Map
          /\ \/ \E s \in DOMAIN Map, v \in Pages \ Low : Maps!MapUser(s, v)
             \/ \E v \in Low : Maps!MapKernel(v)
      BY <1>1 DEF Maps!MapsOne, Map, Low
    <2>b. \A s, t \in DOMAIN Map, u, v \in Pages \ Low :
             Map[s][u] = Map[t][v] /\ Map[s][u] # Fault => s = t /\ u = v
      BY <1>1 DEF Maps!Apart, Map, Low
    <2>1. ASSUME NEW p \in DOMAIN Map, NEW q \in Pages \ Low, Maps!MapUser(p, q)
          PROVE  Maps!Apart'
      <3>1. \A s \in DOMAIN Map, u \in Pages : Map'[s][u] # Map[s][u] => s = p /\ u = q
        BY <2>1 DEF Maps!MapUser, Maps!OnlyMoves, Map
      <3>2. \A s \in DOMAIN Map, u \in Pages \ Low : Map[s][u] # Map'[p][q]
        BY <2>1 DEF Maps!MapUser, Map, Low
      <3>3. \A s, t \in DOMAIN Map', u, v \in Pages \ Low :
               Map'[s][u] = Map'[t][v] /\ Map'[s][u] # Fault => s = t /\ u = v
        <4> HIDE DEF Map
        <4> QED BY <2>a, <2>b, <3>1, <3>2
      <3> QED BY <3>3 DEF Maps!Apart, Map, Low
    <2>2. ASSUME NEW q \in Low, Maps!MapKernel(q)
          PROVE  Maps!Apart'
      <3>1. \A s \in DOMAIN Map, u \in Pages : Map'[s][u] # Map[s][u] => u = q
        BY <2>2 DEF Maps!MapKernel, Maps!OnlyMoves, Map
      <3>2. \A s, t \in DOMAIN Map', u, v \in Pages \ Low :
               Map'[s][u] = Map'[t][v] /\ Map'[s][u] # Fault => s = t /\ u = v
        BY <2>a, <2>b, <2>2, <3>1
      <3> QED BY <3>2 DEF Maps!Apart, Map, Low
    <2> QED BY <2>a, <2>1, <2>2
  <1>2. ASSUME ~ zeroTable, NEW s \in Spaces, Maps!Create(s) PROVE Maps!Apart'
    <2>1. Map' = [t \in DOMAIN Map \cup {s} |->
                    IF t # s THEN Map[t]
                    ELSE [v \in Pages |-> IF v \in Low THEN Map[Kernel][v] ELSE Fault]]
      BY <1>2 DEF Maps!Create, Map, Low
    <2>2. \A t, x \in DOMAIN Map, u, v \in Pages \ Low :
             Map[t][u] = Map[x][v] /\ Map[t][u] # Fault => t = x /\ u = v
      BY <1>2 DEF Maps!Apart, Map, Low
    <2>3. /\ DOMAIN Map' = DOMAIN Map \cup {s}
          /\ \A t \in DOMAIN Map : t # s => Map'[t] = Map[t]
          /\ \A v \in Pages \ Low : Map'[s][v] = Fault
      BY <2>1
    <2>4. \A t, x \in DOMAIN Map', u, v \in Pages \ Low :
             Map'[t][u] = Map'[x][v] /\ Map'[t][u] # Fault => t = x /\ u = v
      BY <2>2, <2>3
    <2> QED BY <2>4 DEF Maps!Apart, Map, Low
  <1>3. ASSUME ~ zeroTable, NEW s, Maps!Destroy(s) PROVE Maps!Apart'
    <2>1. Map' = [t \in DOMAIN Map \ {s} |-> Map[t]]
      BY <1>3 DEF Maps!Destroy, Map
    <2>2. \A t, x \in DOMAIN Map, u, v \in Pages \ Low :
             Map[t][u] = Map[x][v] /\ Map[t][u] # Fault => t = x /\ u = v
      BY <1>3 DEF Maps!Apart, Map, Low
    <2>3. DOMAIN Map' = DOMAIN Map \ {s} /\ \A t \in DOMAIN Map' : Map'[t] = Map[t]
      BY <2>1
    <2>4. \A t, x \in DOMAIN Map', u, v \in Pages \ Low :
             Map'[t][u] = Map'[x][v] /\ Map'[t][u] # Fault => t = x /\ u = v
      BY <2>2, <2>3
    <2> QED BY <2>4 DEF Maps!Apart, Map, Low
  <1>4. ASSUME Maps!Fail PROVE Maps!Apart'
    BY <1>4 DEF Maps!Fail, Maps!Apart
  <1>5. ASSUME UNCHANGED <<Map, zeroTable>> PROVE Maps!Apart'
    BY <1>5 DEF Maps!Apart, Map
  <1>6. CASE Maps!MapsNext
    <2>1. \/ /\ ~ zeroTable
             /\ \/ Maps!MapsOne
                \/ \E s \in Spaces : Maps!Create(s)
                \/ \E s \in DOMAIN Map : Maps!Destroy(s)
          \/ Maps!Fail
      BY <1>6 DEF Maps!MapsNext, Map
    <2> QED BY <2>1, <1>1, <1>2, <1>3, <1>4
  <1> QED BY <1>5, <1>6

LEMMA ApartStart ==
    ASSUME Maps!MapsInit
    PROVE  Maps!Apart
  <1>1. PICK last \in Low : \A v \in Pages : Map[Kernel][v] = IF v <= last THEN v ELSE Fault
    BY DEF Maps!MapsInit, Map, Low
  <1>2. DOMAIN Map = {Kernel}
    BY DEF Maps!MapsInit, Map
  <1>3. \A v \in Pages \ Low : ~ (v <= last)
    <2>1. \A v \in Pages : v \in Nat
      BY PageDigits
    <2> QED BY <1>1, <2>1, Sizes DEF Low
  <1>4. \A s \in DOMAIN Map, v \in Pages \ Low : Map[s][v] = Fault
    BY <1>1, <1>2, <1>3
  <1> QED BY <1>4 DEF Maps!Apart, Map, Low

\* copy_kernel_mappings and map_page keep one kernel in all the spaces: no
\* mapping made after a process began, and none made when the frames had run
\* out, is missing in its space.
THEOREM KernelStaysShared == Spec => []KernelIsShared
  <1> QED BY SpAlways, SharedHolds, PTL

\* Every table is written through its physical address, and is there: page n of
\* the memory is at n in every space, whatever the size of the memory and wherever
\* the windows lie in it, but in the windows themselves and, once map_page has run
\* out of frames, in the huge pages they share.
THEOREM RamStaysIdentity == Spec => []RamIsIdentity
  <1>1. SpInv /\ Straight => RamIsIdentity
    BY IdentityHolds
  <1>2. SpInv /\ Straight /\ [Next]_vars => Straight'
    BY StraightStep
  <1>3. Init => Straight
    BY StraightStart
  <1> QED BY <1>1, <1>2, <1>3, SpAlways, PTL DEF Spec

\* map_page changes the translation of one virtual page: neither the split of a
\* huge page nor a table added on the way moves another page of any space.
THEOREM OnePageMoves == Spec => MapMovesOnePage
  <1> QED BY SpAlways, MovesHold, PTL DEF Spec, MapMovesOnePage

\* address_space_destroy gives back frames of its own space only: every page
\* below a space hangs under one entry of one table.
THEOREM AlwaysOwnedOnce == Spec => []OwnedOnce
  <1> QED BY SpAlways, OwnedHolds, PTL

\* Whatever is taken is found from a live space, the kernel's tables or a holder.
THEOREM NoFrameLost == Spec => []NothingLost
  <1> QED BY SpAlways, LostHolds, PTL

\* A space is a map that only its own calls change: a process's page goes where
\* no process has one, the kernel's page is the same in all spaces, a new space
\* has the kernel's part alone and an exit leaves the other spaces as they are.
THEOREM SpacesAreMaps == Spec => ImplementsMappings
  <1>1. SpInv /\ [Next]_vars => [Maps!MapsNext]_<<Map, zeroTable>>
    BY MapsStep
  <1>2. Init => Maps!MapsInit
    BY InitMaps
  <1> QED BY <1>1, <1>2, SpAlways, PTL DEF Spec, ImplementsMappings, Maps!MapsSpec, Map

\* A process reaches no memory of another: it follows from the maps alone.
THEOREM ProcessesStayApart == Spec => []ProcessesApart
  <1>1. Maps!Apart /\ [Maps!MapsNext]_<<Map, zeroTable>> => Maps!Apart'
    BY ApartStep
  <1>2. Maps!MapsInit => Maps!Apart
    BY ApartStart
  <1> QED BY <1>1, <1>2, SpacesAreMaps, PTL DEF ImplementsMappings, Maps!MapsSpec, ProcessesApart, Map
=============================================================================

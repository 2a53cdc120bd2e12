------------------------ MODULE SerializationProofs -------------------------
(***************************************************************************)
(* The messages, for every presence, user and application within the       *)
(* documented limits; numbers of every width; the helpers of               *)
(* serialization.h, for buffers and requests of every size.                *)
(***************************************************************************)
EXTENDS Serialization, WellFoundedInduction, TLAPS

\* How far a copy goes: to the end of the text, or to the last byte but one.
LEMMA CopyFits ==
    ASSUME NEW len \in Nat \ {0}, NEW src \in Nat
    PROVE  LET n == StringCopy(len, src)
           IN  n \in 0 .. src /\ n < len /\ (n = src \/ n = len - 1)
  <1> DEFINE Stops(n) == ~Goes(n + 1, src, len) /\ \A i \in 1 .. n : Goes(i, src, len)
             n == StringCopy(len, src)
  <1>1. \E m \in 0 .. src : Stops(m)
    <2> DEFINE m == IF src < len THEN src ELSE len - 1
    <2>1. m \in 0 .. src
      OBVIOUS
    <2>2. ~Goes(m + 1, src, len)
      BY DEF Goes
    <2>3. \A i \in 1 .. m : Goes(i, src, len)
      BY DEF Goes
    <2> QED BY <2>1, <2>2, <2>3
  <1>2. n \in 0 .. src /\ Stops(n)
    BY <1>1 DEF StringCopy
  <1> HIDE DEF n
  <1>3. n + 1 > src \/ n + 1 >= len
    BY <1>2 DEF Goes
  <1>4. n < len
    <2>1. CASE n = 0
      BY <2>1
    <2>2. CASE n # 0
      <3>1. n \in 1 .. n
        BY <1>2, <2>2
      <3>2. Goes(n, src, len)
        BY <1>2, <3>1
      <3> QED BY <3>2 DEF Goes
    <2> QED BY <2>1, <2>2
  <1> QED BY <1>2, <1>3, <1>4 DEF n

-----------------------------------------------------------------------------
\* What the calls that are proved about are given.
Arguments ==
    /\ call.of = "copy" => call.len \in Nat \ {0} /\ call.src \in Nat
    /\ call.of = "allocator" => call.size \in Nat

LEMMA CallArguments ==
    ASSUME NEW c \in Calls
    PROVE  /\ c.of = "copy" => c.len \in Nat \ {0} /\ c.src \in Nat
           /\ c.of = "allocator" => c.size \in Nat
  <1>1. c.of = "copy" => c \in [of : {"copy"}, len : Sizes \ {0}, src : Sizes]
    BY DEF Calls
  <1>2. c.of = "allocator" => c \in [of : {"allocator"}, size : Sizes]
    BY DEF Calls
  <1> QED BY <1>1, <1>2, SizesAssumption

LEMMA ArgumentsInit == CallInit => Arguments
  BY DEF CallInit, NoCall, Arguments

LEMMA ArgumentsStep ==
    ASSUME Arguments, [CallNext]_<<call, heap>>
    PROVE  Arguments'
  <1>1. ASSUME NEW c \in Calls, Begin(c) PROVE Arguments'
    BY <1>1, CallArguments DEF Begin, Arguments
  <1>2. ASSUME NEW size \in Sizes, Allocate(size) PROVE Arguments'
    BY <1>2 DEF Allocate, Arguments
  <1>3. CASE Return
    BY <1>3 DEF Return, NoCall, Arguments
  <1>4. CASE UNCHANGED <<call, heap>>
    BY <1>4 DEF Arguments
  <1> QED BY <1>1, <1>2, <1>3, <1>4 DEF CallNext

\* StringCopy keeps its 0 in the buffer and copies all that fits, for buffers and
\* texts of every length (serialization.h:24-37).
THEOREM CopiesAlwaysFit == CallSpec => []CopiesFit
  <1>1. Arguments => CopiesFit
    BY CopyFits DEF Arguments, CopiesFit
  <1> QED BY <1>1, ArgumentsInit, ArgumentsStep, PTL DEF CallSpec

-----------------------------------------------------------------------------
Block == [at : Nat \cup {Null}, size : Nat]

\* buffer_ is where the last block that was handed out ends.
HeapInv ==
    /\ heap \in [buffer : Nat, end : Nat, blocks : Seq(Block)]
    /\ heap.buffer <= heap.end
    /\ Behind(heap.blocks, Len(heap.blocks) + 1, heap.buffer)
    /\ BlocksFit

LEMMA AllocatorIsNew ==
    ASSUME NEW size \in Nat, heap' = Allocator(size)
    PROVE  HeapInv'
  <1>1. /\ heap'.buffer = 0 /\ heap'.end = size /\ heap'.blocks = <<>>
        /\ heap' \in [buffer : Nat, end : Nat, blocks : Seq(Block)]
    BY DEF Allocator
  <1>2. Behind(<<>>, 1, 0)
    BY DEF Behind
  <1>3. BlocksFit'
    BY <1>1 DEF BlocksFit
  <1> QED BY <1>1, <1>2, <1>3 DEF HeapInv

\* What is behind the first blocks does not depend on the others.
LEMMA BehindAppend ==
    ASSUME NEW s \in Seq(Block), NEW b \in Block, NEW i \in 1 .. Len(s) + 1, NEW e \in Nat
    PROVE  Behind(Append(s, b), i, e) <=> Behind(s, i, e)
  <1>1. \A j \in 1 .. i - 1 : Append(s, b)[j] = s[j]
    OBVIOUS
  <1>2. {j \in 1 .. i - 1 : Append(s, b)[j].at # Null} = {j \in 1 .. i - 1 : s[j].at # Null}
    BY <1>1
  <1> QED BY <1>1, <1>2 DEF Behind

LEMMA AllocateStep ==
    ASSUME HeapInv, NEW size \in Nat, heap' = Malloc(heap, size)
    PROVE  HeapInv'
  <1> DEFINE s == heap.blocks
             n == Len(s)
             buffer == heap.buffer
             end == heap.end
             at == IF buffer + size > end THEN Null ELSE buffer
             b == [at |-> at, size |-> size]
             t == Append(s, b)
             next == Taken(buffer, size, end)
  <1>1. s \in Seq(Block) /\ n \in Nat /\ buffer \in Nat /\ end \in Nat /\ buffer <= end
    BY DEF HeapInv
  <1>2. b \in Block
    BY <1>1 DEF Block
  <1>3. heap'.buffer = next /\ heap'.end = end /\ heap'.blocks = t
        /\ heap' = [buffer |-> next, end |-> end, blocks |-> t]
    BY DEF Malloc
  <1>4. Behind(s, n + 1, buffer)
    BY DEF HeapInv
  <1>5. next \in Nat /\ next <= end /\ next = (IF at = Null THEN buffer ELSE buffer + size)
    BY <1>1 DEF Taken, Null
  <1>6. b.at = at /\ b.size = size /\ at \in {Null, buffer} /\ (at # Null => at = buffer)
    OBVIOUS
  <1>7. BlocksFit
    BY DEF HeapInv
  <1> HIDE DEF s, buffer, end, b
  <1>8. t \in Seq(Block) /\ Len(t) = n + 1 /\ t[n + 1] = b /\ \A j \in 1 .. n : t[j] = s[j]
    BY <1>1, <1>2
  <1>9. \A i \in 1 .. n + 1 : \A e \in Nat : Behind(t, i, e) <=> Behind(s, i, e)
    BY <1>1, <1>2, BehindAppend
  <1> HIDE DEF t, n
  <1>10. Behind(t, n + 2, next)
    <2> DEFINE given == {j \in 1 .. n : s[j].at # Null}
               now == {j \in 1 .. n + 1 : t[j].at # Null}
    <2>1. /\ \A j \in given : s[j].at + s[j].size <= buffer
          /\ buffer = 0 \/ \E j \in given : s[j].at + s[j].size = buffer
      BY <1>1, <1>4 DEF Behind
    <2>2. \A j \in given : j \in now /\ t[j] = s[j]
      BY <1>1, <1>8
    <2>3. \A j \in now : j \in given \/ (j = n + 1 /\ at # Null)
      BY <1>1, <1>6, <1>8
    <2>4. at # Null => n + 1 \in now /\ t[n + 1].at + t[n + 1].size = next
      BY <1>1, <1>5, <1>6, <1>8
    <2>5. buffer <= next /\ (at = Null => next = buffer)
      BY <1>1, <1>5
    <2>6. \A j \in now : t[j].at + t[j].size <= next
      <3>1. ASSUME NEW j \in given PROVE t[j].at + t[j].size <= next
        <4>1. s[j] \in Block /\ s[j].at # Null
          BY <1>1 DEF n
        <4>2. s[j].at + s[j].size \in Nat
          BY <4>1 DEF Block
        <4>3. s[j].at + s[j].size <= buffer
          BY <2>1
        <4>4. s[j].at + s[j].size <= next
          BY <1>1, <1>5, <2>5, <4>2, <4>3
        <4>5. t[j] = s[j]
          BY <2>2
        <4> QED BY <4>4, <4>5
      <3> QED BY <1>5, <2>3, <2>4, <3>1
    <2>7. next = 0 \/ \E j \in now : t[j].at + t[j].size = next
      BY <2>1, <2>2, <2>4, <2>5
    <2>8. (n + 2) - 1 = n + 1
      BY <1>1
    <2>9. {j \in 1 .. (n + 2) - 1 : t[j].at # Null} = now
      BY <2>8
    <2> HIDE DEF given, now, next, at
    <2> QED BY <2>6, <2>7, <2>9 DEF Behind
  <1>11. ASSUME NEW i \in 1 .. n + 1
         PROVE  \E e \in 0 .. end :
                    /\ Behind(t, i, e)
                    /\ t[i].at = IF e + t[i].size > end THEN Null ELSE e
    <2>1. CASE i \in 1 .. n
      <3>1. i \in DOMAIN s
        BY <1>1, <2>1 DEF n
      <3>2. PICK e \in 0 .. end :
                /\ Behind(s, i, e)
                /\ s[i].at = IF e + s[i].size > end THEN Null ELSE e
        BY <1>7, <3>1 DEF BlocksFit, s, end
      <3>3. Behind(t, i, e) /\ t[i] = s[i]
        BY <1>8, <1>9, <2>1, <3>2
      <3> QED BY <3>2, <3>3
    <2>2. CASE i = n + 1
      <3>1. Behind(t, i, buffer) /\ buffer \in 0 .. end /\ t[i] = b
        BY <1>1, <1>4, <1>8, <1>9, <2>2
      <3> QED BY <1>6, <3>1
    <2> QED BY <1>1, <2>1, <2>2
  <1>12. BlocksFit'
    <2>1. DOMAIN t = 1 .. n + 1
      BY <1>8
    <2> QED BY <1>3, <1>11, <2>1 DEF BlocksFit
  <1>13. Len(t) + 1 = n + 2
    BY <1>1, <1>8
  <1>14. heap' \in [buffer : Nat, end : Nat, blocks : Seq(Block)]
    BY <1>1, <1>3, <1>5, <1>8
  <1> QED BY <1>3, <1>5, <1>10, <1>12, <1>13, <1>14 DEF HeapInv

LEMMA HeapStep ==
    ASSUME HeapInv, [CallNext]_<<call, heap>>
    PROVE  HeapInv'
  <1>1. ASSUME NEW c \in Calls, Begin(c) PROVE HeapInv'
    <2>1. CASE c.of = "allocator"
      BY <1>1, <2>1, CallArguments, AllocatorIsNew DEF Begin
    <2>2. CASE c.of # "allocator"
      BY <1>1, <2>2 DEF Begin, HeapInv, BlocksFit
    <2> QED BY <2>1, <2>2
  <1>2. ASSUME NEW size \in Sizes, Allocate(size) PROVE HeapInv'
    BY <1>2, SizesAssumption, AllocateStep DEF Allocate
  <1>3. CASE Return
    BY <1>3, AllocatorIsNew DEF Return
  <1>4. CASE UNCHANGED <<call, heap>>
    BY <1>4 DEF HeapInv, BlocksFit
  <1> QED BY <1>1, <1>2, <1>3, <1>4 DEF CallNext

LEMMA HeapInit == CallInit => HeapInv
  <1> SUFFICES ASSUME CallInit PROVE HeapInv
    OBVIOUS
  <1>1. /\ heap.buffer = 0 /\ heap.end = 0 /\ heap.blocks = <<>>
        /\ heap \in [buffer : Nat, end : Nat, blocks : Seq(Block)]
    BY DEF CallInit, Allocator
  <1>2. Behind(<<>>, 1, 0)
    BY DEF Behind
  <1>3. BlocksFit
    BY <1>1 DEF BlocksFit
  <1> QED BY <1>1, <1>2, <1>3 DEF HeapInv

\* An allocator hands out its buffer without overlap or gap and refuses only what
\* does not fit, for buffers of every size and requests of every number and size:
\* a request that fails leaves no trace (serialization.h:71-80).
THEOREM BlocksAlwaysFit == CallSpec => []BlocksFit
  <1>1. HeapInv => BlocksFit
    BY DEF HeapInv
  <1> QED BY <1>1, HeapInit, HeapStep, PTL DEF CallSpec

-----------------------------------------------------------------------------
(***************************************************************************)
(* Induction, over sets of numbers.                                        *)
(***************************************************************************)
LEMMA LeastNumber ==
    ASSUME NEW T, T \subseteq Nat, T # {}
    PROVE  \E m \in T : \A k \in T : m <= k
  <1>1. PICK m \in T : \A k \in T : ~(<<k, m>> \in OpToRel(<, Nat))
    BY NatLessThanWellFounded, WFMin
  <1>2. \A k \in T : ~(k < m)
    BY <1>1 DEF OpToRel
  <1>3. \A k \in T : k \in Nat /\ m \in Nat
    OBVIOUS
  <1> QED BY <1>2, <1>3

LEMMA Induction ==
    ASSUME NEW T, 0 \in T, \A n \in Nat : n \in T => n + 1 \in T
    PROVE  \A n \in Nat : n \in T
  <1> DEFINE U == Nat \ T
  <1>1. CASE U = {}
    BY <1>1
  <1>2. CASE U # {}
    <2>1. PICK m \in U : \A k \in U : m <= k
      BY <1>2, LeastNumber
    <2>2. m \in Nat /\ m # 0 /\ m - 1 \in Nat /\ m - 1 < m
      BY <2>1
    <2>3. m - 1 \in T
      BY <2>1, <2>2
    <2>4. (m - 1) + 1 \in T
      BY <2>2, <2>3
    <2> QED BY <2>1, <2>2, <2>4
  <1> QED BY <1>1, <1>2

-----------------------------------------------------------------------------
(***************************************************************************)
(* Putting the tokens of a message.                                        *)
(***************************************************************************)
Tokens == [is : {"key", "value", "crash", "StartObject", "StartArray", "EndObject", "EndArray"}, size : Nat]

Texts ==
    [stack : Seq({"StartObject", "StartArray"}),
     after : {"nothing", "StartObject", "StartArray", "key", "item", "nonsense"},
     size : Nat,
     hollow : Nat]

\* f has the texts on the way from x, up to the m-th token.
Folds(f, x, t, m) == f = [n \in 0 .. m |-> IF n = 0 THEN x ELSE Put(f[n - 1], t[n])]

LEMMA FoldsExist ==
    ASSUME NEW x, NEW t
    PROVE  \A m \in Nat : \E f : Folds(f, x, t, m)
  <1> DEFINE T == {m \in Nat : \E f : Folds(f, x, t, m)}
  <1>1. 0 \in T
    <2> DEFINE f == [n \in 0 .. 0 |-> x]
    <2>1. f = [n \in 0 .. 0 |-> IF n = 0 THEN x ELSE Put(f[n - 1], t[n])]
      OBVIOUS
    <2> QED BY <2>1 DEF Folds
  <1>2. ASSUME NEW m \in Nat, m \in T PROVE m + 1 \in T
    <2>1. PICK f : f = [n \in 0 .. m |-> IF n = 0 THEN x ELSE Put(f[n - 1], t[n])]
      BY <1>2 DEF Folds
    <2> DEFINE g == [n \in 0 .. m + 1 |-> IF n = m + 1 THEN Put(f[m], t[m + 1]) ELSE f[n]]
    <2>2. ASSUME NEW n \in 0 .. m + 1
          PROVE  g[n] = IF n = 0 THEN x ELSE Put(g[n - 1], t[n])
      <3>1. CASE n = 0
        BY <2>1, <3>1
      <3>2. CASE n = m + 1
        BY <3>2
      <3>3. CASE n \in 1 .. m
        <4>1. g[n] = f[n] /\ g[n - 1] = f[n - 1]
          BY <3>3
        <4>2. f[n] = Put(f[n - 1], t[n])
          BY <2>1, <3>3
        <4> QED BY <3>3, <4>1, <4>2
      <3> QED BY <3>1, <3>2, <3>3
    <2>3. g = [n \in 0 .. m + 1 |-> IF n = 0 THEN x ELSE Put(g[n - 1], t[n])]
      BY <2>2
    <2> HIDE DEF g
    <2>4. \E h : Folds(h, x, t, m + 1)
      BY <2>3 DEF Folds
    <2> QED BY <2>4
  <1> HIDE DEF T
  <1>3. \A m \in Nat : m \in T
    BY <1>1, <1>2, Induction
  <1> QED BY <1>3 DEF T

\* f has them up to the last one.
Reaches(f, x, t) ==
    /\ f[0] = x
    /\ \A n \in 1 .. Len(t) : f[n] = Put(f[n - 1], t[n])
    /\ Puts(x, t) = f[Len(t)]

LEMMA PutsFolds ==
    ASSUME NEW x, NEW t, Len(t) \in Nat
    PROVE  \E f : Reaches(f, x, t)
  <1> DEFINE f == CHOOSE g : Folds(g, x, t, Len(t))
  <1>1. Folds(f, x, t, Len(t))
    BY FoldsExist
  <1>2. Puts(x, t) = f[Len(t)]
    BY DEF Puts, Folds
  <1> HIDE DEF f
  <1>3. f[0] = x /\ \A n \in 1 .. Len(t) : f[n] = Put(f[n - 1], t[n])
    BY <1>1 DEF Folds
  <1> QED BY <1>2, <1>3 DEF Reaches

\* g goes from its k-th text on as f does from the start.
GoesOn(f, g, t, m, k) ==
    /\ g[k] = f[0]
    /\ \A n \in 1 .. m : f[n] = Put(f[n - 1], t[n])
    /\ \A n \in 1 .. m : g[k + n] = Put(g[(k + n) - 1], t[n])

Agree(f, g, m, k) == \A n \in 0 .. m : g[k + n] = f[n]

LEMMA FoldsAgree ==
    ASSUME NEW f, NEW g, NEW t, NEW m \in Nat, NEW k \in Nat, GoesOn(f, g, t, m, k)
    PROVE  Agree(f, g, m, k)
  <1> DEFINE T == {n \in Nat : n <= m => g[k + n] = f[n]}
  <1>1. 0 \in T
    BY DEF GoesOn
  <1>2. ASSUME NEW n \in Nat, n \in T PROVE n + 1 \in T
    <2> SUFFICES ASSUME n + 1 <= m PROVE g[k + (n + 1)] = f[n + 1]
      OBVIOUS
    <2>1. n + 1 \in 1 .. m /\ (n + 1) - 1 = n /\ (k + (n + 1)) - 1 = k + n
      OBVIOUS
    <2>2. g[k + n] = f[n]
      BY <1>2
    <2>3. f[n + 1] = Put(f[n], t[n + 1])
      BY <2>1 DEF GoesOn
    <2>4. g[k + (n + 1)] = Put(g[k + n], t[n + 1])
      BY <2>1 DEF GoesOn
    <2> QED BY <2>2, <2>3, <2>4
  <1> HIDE DEF T
  <1>3. \A n \in Nat : n \in T
    BY <1>1, <1>2, Induction
  <1> QED BY <1>3 DEF T, Agree

LEMMA PutsNothing ==
    ASSUME NEW x
    PROVE  Puts(x, <<>>) = x
  <1>1. Len(<<>>) = 0
    OBVIOUS
  <1>2. PICK f : Reaches(f, x, <<>>)
    BY <1>1, PutsFolds
  <1> QED BY <1>1, <1>2 DEF Reaches

LEMMA PutsOne ==
    ASSUME NEW x, NEW token
    PROVE  Puts(x, <<token>>) = Put(x, token)
  <1>1. Len(<<token>>) = 1 /\ <<token>>[1] = token
    OBVIOUS
  <1>2. PICK f : Reaches(f, x, <<token>>)
    BY <1>1, PutsFolds
  <1>3. f[0] = x /\ f[1] = Put(f[1 - 1], <<token>>[1]) /\ Puts(x, <<token>>) = f[1]
    BY <1>1, <1>2 DEF Reaches
  <1> QED BY <1>1, <1>3

LEMMA PutsConcat ==
    ASSUME NEW x, NEW s \in Seq(Tokens), NEW t \in Seq(Tokens)
    PROVE  Puts(x, s \o t) = Puts(Puts(x, s), t)
  <1> DEFINE u == s \o t
  <1>1. /\ Len(s) \in Nat /\ Len(t) \in Nat /\ Len(u) = Len(s) + Len(t)
        /\ \A n \in 1 .. Len(s) : u[n] = s[n]
        /\ \A n \in 1 .. Len(t) : u[Len(s) + n] = t[n]
    OBVIOUS
  <1> HIDE DEF u
  <1>0. Len(u) \in Nat
    BY <1>1
  <1>2. PICK f : Reaches(f, x, s)
    BY <1>1, PutsFolds
  <1>3. PICK g : Reaches(g, Puts(x, s), t)
    BY <1>1, PutsFolds
  <1>4. PICK h : Reaches(h, x, u)
    BY <1>0, PutsFolds
  <1>5. h[Len(s)] = f[Len(s)]
    <2>1. ASSUME NEW n \in 1 .. Len(s) PROVE h[0 + n] = Put(h[(0 + n) - 1], s[n])
      <3>1. n \in 1 .. Len(u) /\ 0 + n = n
        BY <1>1
      <3> QED BY <1>1, <1>4, <3>1 DEF Reaches
    <2>2. GoesOn(f, h, s, Len(s), 0)
      BY <1>2, <1>4, <2>1 DEF GoesOn, Reaches
    <2>3. Len(s) \in 0 .. Len(s) /\ Len(s) \in Nat /\ 0 \in Nat
      BY <1>1
    <2>4. Agree(f, h, Len(s), 0)
      BY <2>2, <2>3, FoldsAgree
    <2>5. h[0 + Len(s)] = f[Len(s)]
      BY <2>3, <2>4 DEF Agree
    <2> QED BY <1>1, <2>5
  <1>6. h[Len(s) + Len(t)] = g[Len(t)]
    <2>1. ASSUME NEW n \in 1 .. Len(t)
          PROVE  h[Len(s) + n] = Put(h[(Len(s) + n) - 1], t[n])
      <3>1. Len(s) + n \in 1 .. Len(u)
        BY <1>1
      <3> QED BY <1>1, <1>4, <3>1 DEF Reaches
    <2>2. GoesOn(g, h, t, Len(t), Len(s))
      BY <1>2, <1>3, <1>5, <2>1 DEF GoesOn, Reaches
    <2>3. Len(t) \in 0 .. Len(t) /\ Len(t) \in Nat /\ Len(s) \in Nat
      BY <1>1
    <2>4. Agree(g, h, Len(t), Len(s))
      BY <2>2, <2>3, FoldsAgree
    <2> QED BY <2>3, <2>4 DEF Agree
  <1> QED BY <1>1, <1>3, <1>4, <1>6 DEF Reaches, u

-----------------------------------------------------------------------------
(***************************************************************************)
(* What parts of a message do to a text: where a value may stand they put  *)
(* one; inside of an object they put members, inside of an array elements. *)
(* Each comes with the characters it takes at most, commas included, and   *)
(* with how many of its objects and arrays may be empty.                   *)
(***************************************************************************)
Inside(x, b) == x.stack # <<>> /\ Last(x.stack) = b /\ x.after \in {b, "item"}
TakesValue(x) == x.after = "key" \/ Inside(x, "StartArray")

\* y is x with one more item in the innermost object or array, or with several.
Adds(x, y, n, hollow) ==
    /\ y \in Texts
    /\ y.stack = x.stack
    /\ y.after = "item"
    /\ y.size <= x.size + n
    /\ y.hollow <= x.hollow + hollow

IsValue(t, n, hollow) ==
    /\ t \in Seq(Tokens)
    /\ \A x \in Texts : TakesValue(x) => Adds(x, Puts(x, t), n, hollow)

\* Members or elements; unless least is 0, there is some.
AreItems(b, t, n, hollow, least) ==
    /\ t \in Seq(Tokens)
    /\ \A x \in Texts : Inside(x, b) => \/ Adds(x, Puts(x, t), n, hollow)
                                        \/ least = 0 /\ Puts(x, t) = x

LEMMA StackFacts ==
    ASSUME NEW S, NEW s \in Seq(S), NEW e \in S
    PROVE  /\ Append(s, e) \in Seq(S)
           /\ Append(s, e) # <<>>
           /\ Last(Append(s, e)) = e
           /\ Front(Append(s, e)) = s
  <1> DEFINE t == Append(s, e)
  <1>1. /\ t \in Seq(S) /\ Len(t) = Len(s) + 1 /\ Len(s) \in Nat
        /\ t[Len(s) + 1] = e
        /\ \A i \in 1 .. Len(s) : t[i] = s[i]
    OBVIOUS
  <1> HIDE DEF t
  <1>2. t # <<>> /\ Last(t) = e
    BY <1>1 DEF Last
  <1>3. Front(t) = s
    <2> DEFINE f == SubSeq(t, 1, Len(t) - 1)
    <2>1. Len(t) - 1 = Len(s)
      BY <1>1
    <2>2. /\ f \in Seq(S) /\ Len(f) = Len(s)
          /\ \A i \in 1 .. Len(s) : f[i] = s[i]
      BY <1>1, <2>1
    <2> HIDE DEF f
    <2>3. f = s
      BY <1>1, <2>2
    <2> QED BY <2>3 DEF Front, f
  <1> QED BY <1>1, <1>2, <1>3 DEF t

LEMMA StackBegun ==
    ASSUME NEW s \in Seq({"StartObject", "StartArray"}), NEW b \in {"StartObject", "StartArray"}
    PROVE  /\ Append(s, b) \in Seq({"StartObject", "StartArray"})
           /\ Append(s, b) # <<>>
           /\ Last(Append(s, b)) = b
           /\ Front(Append(s, b)) = s
  BY StackFacts

LEMMA TopFacts ==
    ASSUME NEW x \in Texts, NEW b \in {"StartObject", "StartArray"}, Inside(x, b)
    PROVE  Top(x) = b /\ x.after \in {b, "item"}
  BY DEF Top, Inside

\* The types of the parts of a text.
LEMMA TextParts ==
    ASSUME NEW x \in Texts
    PROVE  /\ x.stack \in Seq({"StartObject", "StartArray"})
           /\ x.after \in {"nothing", "StartObject", "StartArray", "key", "item", "nonsense"}
           /\ x.size \in Nat
           /\ x.hollow \in Nat
  BY DEF Texts

LEMMA TextIs ==
    ASSUME NEW stack \in Seq({"StartObject", "StartArray"}), NEW size \in Nat, NEW hollow \in Nat,
           NEW after \in {"nothing", "StartObject", "StartArray", "key", "item", "nonsense"}
    PROVE  [stack |-> stack, after |-> after, size |-> size, hollow |-> hollow] \in Texts
  BY DEF Texts

LEMMA CommaIs ==
    ASSUME NEW x, NEW token
    PROVE  Comma(x, token) = 0 \/ Comma(x, token) = 1
  <1>1. CASE x.after = "item" /\ token.is \notin {"EndObject", "EndArray"}
    BY <1>1 DEF Comma
  <1>2. CASE ~(x.after = "item" /\ token.is \notin {"EndObject", "EndArray"})
    BY <1>2 DEF Comma
  <1> QED BY <1>1, <1>2

LEMMA PutKey ==
    ASSUME NEW x \in Texts, Inside(x, "StartObject"), NEW n \in Nat
    PROVE  LET y == Put(x, [is |-> "key", size |-> n])
           IN  /\ y \in Texts
               /\ y.stack = x.stack
               /\ y.after = "key"
               /\ y.size <= x.size + n + 2
               /\ y.hollow = x.hollow
  <1> DEFINE token == [is |-> "key", size |-> n]
             y == Put(x, token)
             size == x.size + n + 1 + Comma(x, token)
  <1>0. x.stack \in Seq({"StartObject", "StartArray"}) /\ x.size \in Nat /\ x.hollow \in Nat
    BY TextParts
  <1>1. token.is = "key" /\ token.size = n
    OBVIOUS
  <1> HIDE DEF token
  <1>2. Fits(x, token)
    BY <1>1, TopFacts DEF Fits
  <1>3. y = [stack |-> x.stack, after |-> "key", size |-> size, hollow |-> x.hollow]
    BY <1>1, <1>2 DEF Put, Colon
  <1>4. size \in Nat /\ size <= x.size + n + 2
    BY <1>0, CommaIs
  <1> HIDE DEF size, y
  <1>5. y \in Texts
    BY <1>3, <1>4, <1>0, TextIs
  <1>6. y.stack = x.stack /\ y.after = "key" /\ y.size = size /\ y.hollow = x.hollow
    BY <1>3
  <1>7. y \in Texts /\ y.stack = x.stack /\ y.after = "key" /\ y.size <= x.size + n + 2
        /\ y.hollow = x.hollow
    BY <1>4, <1>5, <1>6
  <1> QED BY <1>7 DEF y, token

LEMMA PutValue ==
    ASSUME NEW x \in Texts, TakesValue(x), NEW n \in Nat
    PROVE  Adds(x, Put(x, [is |-> "value", size |-> n]), n + 1, 0)
  <1> DEFINE token == [is |-> "value", size |-> n]
             y == Put(x, token)
             size == x.size + n + 0 + Comma(x, token)
  <1>0. x.stack \in Seq({"StartObject", "StartArray"}) /\ x.size \in Nat /\ x.hollow \in Nat
    BY TextParts
  <1>1. token.is = "value" /\ token.size = n
    OBVIOUS
  <1> HIDE DEF token
  <1>2. Fits(x, token)
    BY <1>1, TopFacts DEF Fits, TakesValue
  <1>3. y = [stack |-> x.stack, after |-> "item", size |-> size, hollow |-> x.hollow]
    BY <1>1, <1>2 DEF Put, Colon
  <1>4. size \in Nat /\ size <= x.size + (n + 1)
    BY <1>0, CommaIs
  <1> HIDE DEF size, y
  <1>5. y \in Texts
    BY <1>3, <1>4, <1>0, TextIs
  <1>6. y.stack = x.stack /\ y.after = "item" /\ y.size = size /\ y.hollow = x.hollow
    BY <1>3
  <1>7. Adds(x, y, n + 1, 0)
    BY <1>0, <1>4, <1>5, <1>6 DEF Adds
  <1> QED BY <1>7 DEF y, token

\* An object or array is begun,
Begun(x, y, b, n) ==
    /\ y \in Texts
    /\ y.stack = Append(x.stack, b)
    /\ y.after = b
    /\ y.size <= x.size + n
    /\ y.hollow = x.hollow

LEMMA PutOpen ==
    ASSUME NEW x \in Texts, NEW b \in {"StartObject", "StartArray"},
           TakesValue(x) \/ (x.after = "nothing" /\ b = "StartObject")
    PROVE  Begun(x, Put(x, [is |-> b, size |-> 1]), b, 2)
  <1> DEFINE token == [is |-> b, size |-> 1]
             y == Put(x, token)
             size == x.size + 1 + 0 + Comma(x, token)
             stack == Append(x.stack, b)
  <1>0. x.stack \in Seq({"StartObject", "StartArray"}) /\ x.size \in Nat /\ x.hollow \in Nat
    BY TextParts
  <1>1. token.is = b /\ token.size = 1
    OBVIOUS
  <1> HIDE DEF token
  <1>2. Fits(x, token)
    BY <1>1, TopFacts DEF Fits, TakesValue
  <1>3. y = [stack |-> stack, after |-> b, size |-> size, hollow |-> x.hollow]
    BY <1>1, <1>2 DEF Put, Colon
  <1>4. size \in Nat /\ size <= x.size + 2
    BY <1>0, CommaIs
  <1>5. stack \in Seq({"StartObject", "StartArray"})
    BY <1>0, StackBegun
  <1> HIDE DEF size, stack, y
  <1>6. y \in Texts
    BY <1>3, <1>4, <1>5, <1>0, TextIs
  <1>7. y.stack = stack /\ y.after = b /\ y.size = size /\ y.hollow = x.hollow
    BY <1>3
  <1>8. Begun(x, y, b, 2)
    BY <1>4, <1>6, <1>7 DEF Begun, stack
  <1> QED BY <1>8 DEF y, token

\* ... and ended.
Closing(b) == IF b = "StartObject" THEN "EndObject" ELSE "EndArray"

Ended(x, y, stack) ==
    /\ y \in Texts
    /\ y.stack = stack
    /\ y.after = "item"
    /\ y.size = x.size + 1
    /\ y.hollow <= x.hollow + 1
    /\ x.after = "item" => y.hollow = x.hollow

LEMMA PutClose ==
    ASSUME NEW x \in Texts, NEW b \in {"StartObject", "StartArray"}, NEW stack \in Seq({"StartObject", "StartArray"}),
           x.stack = Append(stack, b), x.after \in {b, "item"}
    PROVE  Ended(x, Put(x, [is |-> Closing(b), size |-> 1]), stack)
  <1> DEFINE token == [is |-> Closing(b), size |-> 1]
             y == Put(x, token)
             size == x.size + 1 + 0 + 0
             hollow == IF x.after # "item" THEN x.hollow + 1 ELSE x.hollow
  <1>0. x.stack \in Seq({"StartObject", "StartArray"}) /\ x.size \in Nat /\ x.hollow \in Nat
    BY TextParts
  <1>1. token.is = Closing(b) /\ token.size = 1
    OBVIOUS
  <1> HIDE DEF token
  <1>2. x.stack # <<>> /\ Last(x.stack) = b /\ Front(x.stack) = stack
    BY StackBegun
  <1>3. Fits(x, token)
    BY <1>1, <1>2 DEF Fits, Top, Closing
  <1>4. y = [stack |-> stack, after |-> "item", size |-> size, hollow |-> hollow]
    BY <1>1, <1>2, <1>3 DEF Put, Colon, Comma, Closing
  <1>5. size \in Nat /\ size = x.size + 1
    BY <1>0
  <1>6. hollow \in Nat /\ hollow <= x.hollow + 1 /\ (x.after = "item" => hollow = x.hollow)
    BY <1>0
  <1> HIDE DEF size, hollow, y
  <1>7. y \in Texts
    BY <1>4, <1>5, <1>6, TextIs
  <1>8. y.stack = stack /\ y.after = "item" /\ y.size = size /\ y.hollow = hollow
    BY <1>4
  <1>9. Ended(x, y, stack)
    BY <1>5, <1>6, <1>7, <1>8 DEF Ended
  <1> QED BY <1>9 DEF y, token

LEMMA InsideOf ==
    ASSUME NEW x \in Texts, NEW y, NEW b \in {"StartObject", "StartArray"}, NEW n, Begun(x, y, b, n)
    PROVE  y \in Texts /\ Inside(y, b)
  <1>1. y.stack = Append(x.stack, b) /\ y.after = b /\ y \in Texts
    BY DEF Begun
  <1>0. x.stack \in Seq({"StartObject", "StartArray"})
    BY TextParts
  <1>2. y.stack # <<>> /\ Last(y.stack) = b
    BY <1>0, <1>1, StackBegun
  <1> QED BY <1>1, <1>2 DEF Inside

LEMMA AddsMore ==
    ASSUME NEW x \in Texts, NEW y, NEW n \in Nat, NEW k \in Nat, Adds(x, y, n, k),
           NEW n2 \in Nat, NEW k2 \in Nat, n <= n2, k <= k2
    PROVE  Adds(x, y, n2, k2)
  <1>1. y \in Texts /\ y.stack = x.stack /\ y.after = "item"
    BY DEF Adds
  <1>2. x.size \in Nat /\ y.size \in Nat /\ x.hollow \in Nat /\ y.hollow \in Nat
    BY <1>1, TextParts
  <1>3. y.size <= x.size + n2 /\ y.hollow <= x.hollow + k2
    BY <1>2 DEF Adds
  <1> QED BY <1>1, <1>3 DEF Adds

LEMMA AddsBoth ==
    ASSUME NEW x \in Texts, NEW y, NEW z, NEW n \in Nat, NEW k \in Nat, Adds(x, y, n, k),
           NEW m \in Nat, NEW j \in Nat, Adds(y, z, m, j)
    PROVE  Adds(x, z, n + m, k + j)
  <1>1. y \in Texts /\ z \in Texts /\ z.stack = x.stack /\ z.after = "item"
    BY DEF Adds
  <1>2. /\ x.size \in Nat /\ y.size \in Nat /\ z.size \in Nat
        /\ x.hollow \in Nat /\ y.hollow \in Nat /\ z.hollow \in Nat
    BY <1>1, TextParts
  <1>3. z.size <= x.size + (n + m) /\ z.hollow <= x.hollow + (k + j)
    BY <1>2 DEF Adds
  <1> QED BY <1>1, <1>3 DEF Adds

LEMMA StillInside ==
    ASSUME NEW x, NEW y, NEW b, NEW n, NEW k, Inside(x, b), Adds(x, y, n, k)
    PROVE  y \in Texts /\ Inside(y, b)
  BY DEF Inside, Adds

LEMMA ValueMore ==
    ASSUME NEW t, NEW n \in Nat, NEW k \in Nat, IsValue(t, n, k),
           NEW n2 \in Nat, NEW k2 \in Nat, n <= n2, k <= k2
    PROVE  IsValue(t, n2, k2)
  <1>1. ASSUME NEW x \in Texts, TakesValue(x) PROVE Adds(x, Puts(x, t), n2, k2)
    <2>1. Adds(x, Puts(x, t), n, k)
      BY <1>1 DEF IsValue
    <2> QED BY <2>1, AddsMore
  <1> QED BY <1>1 DEF IsValue

LEMMA ItemsMore ==
    ASSUME NEW b, NEW t, NEW n \in Nat, NEW k \in Nat, NEW l \in Nat, AreItems(b, t, n, k, l),
           NEW n2 \in Nat, NEW k2 \in Nat, NEW l2 \in Nat, n <= n2, k <= k2, l2 <= l
    PROVE  AreItems(b, t, n2, k2, l2)
  <1>1. ASSUME NEW x \in Texts, Inside(x, b)
        PROVE  Adds(x, Puts(x, t), n2, k2) \/ (l2 = 0 /\ Puts(x, t) = x)
    <2>1. Adds(x, Puts(x, t), n, k) \/ (l = 0 /\ Puts(x, t) = x)
      BY <1>1 DEF AreItems
    <2>2. Adds(x, Puts(x, t), n, k) => Adds(x, Puts(x, t), n2, k2)
      BY AddsMore
    <2>3. l = 0 => l2 = 0
      OBVIOUS
    <2> QED BY <2>1, <2>2, <2>3
  <1> QED BY <1>1 DEF AreItems

LEMMA ItemsNothing ==
    ASSUME NEW b
    PROVE  AreItems(b, <<>>, 0, 0, 0)
  <1>1. <<>> \in Seq(Tokens)
    OBVIOUS
  <1> QED BY <1>1, PutsNothing, Zenon DEF AreItems

LEMMA ItemsElement ==
    ASSUME NEW t, NEW n, NEW k, IsValue(t, n, k)
    PROVE  AreItems("StartArray", t, n, k, 1)
  BY DEF IsValue, AreItems, TakesValue

\* Items after items: there is some if there is some in either.
LEMMA ItemsConcat ==
    ASSUME NEW b, NEW s, NEW n \in Nat, NEW k \in Nat, NEW l \in Nat, AreItems(b, s, n, k, l),
           NEW t, NEW m \in Nat, NEW j \in Nat, NEW i \in Nat, AreItems(b, t, m, j, i)
    PROVE  AreItems(b, s \o t, n + m, k + j, l + i)
  <1>1. s \in Seq(Tokens) /\ t \in Seq(Tokens)
    BY DEF AreItems
  <1>2. s \o t \in Seq(Tokens)
    BY <1>1
  <1>3. /\ n + m \in Nat /\ n <= n + m /\ m <= n + m
        /\ k + j \in Nat /\ k <= k + j /\ j <= k + j
        /\ (l + i = 0 <=> l = 0 /\ i = 0)
    OBVIOUS
  <1>4. ASSUME NEW x \in Texts, Inside(x, b)
        PROVE  \/ Adds(x, Puts(x, s \o t), n + m, k + j)
               \/ l + i = 0 /\ Puts(x, s \o t) = x
    <2> DEFINE y == Puts(x, s)
               z == Puts(y, t)
    <2>1. Puts(x, s \o t) = z
      BY <1>1, PutsConcat
    <2>2. Adds(x, y, n, k) \/ (l = 0 /\ y = x)
      BY <1>4 DEF AreItems
    <2>3. y \in Texts /\ Inside(y, b)
      BY <1>4, <2>2, StillInside
    <2>4. Adds(y, z, m, j) \/ (i = 0 /\ z = y)
      BY <2>3 DEF AreItems
    <2> HIDE DEF y, z
    <2>5. Adds(x, z, n + m, k + j) \/ (l + i = 0 /\ z = x)
      <3>1. CASE Adds(x, y, n, k) /\ Adds(y, z, m, j)
        BY <3>1, AddsBoth
      <3>2. CASE Adds(x, y, n, k) /\ z = y
        <4>1. Adds(x, z, n, k)
          BY <3>2
        <4> QED BY <1>3, <4>1, AddsMore
      <3>3. CASE y = x /\ Adds(y, z, m, j)
        <4>1. Adds(x, z, m, j)
          BY <3>3
        <4> QED BY <1>3, <4>1, AddsMore
      <3>4. CASE l = 0 /\ y = x /\ i = 0 /\ z = y
        BY <3>4
      <3> QED BY <2>2, <2>4, <3>1, <3>2, <3>3, <3>4
    <2> QED BY <2>1, <2>5
  <1> QED BY <1>2, <1>4 DEF AreItems

\* Items under a condition.
LEMMA ItemsWhen ==
    ASSUME NEW b, NEW t, NEW n \in Nat, NEW k \in Nat, NEW l \in Nat, NEW c \in BOOLEAN,
           c => AreItems(b, t, n, k, l),
           NEW i \in Nat, i <= l, c \/ i = 0
    PROVE  AreItems(b, When(c, t), n, k, i)
  <1>1. CASE c
    <2>1. When(c, t) = t
      BY <1>1 DEF When
    <2>2. AreItems(b, t, n, k, l)
      BY <1>1
    <2>3. AreItems(b, t, n, k, i)
      BY <2>2, ItemsMore
    <2> QED BY <2>1, <2>3
  <1>2. CASE ~c
    <2>1. When(c, t) = <<>> /\ i = 0
      BY <1>2 DEF When
    <2>2. AreItems(b, <<>>, 0, 0, 0)
      BY ItemsNothing
    <2>3. AreItems(b, <<>>, n, k, 0)
      BY <2>2, ItemsMore
    <2> QED BY <2>1, <2>3
  <1> QED BY <1>1, <1>2

\* What is between the two ends of an object or array.
Enclosed(b, t) == <<[is |-> b, size |-> 1]>> \o t \o <<[is |-> Closing(b), size |-> 1]>>

LEMMA EnclosedIsTokens ==
    ASSUME NEW b \in {"StartObject", "StartArray"}, NEW t \in Seq(Tokens)
    PROVE  Enclosed(b, t) \in Seq(Tokens)
  <1> DEFINE open == [is |-> b, size |-> 1]
             close == [is |-> Closing(b), size |-> 1]
  <1>1. open \in Tokens /\ close \in Tokens
    BY DEF Tokens, Closing
  <1> HIDE DEF open, close
  <1>2. <<open>> \o t \o <<close>> \in Seq(Tokens)
    BY <1>1
  <1> QED BY <1>2 DEF Enclosed, open, close

\* One that may be empty counts as one more.
LEMMA PutsEnclosed ==
    ASSUME NEW b \in {"StartObject", "StartArray"}, NEW t, NEW n \in Nat,
           NEW k \in Nat, NEW l \in Nat, AreItems(b, t, n, k, l),
           NEW j \in Nat, k <= j, k < j \/ l # 0,
           NEW x \in Texts, TakesValue(x) \/ (x.after = "nothing" /\ b = "StartObject")
    PROVE  Adds(x, Puts(x, Enclosed(b, t)), n + 3, j)
  <1> DEFINE open == <<[is |-> b, size |-> 1]>>
             close == <<[is |-> Closing(b), size |-> 1]>>
             u == open \o t
             y == Puts(x, open)
             z == Puts(y, t)
             w == Puts(z, close)
  <1>1. open \in Seq(Tokens) /\ close \in Seq(Tokens)
    BY DEF Tokens, Closing
  <1>2. Begun(x, y, b, 2)
    BY PutsOne, PutOpen
  <1>3. w = Put(z, [is |-> Closing(b), size |-> 1])
    BY PutsOne
  <1> HIDE DEF open, close
  <1>4. Puts(x, u \o close) = w
    <2>1. t \in Seq(Tokens)
      BY DEF AreItems
    <2>2. Puts(x, u) = z
      BY <1>1, <2>1, PutsConcat
    <2>3. u \in Seq(Tokens)
      BY <1>1, <2>1
    <2> HIDE DEF u, z
    <2>4. Puts(x, u \o close) = Puts(Puts(x, u), close)
      BY <1>1, <2>3, PutsConcat
    <2> QED BY <2>2, <2>4
  <1> HIDE DEF y
  <1>5. y \in Texts /\ Inside(y, b) /\ y.stack = Append(x.stack, b) /\ y.after = b
        /\ y.size <= x.size + 2 /\ y.hollow = x.hollow
    BY <1>2, InsideOf DEF Begun
  <1>6. Adds(y, z, n, k) \/ (l = 0 /\ z = y)
    BY <1>5 DEF AreItems
  <1> HIDE DEF z
  <1>7. /\ z \in Texts
        /\ z.stack = Append(x.stack, b)
        /\ z.after \in {b, "item"}
    BY <1>5, <1>6 DEF Adds
  <1>8. /\ x.stack \in Seq({"StartObject", "StartArray"})
        /\ x.size \in Nat /\ y.size \in Nat /\ z.size \in Nat
        /\ x.hollow \in Nat /\ y.hollow \in Nat /\ z.hollow \in Nat
    BY <1>5, <1>7, TextParts
  <1>9. /\ z.size <= y.size + n
        /\ z.hollow <= x.hollow + k
        /\ l = 0 \/ z.after = "item"
    BY <1>5, <1>6, <1>8 DEF Adds
  <1> HIDE DEF w
  <1>10. Ended(z, w, x.stack)
    BY <1>3, <1>7, <1>8, PutClose
  <1>11. w \in Texts /\ w.stack = x.stack /\ w.after = "item"
    BY <1>10 DEF Ended
  <1>12. w.size <= x.size + (n + 3) /\ w.hollow <= x.hollow + j
    <2>1. w.size \in Nat /\ w.hollow \in Nat
      BY <1>11, TextParts
    <2>2. w.size = z.size + 1 /\ y.size <= x.size + 2 /\ z.size <= y.size + n
      BY <1>5, <1>9, <1>10 DEF Ended
    <2>3. /\ w.hollow <= z.hollow + 1 /\ z.hollow <= x.hollow + k
          /\ l = 0 \/ w.hollow = z.hollow
      BY <1>9, <1>10 DEF Ended
    <2>4. w.size <= x.size + (n + 3)
      BY <1>8, <2>1, <2>2
    <2>5. w.hollow <= x.hollow + j
      BY <1>8, <2>1, <2>3
    <2> QED BY <2>4, <2>5
  <1>13. Adds(x, w, n + 3, j)
    BY <1>11, <1>12 DEF Adds
  <1> QED BY <1>4, <1>13 DEF Enclosed, open, close, u

LEMMA EnclosedIsValue ==
    ASSUME NEW b \in {"StartObject", "StartArray"}, NEW t, NEW n \in Nat,
           NEW k \in Nat, NEW l \in Nat, AreItems(b, t, n, k, l),
           NEW j \in Nat, k <= j, k < j \/ l # 0
    PROVE  IsValue(Enclosed(b, t), n + 3, j)
  <1>1. Enclosed(b, t) \in Seq(Tokens)
    BY EnclosedIsTokens DEF AreItems
  <1>2. ASSUME NEW x \in Texts, TakesValue(x)
        PROVE  Adds(x, Puts(x, Enclosed(b, t)), n + 3, j)
    BY <1>2, PutsEnclosed
  <1> QED BY <1>1, <1>2 DEF IsValue

-----------------------------------------------------------------------------
(***************************************************************************)
(* The writers, from the inside out: what each writes, and how much.       *)
(***************************************************************************)
LEMMA OneToken ==
    ASSUME NEW n \in Nat, NEW t, t = Token("value", n), NEW m \in Nat, n + 1 <= m
    PROVE  IsValue(t, m, 0)
  <1> DEFINE token == [is |-> "value", size |-> n]
  <1>1. token \in Tokens
    BY DEF Tokens
  <1>2. ASSUME NEW x \in Texts, TakesValue(x) PROVE Adds(x, Puts(x, <<token>>), n + 1, 0)
    BY <1>2, PutsOne, PutValue
  <1> HIDE DEF token
  <1>3. <<token>> \in Seq(Tokens)
    BY <1>1
  <1>4. t = <<token>>
    BY DEF Token, token
  <1>5. IsValue(t, n + 1, 0)
    BY <1>2, <1>3, <1>4 DEF IsValue
  <1>6. n + 1 \in Nat
    OBVIOUS
  <1> QED BY <1>5, <1>6, ValueMore

LEMMA NumberIsValue ==
    ASSUME NEW n
    PROVE  IsValue(Number(n), 21, 0)
  BY OneToken DEF Number

LEMMA BoolIsValue ==
    ASSUME NEW b
    PROVE  IsValue(Bool(b), 6, 0)
  BY OneToken DEF Bool

LEMMA NameLength ==
    ASSUME NEW k \in Names
    PROVE  Len(k) \in Nat /\ Len(k) <= 27
  <1>1. Len(k) \in 0 .. 27
    BY NamesAssumption
  <1> DEFINE n == Len(k)
  <1> HIDE DEF n
  <1>2. n \in 0 .. 27
    BY <1>1 DEF n
  <1>3. n \in Nat /\ n <= 27
    BY <1>2
  <1> QED BY <1>3 DEF n

LEMMA NameIsValue ==
    ASSUME NEW k \in Names
    PROVE  IsValue(Name(k), 30, 0)
  <1> DEFINE n == Len(k)
  <1>1. n \in Nat /\ n <= 27
    BY NameLength
  <1>2. Name(k) = Token("value", n + 2)
    BY DEF Name
  <1> HIDE DEF n
  <1>3. n + 2 \in Nat /\ (n + 2) + 1 <= 30
    BY <1>1
  <1> QED BY <1>2, <1>3, OneToken

\* A text that is there takes at most Escape times its length, the quotes and a comma.
LEMMA StringIsValue ==
    ASSUME NEW len \in Nat, NEW s \in 0 .. len
    PROVE  IsValue(String(s), Escape * len + 3, 0)
  <1> DEFINE n == Escape * s
             m == Escape * len
  <1>1. Escape \in Nat
    BY RoomAssumption
  <1>2. n \in Nat /\ m \in Nat /\ n <= m
    BY <1>1
  <1>3. String(s) = Token("value", n + 2)
    BY DEF String, Null
  <1> HIDE DEF n, m
  <1>4. n + 2 \in Nat /\ m + 3 \in Nat /\ (n + 2) + 1 <= m + 3
    BY <1>2
  <1>5. IsValue(String(s), m + 3, 0)
    BY <1>3, <1>4, OneToken
  <1> QED BY <1>5 DEF m

\* A member of an object: a key, and a value.
LEMMA ItemsMember ==
    ASSUME NEW k \in Names, NEW v, NEW n \in Nat, NEW j \in Nat, IsValue(v, n, j),
           NEW m \in Nat, n + 31 <= m
    PROVE  AreItems("StartObject", Key(k) \o v, m, j, 1)
  <1> DEFINE len == Len(k)
             token == [is |-> "key", size |-> len + 2]
  <1>1. len \in Nat /\ len <= 27
    BY NameLength
  <1>2. Key(k) = <<token>>
    BY DEF Key, Token
  <1> HIDE DEF len
  <1>3. len + 2 \in Nat
    BY <1>1
  <1>4. token \in Tokens
    BY <1>3 DEF Tokens
  <1>5. ASSUME NEW x \in Texts, Inside(x, "StartObject")
        PROVE  LET y == Puts(x, Key(k))
               IN  y \in Texts /\ y.stack = x.stack /\ y.after = "key"
                   /\ y.size <= x.size + (len + 2) + 2 /\ y.hollow = x.hollow
    BY <1>2, <1>3, <1>5, PutKey, PutsOne
  <1> HIDE DEF token
  <1>6. Key(k) \in Seq(Tokens) /\ v \in Seq(Tokens)
    BY <1>2, <1>4 DEF IsValue
  <1>7. Key(k) \o v \in Seq(Tokens)
    BY <1>6
  <1>8. ASSUME NEW x \in Texts, Inside(x, "StartObject")
        PROVE  Adds(x, Puts(x, Key(k) \o v), m, j)
    <2> DEFINE y == Puts(x, Key(k))
               z == Puts(y, v)
    <2>1. Puts(x, Key(k) \o v) = z
      BY <1>6, PutsConcat
    <2>2. y \in Texts /\ y.stack = x.stack /\ y.after = "key"
          /\ y.size <= x.size + (len + 2) + 2 /\ y.hollow = x.hollow
      BY <1>5, <1>8
    <2> HIDE DEF y
    <2>3. Adds(y, z, n, j)
      BY <2>2 DEF IsValue, TakesValue
    <2> HIDE DEF z
    <2>4. z \in Texts /\ z.stack = x.stack /\ z.after = "item" /\ z.size <= y.size + n
          /\ z.hollow <= x.hollow + j
      BY <2>2, <2>3 DEF Adds
    <2>5. x.size \in Nat /\ y.size \in Nat /\ z.size \in Nat
      BY <2>2, <2>4, TextParts
    <2>6. z.size <= x.size + m
      BY <1>1, <2>2, <2>4, <2>5
    <2>7. Adds(x, z, m, j)
      BY <2>4, <2>6 DEF Adds
    <2> QED BY <2>1, <2>7
  <1> QED BY <1>7, <1>8 DEF AreItems

\* A member that is there under a condition.
LEMMA ItemsMemberWhen ==
    ASSUME NEW k \in Names, NEW v, NEW n \in Nat, NEW j \in Nat, NEW c \in BOOLEAN,
           c => IsValue(v, n, j),
           NEW m \in Nat, n + 31 <= m, NEW i \in 0 .. 1, c \/ i = 0
    PROVE  AreItems("StartObject", When(c, Key(k) \o v), m, j, i)
  <1>1. c => AreItems("StartObject", Key(k) \o v, m, j, 1)
    BY ItemsMember
  <1>2. i \in Nat /\ i <= 1 /\ 1 \in Nat
    OBVIOUS
  <1> QED BY <1>1, <1>2, ItemsWhen

LEMMA ItemsNumberWhen ==
    ASSUME NEW k \in Names, NEW n, NEW c \in BOOLEAN, NEW i \in 0 .. 1, c \/ i = 0
    PROVE  AreItems("StartObject", When(c, Key(k) \o Number(n)), 52, 0, i)
  <1>1. IsValue(Number(n), 21, 0)
    BY NumberIsValue
  <1> QED BY <1>1, ItemsMemberWhen

LEMMA ItemsOptionalString ==
    ASSUME NEW k \in Names, NEW len \in Nat, NEW s \in TextOf(len), NEW i \in 0 .. 1,
           Given(s) \/ i = 0
    PROVE  AreItems("StartObject", WriteOptionalString(k, s), Escape * len + 34, 0, i)
  <1> DEFINE m == Escape * len
  <1>1. m \in Nat
    BY RoomAssumption
  <1>2. s \in Int /\ (Given(s) => s \in 0 .. len) /\ Given(s) \in BOOLEAN
    BY DEF Given, TextOf, Null
  <1>3. Given(s) => IsValue(String(s), m + 3, 0)
    BY <1>2, StringIsValue
  <1> HIDE DEF m
  <1>4. m + 3 \in Nat /\ m + 34 \in Nat /\ (m + 3) + 31 <= m + 34
    BY <1>1
  <1>5. AreItems("StartObject", When(Given(s), Key(k) \o String(s)), m + 34, 0, i)
    BY <1>2, <1>3, <1>4, ItemsMemberWhen
  <1> QED BY <1>5 DEF WriteOptionalString, m

LEMMA ObjectIsValue ==
    ASSUME NEW t, NEW n \in Nat, NEW k \in Nat, NEW l \in Nat,
           AreItems("StartObject", t, n, k, l),
           NEW m \in Nat, n + 3 <= m, NEW j \in Nat, k <= j, k < j \/ l # 0
    PROVE  IsValue(WriteObject(t), m, j)
  <1>1. WriteObject(t) = Enclosed("StartObject", t)
    BY DEF WriteObject, Enclosed, Closing, Token
  <1>2. IsValue(Enclosed("StartObject", t), n + 3, j)
    BY EnclosedIsValue
  <1>3. n + 3 \in Nat /\ j <= j
    OBVIOUS
  <1> QED BY <1>1, <1>2, <1>3, ValueMore

LEMMA ArrayIsValue ==
    ASSUME NEW t, NEW n \in Nat, NEW k \in Nat, NEW l \in Nat,
           AreItems("StartArray", t, n, k, l),
           NEW m \in Nat, n + 3 <= m, NEW j \in Nat, k <= j, k < j \/ l # 0
    PROVE  IsValue(WriteArray(t), m, j)
  <1>1. WriteArray(t) = Enclosed("StartArray", t)
    BY DEF WriteArray, Enclosed, Closing, Token
  <1>2. IsValue(Enclosed("StartArray", t), n + 3, j)
    BY EnclosedIsValue
  <1>3. n + 3 \in Nat /\ j <= j
    OBVIOUS
  <1> QED BY <1>1, <1>2, <1>3, ValueMore

\* ItemsConcat with bounds to choose.
LEMMA ItemsBoth ==
    ASSUME NEW b, NEW s, NEW n \in Nat, NEW k \in Nat, NEW l \in Nat, AreItems(b, s, n, k, l),
           NEW t, NEW m \in Nat, NEW j \in Nat, NEW i \in Nat, AreItems(b, t, m, j, i),
           NEW n2 \in Nat, NEW k2 \in Nat, NEW l2 \in Nat,
           n + m <= n2, k + j <= k2, l2 <= l + i
    PROVE  AreItems(b, s \o t, n2, k2, l2)
  <1>1. AreItems(b, s \o t, n + m, k + j, l + i)
    BY ItemsConcat
  <1>2. n + m \in Nat /\ k + j \in Nat /\ l + i \in Nat
    OBVIOUS
  <1> QED BY <1>1, <1>2, ItemsMore

LEMMA TimestampsAreItems ==
    ASSUME NEW p
    PROVE  AreItems("StartObject", Timestamps(p), 138, 0, 0)
  <1> DEFINE a == p.startTimestamp # 0
             b == p.endTimestamp # 0
             start == When(a, Key("start") \o Number(p.startTimestamp))
             end == When(b, Key("end") \o Number(p.endTimestamp))
             v == WriteObject(start \o end)
  <1>1. "timestamps" \in Names /\ "start" \in Names /\ "end" \in Names
    BY DEF Names
  <1>2. a \in BOOLEAN /\ b \in BOOLEAN
    OBVIOUS
  <1>3. Timestamps(p) = When(a \/ b, Key("timestamps") \o v)
    BY DEF Timestamps
  <1> HIDE DEF a, b
  <1>4. ASSUME NEW i \in 0 .. 1, a \/ i = 0 PROVE AreItems("StartObject", start, 52, 0, i)
    BY <1>1, <1>2, <1>4, ItemsNumberWhen
  <1>5. ASSUME NEW i \in 0 .. 1, b \/ i = 0 PROVE AreItems("StartObject", end, 52, 0, i)
    BY <1>1, <1>2, <1>5, ItemsNumberWhen
  <1> HIDE DEF start, end
  <1>6. a \/ b => IsValue(v, 107, 0)
    <2>1. ASSUME NEW i \in 0 .. 1, NEW j \in 0 .. 1, a \/ i = 0, b \/ j = 0, i + j # 0
          PROVE  IsValue(v, 107, 0)
      <3>1. AreItems("StartObject", start, 52, 0, i) /\ AreItems("StartObject", end, 52, 0, j)
        BY <1>4, <1>5, <2>1
      <3>2. AreItems("StartObject", start \o end, 104, 0, 1)
        BY <2>1, <3>1, ItemsBoth
      <3> QED BY <3>2, ObjectIsValue
    <2>2. CASE a
      BY <2>1, <2>2
    <2>3. CASE b
      BY <2>1, <2>3
    <2> QED BY <2>2, <2>3
  <1> HIDE DEF v
  <1>7. AreItems("StartObject", When(a \/ b, Key("timestamps") \o v), 138, 0, 0)
    BY <1>1, <1>2, <1>6, ItemsMemberWhen
  <1> QED BY <1>3, <1>7

\* What 32 characters take at most.
Unit == Escape * 32
Least(s) == IF Given(s) THEN 1 ELSE 0

LEMMA Units ==
    Unit \in Nat /\ Escape * 128 = 4 * Unit /\ Escape * 256 = 8 * Unit
  <1>1. Escape \in Nat
    BY RoomAssumption
  <1> QED BY <1>1 DEF Unit

LEMMA LeastIs ==
    ASSUME NEW s
    PROVE  Least(s) \in 0 .. 1 /\ Least(s) \in Nat /\ (Given(s) \/ Least(s) = 0)
           /\ (Given(s) => Least(s) = 1)
  <1>1. CASE Given(s)
    BY <1>1 DEF Least
  <1>2. CASE ~Given(s)
    BY <1>2 DEF Least
  <1> QED BY <1>1, <1>2

LEMMA ItemsText128 ==
    ASSUME NEW k \in Names, NEW s \in TextOf(128)
    PROVE  AreItems("StartObject", WriteOptionalString(k, s), 4 * Unit + 34, 0, Least(s))
  <1>1. AreItems("StartObject", WriteOptionalString(k, s), Escape * 128 + 34, 0, Least(s))
    BY LeastIs, ItemsOptionalString
  <1>2. Escape * 128 = 4 * Unit
    BY Units
  <1> QED BY <1>1, <1>2

LEMMA ItemsText256 ==
    ASSUME NEW k \in Names, NEW s \in TextOf(256)
    PROVE  AreItems("StartObject", WriteOptionalString(k, s), 8 * Unit + 34, 0, Least(s))
  <1>1. AreItems("StartObject", WriteOptionalString(k, s), Escape * 256 + 34, 0, Least(s))
    BY LeastIs, ItemsOptionalString
  <1>2. Escape * 256 = 8 * Unit
    BY Units
  <1> QED BY <1>1, <1>2

\* The lengths of the texts of a presence.
LEMMA PresenceTexts ==
    ASSUME NEW p \in DiscordRichPresence
    PROVE  /\ {p.state, p.details, p.largeImageText, p.smallImageText, p.partyId,
               p.matchSecret, p.joinSecret, p.spectateSecret} \subseteq TextOf(128)
           /\ {p.stateUrl, p.detailsUrl, p.largeImageKey, p.largeImageUrl,
               p.smallImageKey, p.smallImageUrl} \subseteq TextOf(256)
           /\ p.buttons \in [1 .. 2 -> DiscordButton]
  <1>1. /\ p.state \in TextOf(128) /\ p.details \in TextOf(128)
        /\ p.largeImageText \in TextOf(128) /\ p.smallImageText \in TextOf(128)
        /\ p.partyId \in TextOf(128) /\ p.matchSecret \in TextOf(128)
        /\ p.joinSecret \in TextOf(128) /\ p.spectateSecret \in TextOf(128)
    BY DEF DiscordRichPresence
  <1>2. /\ p.stateUrl \in TextOf(256) /\ p.detailsUrl \in TextOf(256)
        /\ p.largeImageKey \in TextOf(256) /\ p.largeImageUrl \in TextOf(256)
        /\ p.smallImageKey \in TextOf(256) /\ p.smallImageUrl \in TextOf(256)
    BY DEF DiscordRichPresence
  <1>3. p.buttons \in [1 .. 2 -> DiscordButton]
    BY DEF DiscordRichPresence
  <1> QED BY <1>1, <1>2, <1>3

LEMMA AssetsAreItems ==
    ASSUME NEW p \in DiscordRichPresence
    PROVE  AreItems("StartObject", Assets(p), 40 * Unit + 238, 0, 0)
  <1> DEFINE a == WriteOptionalString("large_image", p.largeImageKey)
             b == WriteOptionalString("large_text", p.largeImageText)
             c == WriteOptionalString("large_url", p.largeImageUrl)
             d == WriteOptionalString("small_image", p.smallImageKey)
             e == WriteOptionalString("small_text", p.smallImageText)
             f == WriteOptionalString("small_url", p.smallImageUrl)
             i == Least(p.largeImageKey)
             j == Least(p.largeImageText)
             k == Least(p.largeImageUrl)
             l == Least(p.smallImageKey)
             m == Least(p.smallImageText)
             n == Least(p.smallImageUrl)
             v == WriteObject(a \o b \o c \o d \o e \o f)
             has == HasAssets(p)
  <1>1. {"assets", "large_image", "large_text", "large_url",
         "small_image", "small_text", "small_url"} \subseteq Names
    BY DEF Names
  <1>2. /\ AreItems("StartObject", a, 8 * Unit + 34, 0, i)
        /\ AreItems("StartObject", b, 4 * Unit + 34, 0, j)
        /\ AreItems("StartObject", c, 8 * Unit + 34, 0, k)
    BY <1>1, PresenceTexts, ItemsText128, ItemsText256
  <1>3. /\ AreItems("StartObject", d, 8 * Unit + 34, 0, l)
        /\ AreItems("StartObject", e, 4 * Unit + 34, 0, m)
        /\ AreItems("StartObject", f, 8 * Unit + 34, 0, n)
    BY <1>1, PresenceTexts, ItemsText128, ItemsText256
  <1>4. i \in Nat /\ j \in Nat /\ k \in Nat /\ l \in Nat /\ m \in Nat /\ n \in Nat
    BY LeastIs
  <1>5. has => i = 1 \/ j = 1 \/ l = 1 \/ m = 1
    BY LeastIs DEF HasAssets
  <1>6. Assets(p) = When(has, Key("assets") \o v) /\ has \in BOOLEAN
    BY DEF Assets, HasAssets
  <1> DEFINE u == Unit
  <1>7. u \in Nat
    BY Units
  <1> HIDE DEF a, b, c, d, e, f, i, j, k, l, m, n, has, u
  <1>8. AreItems("StartObject", a \o b, 12 * u + 68, 0, i + j)
    BY <1>2, <1>4, <1>7, ItemsBoth DEF u
  <1>9. AreItems("StartObject", a \o b \o c, 20 * u + 102, 0, i + j + k)
    BY <1>2, <1>4, <1>7, <1>8, ItemsBoth DEF u
  <1>10. AreItems("StartObject", a \o b \o c \o d, 28 * u + 136, 0, i + j + k + l)
    BY <1>3, <1>4, <1>7, <1>9, ItemsBoth DEF u
  <1>11. AreItems("StartObject", a \o b \o c \o d \o e, 32 * u + 170, 0, i + j + k + l + m)
    BY <1>3, <1>4, <1>7, <1>10, ItemsBoth DEF u
  <1>12. AreItems("StartObject", a \o b \o c \o d \o e \o f, 40 * u + 204, 0,
                  i + j + k + l + m + n)
    BY <1>3, <1>4, <1>7, <1>11, ItemsBoth DEF u
  <1>13. has => IsValue(v, 40 * u + 207, 0)
    BY <1>4, <1>5, <1>7, <1>12, ObjectIsValue
  <1> HIDE DEF v
  <1>14. AreItems("StartObject", When(has, Key("assets") \o v), 40 * u + 238, 0, 0)
    BY <1>1, <1>6, <1>7, <1>13, ItemsMemberWhen
  <1> QED BY <1>6, <1>14 DEF u

LEMMA ConcatIsAssociative ==
    ASSUME NEW s \in Seq(Tokens), NEW t \in Seq(Tokens), NEW u \in Seq(Tokens)
    PROVE  (s \o t) \o u = s \o (t \o u)
  OBVIOUS

\* Members, and one more.
LEMMA ItemsAndMember ==
    ASSUME NEW s, NEW n \in Nat, NEW j \in Nat, NEW l \in Nat, AreItems("StartObject", s, n, j, l),
           NEW k \in Names, NEW v, NEW m \in Nat, NEW i \in Nat, IsValue(v, m, i),
           NEW n2 \in Nat, NEW j2 \in Nat, n + m + 31 <= n2, j + i <= j2
    PROVE  AreItems("StartObject", s \o Key(k) \o v, n2, j2, 1)
  <1>1. m + 31 \in Nat
    OBVIOUS
  <1>2. AreItems("StartObject", Key(k) \o v, m + 31, i, 1)
    BY <1>1, ItemsMember
  <1>3. AreItems("StartObject", s \o (Key(k) \o v), n2, j2, 1)
    BY <1>1, <1>2, ItemsBoth
  <1>4. s \in Seq(Tokens) /\ v \in Seq(Tokens) /\ Key(k) \in Seq(Tokens)
    <2>1. Len(k) \in Nat
      BY NameLength
    <2> DEFINE len == Len(k)
    <2>2. Key(k) = <<[is |-> "key", size |-> len + 2]>>
      BY DEF Key, Token
    <2> HIDE DEF len
    <2>3. [is |-> "key", size |-> len + 2] \in Tokens
      BY <2>1 DEF len, Tokens
    <2>4. Key(k) \in Seq(Tokens)
      BY <2>2, <2>3
    <2> QED BY <2>4 DEF AreItems, IsValue
  <1>5. (s \o Key(k)) \o v = s \o (Key(k) \o v)
    BY <1>4, ConcatIsAssociative
  <1> QED BY <1>3, <1>5

\* The party has a size only with a maximum: with one of them only it may be empty.
LEMMA PartyIsItems ==
    ASSUME NEW p \in DiscordRichPresence,
           NEW h \in 0 .. 1, h = 1 \/ ((p.partySize # 0) <=> (p.partyMax # 0))
    PROVE  AreItems("StartObject", Party(p), 4 * Unit + 196, h, 0)
  <1> DEFINE given == Given(p.partyId)
             sized == p.partySize # 0 /\ p.partyMax # 0
             private == p.partyPrivacy # 0
             is == Given(p.partyId) \/ p.partySize # 0 \/ p.partyMax # 0 \/ p.partyPrivacy # 0
             id == WriteOptionalString("id", p.partyId)
             array == WriteArray(Number(p.partySize) \o Number(p.partyMax))
             size == When(sized, Key("size") \o array)
             privacy == When(private, Key("privacy") \o Number(p.partyPrivacy))
             v == WriteObject(id \o size \o privacy)
             i == Least(p.partyId)
             u == Unit
  <1>1. {"party", "id", "size", "privacy"} \subseteq Names
    BY DEF Names
  <1>2. Party(p) = When(is, Key("party") \o v) /\ is \in BOOLEAN /\ sized \in BOOLEAN
        /\ private \in BOOLEAN
    BY DEF Party, Given
  <1>3. is => h = 1 \/ i = 1 \/ sized \/ private
    BY LeastIs
  <1>4. AreItems("StartObject", id, 4 * u + 34, 0, i)
    BY <1>1, PresenceTexts, ItemsText128
  <1>5. i \in Nat /\ u \in Nat
    BY LeastIs, Units
  <1>6. IsValue(array, 45, 0)
    <2>1. IsValue(Number(p.partySize), 21, 0) /\ IsValue(Number(p.partyMax), 21, 0)
      BY NumberIsValue
    <2>2. /\ AreItems("StartArray", Number(p.partySize), 21, 0, 1)
          /\ AreItems("StartArray", Number(p.partyMax), 21, 0, 1)
      BY <2>1, ItemsElement
    <2>3. AreItems("StartArray", Number(p.partySize) \o Number(p.partyMax), 42, 0, 2)
      BY <2>2, ItemsBoth
    <2> QED BY <2>3, ArrayIsValue
  <1> HIDE DEF is, id, array, sized, private, i, u
  <1>7. ASSUME NEW j \in 0 .. 1, sized \/ j = 0 PROVE AreItems("StartObject", size, 76, 0, j)
    BY <1>1, <1>2, <1>6, <1>7, ItemsMemberWhen
  <1>8. ASSUME NEW k \in 0 .. 1, private \/ k = 0
        PROVE  AreItems("StartObject", privacy, 52, 0, k)
    BY <1>1, <1>2, <1>8, ItemsNumberWhen
  <1> HIDE DEF size, privacy
  <1>9. is => IsValue(v, 4 * u + 165, h)
    <2>1. ASSUME NEW j \in 0 .. 1, NEW k \in 0 .. 1, sized \/ j = 0, private \/ k = 0,
                 h = 1 \/ i + j + k # 0
          PROVE  IsValue(v, 4 * u + 165, h)
      <3>1. AreItems("StartObject", size, 76, 0, j) /\ AreItems("StartObject", privacy, 52, 0, k)
        BY <1>7, <1>8, <2>1
      <3>2. AreItems("StartObject", id \o size, 4 * u + 110, 0, i + j)
        BY <1>4, <1>5, <3>1, ItemsBoth
      <3>3. AreItems("StartObject", id \o size \o privacy, 4 * u + 162, 0, i + j + k)
        BY <1>5, <3>1, <3>2, ItemsBoth
      <3>4. i + j + k \in Nat
        BY <1>5
      <3> QED BY <1>5, <2>1, <3>3, <3>4, ObjectIsValue
    <2> HIDE DEF v
    <2>2. CASE h = 1
      BY <2>1, <2>2
    <2>3. CASE i = 1
      BY <2>1, <2>3
    <2>4. CASE sized
      BY <1>5, <2>1, <2>4
    <2>5. CASE private
      BY <1>5, <2>1, <2>5
    <2> QED BY <1>3, <2>2, <2>3, <2>4, <2>5
  <1> HIDE DEF v
  <1>10. h \in Nat /\ 4 * u + 165 \in Nat /\ 4 * u + 196 \in Nat
         /\ (4 * u + 165) + 31 <= 4 * u + 196
    BY <1>5
  <1>11. AreItems("StartObject", When(is, Key("party") \o v), 4 * u + 196, h, 0)
    BY <1>1, <1>2, <1>9, <1>10, ItemsMemberWhen
  <1> QED BY <1>2, <1>11 DEF u

LEMMA ButtonIsItems ==
    ASSUME NEW b \in DiscordButton, Given(b.label) => b.url # Null
    PROVE  AreItems("StartArray", Button(b), 9 * Unit + 71, 0, Least(b.label))
  <1> DEFINE c == Given(b.label)
             v == WriteObject(Key("label") \o String(b.label) \o Key("url") \o String(b.url))
             u == Unit
             i == Least(b.label)
  <1>1. "label" \in Names /\ "url" \in Names
    BY DEF Names
  <1>2. u \in Nat
    BY Units
  <1>3. b.label \in TextOf(32) /\ b.url \in TextOf(256)
    BY DEF DiscordButton
  <1>4. c => b.label \in 0 .. 32 /\ b.url \in 0 .. 256
    BY <1>3 DEF TextOf, Null, Given
  <1>5. Button(b) = When(c, v) /\ c \in BOOLEAN
    BY DEF Button, Given
  <1>6. i \in Nat /\ i <= 1 /\ (c \/ i = 0)
    BY LeastIs
  <1>7. c => IsValue(String(b.label), u + 3, 0)
    <2>1. c => IsValue(String(b.label), Escape * 32 + 3, 0)
      BY <1>4, StringIsValue
    <2> QED BY <2>1 DEF Unit
  <1>8. c => IsValue(String(b.url), 8 * u + 3, 0)
    <2>1. c => IsValue(String(b.url), Escape * 256 + 3, 0)
      BY <1>4, StringIsValue
    <2>2. Escape * 256 = 8 * u
      BY Units
    <2> QED BY <2>1, <2>2
  <1> HIDE DEF c, i, u
  <1>9. c => AreItems("StartArray", v, 9 * u + 71, 0, 1)
    <2> SUFFICES ASSUME c PROVE AreItems("StartArray", v, 9 * u + 71, 0, 1)
      OBVIOUS
    <2>1. AreItems("StartObject", Key("label") \o String(b.label), u + 34, 0, 1)
      BY <1>1, <1>2, <1>7, ItemsMember
    <2>2. AreItems("StartObject", Key("label") \o String(b.label) \o Key("url") \o String(b.url),
                   9 * u + 68, 0, 1)
      BY <1>1, <1>2, <1>8, <2>1, ItemsAndMember
    <2>3. IsValue(v, 9 * u + 71, 0)
      BY <1>2, <2>2, ObjectIsValue
    <2> QED BY <2>3, ItemsElement
  <1> HIDE DEF v
  <1>10. 9 * u + 71 \in Nat
    BY <1>2
  <1>11. AreItems("StartArray", When(c, v), 9 * u + 71, 0, i)
    BY <1>5, <1>6, <1>9, <1>10, ItemsWhen
  <1> QED BY <1>5, <1>11 DEF u, i

LEMMA ButtonsAreItems ==
    ASSUME NEW p \in DiscordRichPresence, Urls(p), p.buttons[1].label # Null,
           NEW h \in 0 .. 1, h = 1 \/ p.buttons[1].label # 0
    PROVE  AreItems("StartObject",
                    Key("buttons") \o WriteArray(Button(p.buttons[1]) \o Button(p.buttons[2])),
                    18 * Unit + 176, h, 1)
  <1> DEFINE b == p.buttons[1]
             c == p.buttons[2]
             u == Unit
             i == Least(b.label)
             j == Least(c.label)
  <1>1. "buttons" \in Names
    BY DEF Names
  <1>2. b \in DiscordButton /\ c \in DiscordButton /\ DOMAIN p.buttons = 1 .. 2
    BY PresenceTexts
  <1>3. (Given(b.label) => b.url # Null) /\ (Given(c.label) => c.url # Null)
    BY <1>2 DEF Urls
  <1>4. h = 1 \/ Given(b.label)
    <2>1. b.label \in TextOf(32)
      BY <1>2 DEF DiscordButton
    <2> QED BY <2>1 DEF TextOf, Null, Given
  <1>5. i \in Nat /\ j \in Nat /\ (h = 1 \/ i = 1) /\ u \in Nat
    BY <1>4, LeastIs, Units
  <1>6. /\ AreItems("StartArray", Button(b), 9 * u + 71, 0, i)
        /\ AreItems("StartArray", Button(c), 9 * u + 71, 0, j)
    BY <1>2, <1>3, ButtonIsItems
  <1> HIDE DEF b, c, i, j, u
  <1>7. AreItems("StartArray", Button(b) \o Button(c), 18 * u + 142, 0, i + j)
    BY <1>5, <1>6, ItemsBoth
  <1>8. IsValue(WriteArray(Button(b) \o Button(c)), 18 * u + 145, h)
    BY <1>5, <1>7, ArrayIsValue
  <1>9. AreItems("StartObject", Key("buttons") \o WriteArray(Button(b) \o Button(c)),
                 18 * u + 176, h, 1)
    BY <1>1, <1>5, <1>8, ItemsMember
  <1> QED BY <1>9 DEF b, c, u

LEMMA SecretsAreItems ==
    ASSUME NEW p \in DiscordRichPresence
    PROVE  AreItems("StartObject",
                    When(HasSecrets(p),
                         Key("secrets") \o WriteObject(
                             WriteOptionalString("match", p.matchSecret)
                                 \o WriteOptionalString("join", p.joinSecret)
                                 \o WriteOptionalString("spectate", p.spectateSecret))),
                    12 * Unit + 136, 0, 0)
  <1> DEFINE a == WriteOptionalString("match", p.matchSecret)
             b == WriteOptionalString("join", p.joinSecret)
             c == WriteOptionalString("spectate", p.spectateSecret)
             i == Least(p.matchSecret)
             j == Least(p.joinSecret)
             k == Least(p.spectateSecret)
             v == WriteObject(a \o b \o c)
             has == HasSecrets(p)
             u == Unit
  <1>1. {"secrets", "match", "join", "spectate"} \subseteq Names
    BY DEF Names
  <1>2. /\ AreItems("StartObject", a, 4 * u + 34, 0, i)
        /\ AreItems("StartObject", b, 4 * u + 34, 0, j)
        /\ AreItems("StartObject", c, 4 * u + 34, 0, k)
    BY <1>1, PresenceTexts, ItemsText128
  <1>3. i \in Nat /\ j \in Nat /\ k \in Nat /\ u \in Nat
    BY LeastIs, Units
  <1>4. (has => i = 1 \/ j = 1 \/ k = 1) /\ has \in BOOLEAN
    BY LeastIs DEF HasSecrets
  <1> HIDE DEF a, b, c, i, j, k, has, u
  <1>5. AreItems("StartObject", a \o b, 8 * u + 68, 0, i + j)
    BY <1>2, <1>3, ItemsBoth
  <1>6. AreItems("StartObject", a \o b \o c, 12 * u + 102, 0, i + j + k)
    BY <1>2, <1>3, <1>5, ItemsBoth
  <1>7. has => IsValue(v, 12 * u + 105, 0)
    BY <1>3, <1>4, <1>6, ObjectIsValue
  <1> HIDE DEF v
  <1>8. AreItems("StartObject", When(has, Key("secrets") \o v), 12 * u + 136, 0, 0)
    BY <1>1, <1>3, <1>4, <1>7, ItemsMemberWhen
  <1> QED BY <1>8 DEF has, v, a, b, c, u

\* The first label decides: an empty one leaves an array without it.
LEMMA ButtonsOrSecretsAreItems ==
    ASSUME NEW p \in DiscordRichPresence, Urls(p),
           NEW h \in 0 .. 1, h = 1 \/ p.buttons[1].label # 0
    PROVE  AreItems("StartObject", ButtonsOrSecrets(p), 18 * Unit + 176, h, 0)
  <1> DEFINE u == Unit
  <1>1. u \in Nat
    BY Units
  <1>2. 18 * u + 176 \in Nat /\ 12 * u + 136 \in Nat /\ 12 * u + 136 <= 18 * u + 176
    BY <1>1
  <1>3. CASE p.buttons[1].label # Null
    <2> DEFINE t == Key("buttons") \o WriteArray(Button(p.buttons[1]) \o Button(p.buttons[2]))
    <2>1. AreItems("StartObject", t, 18 * u + 176, h, 1)
      BY <1>3, ButtonsAreItems
    <2>2. ButtonsOrSecrets(p) = t
      BY <1>3 DEF ButtonsOrSecrets
    <2> HIDE DEF t, u
    <2>3. AreItems("StartObject", t, 18 * u + 176, h, 0)
      BY <1>2, <2>1, ItemsMore
    <2> QED BY <2>2, <2>3 DEF u
  <1>4. CASE p.buttons[1].label = Null
    <2> DEFINE t == When(HasSecrets(p),
                         Key("secrets") \o WriteObject(
                             WriteOptionalString("match", p.matchSecret)
                                 \o WriteOptionalString("join", p.joinSecret)
                                 \o WriteOptionalString("spectate", p.spectateSecret)))
    <2>1. AreItems("StartObject", t, 12 * u + 136, 0, 0)
      BY SecretsAreItems
    <2>2. ButtonsOrSecrets(p) = t
      BY <1>4 DEF ButtonsOrSecrets
    <2> HIDE DEF t, u
    <2>3. AreItems("StartObject", t, 18 * u + 176, h, 0)
      BY <1>2, <2>1, ItemsMore
    <2> QED BY <2>2, <2>3 DEF u
  <1> QED BY <1>3, <1>4

LEMMA ActivityIsItems ==
    ASSUME NEW p \in DiscordRichPresence, Urls(p), NEW h \in 0 .. 1,
           h = 1 \/ ((p.partySize # 0) <=> (p.partyMax # 0)), h = 1 \/ p.buttons[1].label # 0
    PROVE  AreItems("StartObject", Activity(p), 86 * Unit + 1059, 2 * h, 1)
  <1> DEFINE u == Unit
             t2 == Key("type") \o Number(p.type)
                       \o Key("status_display_type") \o Number(p.status_display_type)
             a == WriteOptionalString("state", p.state)
             b == WriteOptionalString("state_url", p.stateUrl)
             c == WriteOptionalString("details", p.details)
             d == WriteOptionalString("details_url", p.detailsUrl)
             e == Timestamps(p)
             f == Assets(p)
             g == Party(p)
             i == ButtonsOrSecrets(p)
             t10 == t2 \o a \o b \o c \o d \o e \o f \o g \o i
             t == t10 \o Key("instance") \o Bool(p.instance)
  <1>1. {"activity", "type", "status_display_type", "state", "state_url", "details",
         "details_url", "instance"} \subseteq Names
    BY DEF Names
  <1>2. u \in Nat /\ h \in Nat
    BY Units
  <1>3. AreItems("StartObject", t2, 104, 0, 1)
    <2>1. IsValue(Number(p.type), 21, 0) /\ IsValue(Number(p.status_display_type), 21, 0)
      BY NumberIsValue
    <2>2. AreItems("StartObject", Key("type") \o Number(p.type), 52, 0, 1)
      BY <1>1, <2>1, ItemsMember
    <2> QED BY <1>1, <2>1, <2>2, ItemsAndMember
  <1>4. /\ AreItems("StartObject", a, 4 * u + 34, 0, Least(p.state))
        /\ AreItems("StartObject", b, 8 * u + 34, 0, Least(p.stateUrl))
        /\ AreItems("StartObject", c, 4 * u + 34, 0, Least(p.details))
        /\ AreItems("StartObject", d, 8 * u + 34, 0, Least(p.detailsUrl))
    BY <1>1, PresenceTexts, ItemsText128, ItemsText256
  <1>5. /\ Least(p.state) \in Nat /\ Least(p.stateUrl) \in Nat
        /\ Least(p.details) \in Nat /\ Least(p.detailsUrl) \in Nat
    BY LeastIs
  <1>6. /\ AreItems("StartObject", e, 138, 0, 0)
        /\ AreItems("StartObject", f, 40 * u + 238, 0, 0)
    BY TimestampsAreItems, AssetsAreItems
  <1>7. /\ AreItems("StartObject", g, 4 * u + 196, h, 0)
        /\ AreItems("StartObject", i, 18 * u + 176, h, 0)
    BY PartyIsItems, ButtonsOrSecretsAreItems
  <1> HIDE DEF u, t2, a, b, c, d, e, f, g, i
  <1>8. AreItems("StartObject", t2 \o a, 4 * u + 138, 0, 0)
    BY <1>2, <1>3, <1>4, <1>5, ItemsBoth
  <1>9. AreItems("StartObject", t2 \o a \o b, 12 * u + 172, 0, 0)
    BY <1>2, <1>4, <1>5, <1>8, ItemsBoth
  <1>10. AreItems("StartObject", t2 \o a \o b \o c, 16 * u + 206, 0, 0)
    BY <1>2, <1>4, <1>5, <1>9, ItemsBoth
  <1>11. AreItems("StartObject", t2 \o a \o b \o c \o d, 24 * u + 240, 0, 0)
    BY <1>2, <1>4, <1>5, <1>10, ItemsBoth
  <1>12. AreItems("StartObject", t2 \o a \o b \o c \o d \o e, 24 * u + 378, 0, 0)
    BY <1>2, <1>6, <1>11, ItemsBoth
  <1>13. AreItems("StartObject", t2 \o a \o b \o c \o d \o e \o f, 64 * u + 616, 0, 0)
    BY <1>2, <1>6, <1>12, ItemsBoth
  <1>14. AreItems("StartObject", t2 \o a \o b \o c \o d \o e \o f \o g, 68 * u + 812, h, 0)
    BY <1>2, <1>7, <1>13, ItemsBoth
  <1>15. AreItems("StartObject", t10, 86 * u + 988, 2 * h, 0)
    BY <1>2, <1>7, <1>14, ItemsBoth
  <1> HIDE DEF t10
  <1>16. AreItems("StartObject", t, 86 * u + 1025, 2 * h, 1)
    <2>1. IsValue(Bool(p.instance), 6, 0)
      BY BoolIsValue
    <2> QED BY <1>1, <1>2, <1>15, <2>1, ItemsAndMember
  <1>17. Activity(p) = Key("activity") \o WriteObject(t)
    BY DEF Activity, t, t10, t2, a, b, c, d, e, f, g, i
  <1> HIDE DEF t
  <1>18. IsValue(WriteObject(t), 86 * u + 1028, 2 * h)
    BY <1>2, <1>16, ObjectIsValue
  <1>19. AreItems("StartObject", Key("activity") \o WriteObject(t), 86 * u + 1059, 2 * h, 1)
    BY <1>1, <1>2, <1>18, ItemsMember
  <1> QED BY <1>17, <1>19 DEF u

\* A message is an object of its own.
IsMessage(m, hollow) ==
    \E t : m = WriteObject(t) /\ AreItems("StartObject", t, 86 * Unit + 1267, hollow, 1)

LEMMA MessageIsWhole ==
    ASSUME NEW m, NEW k \in Nat, IsMessage(m, k)
    PROVE  /\ IsJson(m)
           /\ Text(m).size <= MaxMessageSize
           /\ Text(m).hollow \in Nat /\ Text(m).hollow <= k
  <1> DEFINE u == Unit
             n == 86 * u + 1267
             y == Text(m)
  <1>1. PICK t : m = WriteObject(t) /\ AreItems("StartObject", t, n, k, 1)
    BY DEF IsMessage
  <1>2. u \in Nat
    BY Units
  <1>3. n + 3 <= MaxMessageSize /\ MaxMessageSize \in Nat
    BY RoomAssumption DEF Unit
  <1>4. Blank \in Texts /\ Blank.after = "nothing" /\ Blank.stack = <<>>
        /\ Blank.size = 0 /\ Blank.hollow = 0
    BY DEF Blank, Texts
  <1>5. m = Enclosed("StartObject", t)
    BY <1>1 DEF WriteObject, Enclosed, Closing, Token
  <1> HIDE DEF u
  <1>6. n \in Nat
    BY <1>2
  <1> HIDE DEF n
  <1>7. Adds(Blank, y, n + 3, k)
    BY <1>1, <1>4, <1>5, <1>6, PutsEnclosed DEF Text
  <1> HIDE DEF y
  <1>8. y \in Texts /\ y.stack = <<>> /\ y.after = "item" /\ y.size <= 0 + (n + 3)
        /\ y.hollow <= 0 + k
    BY <1>4, <1>7 DEF Adds
  <1>9. y.size \in Nat /\ y.hollow \in Nat
    BY <1>8, TextParts
  <1>10. y.size <= MaxMessageSize /\ y.hollow \in Nat /\ y.hollow <= k
    BY <1>3, <1>6, <1>8, <1>9
  <1> QED BY <1>8, <1>10 DEF IsJson, y

LEMMA NonceIsItem == AreItems("StartObject", JsonWriteNonce, 61, 0, 1)
  <1>1. "nonce" \in Names /\ "-2147483647" \in Names
    BY DEF Names
  <1>2. IsValue(Name("-2147483647"), 30, 0)
    BY <1>1, NameIsValue
  <1>3. AreItems("StartObject", Key("nonce") \o Name("-2147483647"), 61, 0, 1)
    BY <1>1, <1>2, ItemsMember
  <1> QED BY <1>3 DEF JsonWriteNonce

LEMMA PresenceIsMessage ==
    ASSUME NEW activity, NEW k \in Nat, NEW l \in Nat,
           AreItems("StartObject", activity, 86 * Unit + 1059, k, l)
    PROVE  IsMessage(JsonWriteRichPresenceObj(activity), k)
  <1> DEFINE u == Unit
             args == Key("pid") \o Number(0) \o activity
             start == JsonWriteNonce \o Key("cmd") \o Name("SET_ACTIVITY")
             t == start \o Key("args") \o WriteObject(args)
  <1>1. {"cmd", "SET_ACTIVITY", "args", "pid"} \subseteq Names
    BY DEF Names
  <1>2. u \in Nat
    BY Units
  <1>3. IsValue(Name("SET_ACTIVITY"), 30, 0)
    BY <1>1, NameIsValue
  <1>4. AreItems("StartObject", start, 122, 0, 1)
    BY <1>1, <1>3, NonceIsItem, ItemsAndMember
  <1>5. AreItems("StartObject", Key("pid") \o Number(0), 52, 0, 1)
    BY <1>1, NumberIsValue, ItemsMember
  <1> HIDE DEF u, start
  <1>6. AreItems("StartObject", args, 86 * u + 1111, k, 1)
    BY <1>2, <1>5, ItemsBoth DEF u
  <1> HIDE DEF args
  <1>7. IsValue(WriteObject(args), 86 * u + 1114, k)
    BY <1>2, <1>6, ObjectIsValue
  <1>8. AreItems("StartObject", t, 86 * u + 1267, k, 1)
    BY <1>1, <1>2, <1>4, <1>7, ItemsAndMember
  <1>9. JsonWriteRichPresenceObj(activity) = WriteObject(t)
    BY DEF JsonWriteRichPresenceObj, start, args
  <1> HIDE DEF t
  <1> QED BY <1>8, <1>9 DEF IsMessage, u

LEMMA ClearIsMessage == IsMessage(JsonWriteRichPresenceObj(<<>>), 0)
  <1> DEFINE n == 86 * Unit + 1059
  <1>1. n \in Nat
    BY Units
  <1>2. AreItems("StartObject", <<>>, 0, 0, 0)
    BY ItemsNothing
  <1> HIDE DEF n
  <1>3. AreItems("StartObject", <<>>, n, 0, 0)
    BY <1>1, <1>2, ItemsMore
  <1> QED BY <1>3, PresenceIsMessage DEF n

\* The short messages have room to spare.
LEMMA ShortMessage ==
    ASSUME NEW m, NEW t, m = WriteObject(t),
           AreItems("StartObject", t, 2 * Unit + 190, 0, 1)
    PROVE  IsMessage(m, 0)
  <1> DEFINE u == Unit
  <1>1. u \in Nat
    BY Units
  <1> HIDE DEF u
  <1>2. /\ 2 * u + 190 \in Nat /\ 86 * u + 1267 \in Nat
        /\ 2 * u + 190 <= 86 * u + 1267
    BY <1>1
  <1>3. AreItems("StartObject", t, 86 * u + 1267, 0, 1)
    BY <1>2, ItemsMore DEF u
  <1> QED BY <1>3 DEF IsMessage, u

LEMMA IdIsValue ==
    ASSUME NEW id \in 0 .. 63
    PROVE  IsValue(String(id), 2 * Unit + 3, 0)
  <1>1. Escape \in Nat /\ id \in 0 .. 64
    BY RoomAssumption
  <1>2. IsValue(String(id), Escape * 64 + 3, 0)
    BY <1>1, StringIsValue
  <1>3. Escape * 64 = 2 * Unit
    BY <1>1 DEF Unit
  <1> QED BY <1>2, <1>3

LEMMA HandshakeIsMessage ==
    ASSUME NEW id \in 0 .. 63
    PROVE  IsMessage(JsonWriteHandshakeObj(id), 0)
  <1> DEFINE u == Unit
             t == Key("v") \o Number(1) \o Key("client_id") \o String(id)
  <1>1. "v" \in Names /\ "client_id" \in Names
    BY DEF Names
  <1>2. u \in Nat
    BY Units
  <1>3. IsValue(String(id), 2 * u + 3, 0)
    BY IdIsValue
  <1>4. AreItems("StartObject", Key("v") \o Number(1), 52, 0, 1)
    BY <1>1, NumberIsValue, ItemsMember
  <1> HIDE DEF u
  <1>5. AreItems("StartObject", t, 2 * u + 190, 0, 1)
    BY <1>1, <1>2, <1>3, <1>4, ItemsAndMember
  <1>6. JsonWriteHandshakeObj(id) = WriteObject(t)
    BY DEF JsonWriteHandshakeObj
  <1> HIDE DEF t
  <1> QED BY <1>5, <1>6, ShortMessage DEF u

LEMMA CommandIsItems ==
    ASSUME NEW cmd \in Names, NEW evtName \in Names
    PROVE  AreItems("StartObject", JsonWriteNonce \o Key("cmd") \o Name(cmd)
                                       \o Key("evt") \o Name(evtName),
                    2 * Unit + 190, 0, 1)
  <1> DEFINE u == Unit
             s == JsonWriteNonce \o Key("cmd") \o Name(cmd)
  <1>1. "cmd" \in Names /\ "evt" \in Names
    BY DEF Names
  <1>2. u \in Nat
    BY Units
  <1>3. IsValue(Name(cmd), 30, 0) /\ IsValue(Name(evtName), 30, 0)
    BY NameIsValue
  <1>4. AreItems("StartObject", s, 122, 0, 1)
    BY <1>1, <1>3, NonceIsItem, ItemsAndMember
  <1> HIDE DEF u, s
  <1>5. AreItems("StartObject", s \o Key("evt") \o Name(evtName), 2 * u + 190, 0, 1)
    BY <1>1, <1>2, <1>3, <1>4, ItemsAndMember
  <1> QED BY <1>5 DEF u, s

LEMMA SubscribeIsMessage ==
    ASSUME NEW evtName \in Names
    PROVE  /\ IsMessage(JsonWriteSubscribeCommand(evtName), 0)
           /\ IsMessage(JsonWriteUnsubscribeCommand(evtName), 0)
  <1>1. "SUBSCRIBE" \in Names /\ "UNSUBSCRIBE" \in Names
    BY DEF Names
  <1>2. IsMessage(JsonWriteSubscribeCommand(evtName), 0)
    BY <1>1, CommandIsItems, ShortMessage DEF JsonWriteSubscribeCommand
  <1>3. IsMessage(JsonWriteUnsubscribeCommand(evtName), 0)
    BY <1>1, CommandIsItems, ShortMessage DEF JsonWriteUnsubscribeCommand
  <1> QED BY <1>2, <1>3

LEMMA JoinReplyIsMessage ==
    ASSUME NEW id \in 0 .. 63, NEW yes \in BOOLEAN
    PROVE  IsMessage(JsonWriteJoinReply(id, yes), 0)
  <1> DEFINE u == Unit
             cmd == IF yes THEN "SEND_ACTIVITY_JOIN_INVITE" ELSE "CLOSE_ACTIVITY_JOIN_REQUEST"
             user == Key("user_id") \o String(id)
             s == Key("cmd") \o Name(cmd) \o Key("args") \o WriteObject(user)
  <1>1. /\ "cmd" \in Names /\ "args" \in Names /\ "user_id" \in Names
        /\ "SEND_ACTIVITY_JOIN_INVITE" \in Names /\ "CLOSE_ACTIVITY_JOIN_REQUEST" \in Names
    BY DEF Names
  <1>2. u \in Nat
    BY Units
  <1>3. cmd \in Names
    BY <1>1
  <1>4. JsonWriteJoinReply(id, yes) = WriteObject(s \o JsonWriteNonce)
    BY DEF JsonWriteJoinReply
  <1> HIDE DEF cmd
  <1>5. IsValue(Name(cmd), 30, 0)
    BY <1>3, NameIsValue
  <1>6. AreItems("StartObject", Key("cmd") \o Name(cmd), 61, 0, 1)
    BY <1>1, <1>5, ItemsMember
  <1>7. IsValue(String(id), 2 * u + 3, 0)
    BY IdIsValue
  <1> HIDE DEF u
  <1>8. AreItems("StartObject", user, 2 * u + 34, 0, 1)
    BY <1>1, <1>2, <1>7, ItemsMember
  <1> HIDE DEF user
  <1>9. IsValue(WriteObject(user), 2 * u + 37, 0)
    BY <1>2, <1>8, ObjectIsValue
  <1>10. AreItems("StartObject", s, 2 * u + 129, 0, 1)
    BY <1>1, <1>2, <1>6, <1>9, ItemsAndMember
  <1> HIDE DEF s
  <1>11. AreItems("StartObject", s \o JsonWriteNonce, 2 * u + 190, 0, 1)
    BY <1>2, <1>10, NonceIsItem, ItemsBoth
  <1> QED BY <1>4, <1>11, ShortMessage DEF u

-----------------------------------------------------------------------------
\* There is a call of those that are looked at, or none.
CallIs == call \in Calls \cup {NoCall}

LEMMA CallIsInit == CallInit => CallIs
  BY DEF CallInit, CallIs

LEMMA CallIsStep ==
    ASSUME CallIs, [CallNext]_<<call, heap>>
    PROVE  CallIs'
  <1>1. ASSUME NEW c \in Calls, Begin(c) PROVE CallIs'
    BY <1>1 DEF Begin, CallIs
  <1>2. ASSUME NEW size \in Sizes, Allocate(size) PROVE CallIs'
    BY <1>2 DEF Allocate, CallIs
  <1>3. CASE Return
    BY <1>3 DEF Return, CallIs
  <1>4. CASE UNCHANGED <<call, heap>>
    BY <1>4 DEF CallIs
  <1> QED BY <1>1, <1>2, <1>3, <1>4 DEF CallNext

LEMMA MessageOfCall ==
    ASSUME CallIs
    PROVE  /\ Message # <<>> => IsMessage(Message, 2)
           /\ call.of = "presence" => /\ call.presence \in DiscordRichPresence
                                      /\ Urls(call.presence)
                                      /\ Message = JsonWriteRichPresenceObj(Activity(call.presence))
  <1>1. ASSUME call.of = "presence"
        PROVE  call.presence \in DiscordRichPresence /\ Urls(call.presence)
    <2>1. call \in [of : {"presence"}, presence : {p \in Presences : Urls(p)}]
      BY <1>1 DEF CallIs, Calls, NoCall
    <2> QED BY <2>1, PresencesAssumption
  <1>2. ASSUME call.of \in {"handshake", "yes", "no"} PROVE call.id \in 0 .. 63
    <2>1. call \in [of : {"handshake", "yes", "no"}, id : Ids]
      BY <1>2 DEF CallIs, Calls, NoCall
    <2> QED BY <2>1, IdsAssumption
  <1>3. ASSUME NEW m, NEW k \in 0 .. 2, IsMessage(m, k) PROVE IsMessage(m, 2)
    <2> DEFINE n == 86 * Unit + 1267
    <2>1. n \in Nat
      BY Units
    <2> HIDE DEF n
    <2>2. PICK t : m = WriteObject(t) /\ AreItems("StartObject", t, n, k, 1)
      BY <1>3 DEF IsMessage, n
    <2>3. AreItems("StartObject", t, n, 2, 1)
      BY <2>1, <2>2, ItemsMore
    <2> QED BY <2>2, <2>3 DEF IsMessage, n
  <1>4. "ACTIVITY_JOIN_REQUEST" \in Names
    BY DEF Names
  <1>5. CASE call.of = "presence"
    <2>1. Message = JsonWriteRichPresenceObj(Activity(call.presence))
      BY <1>5 DEF Message
    <2>2. AreItems("StartObject", Activity(call.presence), 86 * Unit + 1059, 2 * 1, 1)
      BY <1>1, <1>5, ActivityIsItems
    <2>3. IsMessage(Message, 2)
      BY <2>1, <2>2, PresenceIsMessage
    <2> QED BY <1>1, <1>5, <2>1, <2>3
  <1>6. CASE call.of = "clear"
    BY <1>3, <1>6, ClearIsMessage DEF Message
  <1>7. CASE call.of = "handshake"
    <2>1. Message = JsonWriteHandshakeObj(call.id)
      BY <1>7 DEF Message
    <2>2. IsMessage(Message, 0)
      BY <1>2, <1>7, <2>1, HandshakeIsMessage
    <2> QED BY <1>3, <1>7, <2>2
  <1>8. CASE call.of \in {"yes", "no"}
    <2>1. Message = JsonWriteJoinReply(call.id, call.of = "yes")
      BY <1>8 DEF Message
    <2>2. (call.of = "yes") \in BOOLEAN
      OBVIOUS
    <2>3. IsMessage(Message, 0)
      BY <1>2, <1>8, <2>1, <2>2, JoinReplyIsMessage
    <2> QED BY <1>3, <1>8, <2>3
  <1>9. CASE call.of = "SUBSCRIBE"
    BY <1>3, <1>4, <1>9, SubscribeIsMessage DEF Message
  <1>10. CASE call.of = "UNSUBSCRIBE"
    BY <1>3, <1>4, <1>10, SubscribeIsMessage DEF Message
  <1>11. CASE call.of \notin {"presence", "clear", "handshake", "yes", "no", "SUBSCRIBE",
                              "UNSUBSCRIBE"}
    BY <1>11 DEF Message
  <1> QED BY <1>5, <1>6, <1>7, <1>8, <1>9, <1>10, <1>11

\* Every message is one JSON object and fits the buffer, whatever is in a presence
\* whose texts keep to the documented limits and whose buttons have urls
\* (serialization.cpp:83-275, serialization.h:119-134).
THEOREM MessagesAreAlwaysWhole == CallSpec => []MessagesAreWhole
  <1>1. CallIs => MessagesAreWhole
    BY MessageOfCall, MessageIsWhole DEF MessagesAreWhole
  <1> QED BY <1>1, CallIsInit, CallIsStep, PTL DEF CallSpec

\* No part of a presence is written empty, but for the party and the buttons that
\* PartsAreNotEmpty names (serialization.cpp:120-184).
THEOREM PartsAreNeverEmpty == CallSpec => []PartsAreNotEmpty
  <1>1. ASSUME CallIs PROVE PartsAreNotEmpty
    <2> DEFINE p == call.presence
    <2>1. ASSUME call.of = "presence", ~((p.partySize # 0) # (p.partyMax # 0)),
                 p.buttons[1].label # 0
          PROVE  Text(Message).hollow = 0
      <3>1. p \in DiscordRichPresence /\ Urls(p)
            /\ Message = JsonWriteRichPresenceObj(Activity(p))
        BY <1>1, <2>1, MessageOfCall
      <3>2. AreItems("StartObject", Activity(p), 86 * Unit + 1059, 2 * 0, 1)
        BY <2>1, <3>1, ActivityIsItems
      <3>3. IsMessage(Message, 0)
        BY <3>1, <3>2, PresenceIsMessage
      <3>4. Text(Message).hollow \in Nat /\ Text(Message).hollow <= 0
        BY <3>3, MessageIsWhole
      <3> QED BY <3>4
    <2> QED BY <2>1 DEF PartsAreNotEmpty
  <1> QED BY <1>1, CallIsInit, CallIsStep, PTL DEF CallSpec

-----------------------------------------------------------------------------
(***************************************************************************)
(* NumberToString, and what reads a number.                                *)
(***************************************************************************)
\* f has the values of the first digits.
Reads(f, d) == f[0] = 0 /\ \A i \in 1 .. Len(d) : f[i] = 10 * f[i - 1] + d[i]

Shifted(value, digit) == 10 * value + digit

\* d reads as n.
ReadsAs(d, n) == \E f : Reads(f, d) /\ f[Len(d)] = n

\* The recursive definition of what d reads as, up to the m-th digit.
Values(f, d, m) == f = [i \in 0 .. m |-> IF i = 0 THEN 0 ELSE Shifted(f[i - 1], d[i])]

LEMMA ValuesExist ==
    ASSUME NEW d
    PROVE  \A m \in Nat : \E f : Values(f, d, m)
  <1> DEFINE T == {m \in Nat : \E f : Values(f, d, m)}
  <1>1. 0 \in T
    <2> DEFINE f == [n \in 0 .. 0 |-> 0]
    <2>1. f = [n \in 0 .. 0 |-> IF n = 0 THEN 0 ELSE Shifted(f[n - 1], d[n])]
      OBVIOUS
    <2> QED BY <2>1 DEF Values
  <1>2. ASSUME NEW m \in Nat, m \in T PROVE m + 1 \in T
    <2>1. PICK f : f = [n \in 0 .. m |-> IF n = 0 THEN 0 ELSE Shifted(f[n - 1], d[n])]
      BY <1>2 DEF Values
    <2> DEFINE g == [n \in 0 .. m + 1 |-> IF n = m + 1 THEN Shifted(f[m], d[m + 1]) ELSE f[n]]
    <2>2. ASSUME NEW n \in 0 .. m + 1
          PROVE  g[n] = IF n = 0 THEN 0 ELSE Shifted(g[n - 1], d[n])
      <3>1. CASE n = 0
        BY <2>1, <3>1
      <3>2. CASE n = m + 1
        BY <3>2
      <3>3. CASE n \in 1 .. m
        <4>1. g[n] = f[n] /\ g[n - 1] = f[n - 1]
          BY <3>3
        <4>2. f[n] = Shifted(f[n - 1], d[n])
          BY <2>1, <3>3
        <4> QED BY <3>3, <4>1, <4>2
      <3> QED BY <3>1, <3>2, <3>3
    <2>3. g = [n \in 0 .. m + 1 |-> IF n = 0 THEN 0 ELSE Shifted(g[n - 1], d[n])]
      BY <2>2
    <2> HIDE DEF g
    <2>4. \E h : Values(h, d, m + 1)
      BY <2>3 DEF Values
    <2> QED BY <2>4
  <1> HIDE DEF T
  <1>3. \A m \in Nat : m \in T
    BY <1>1, <1>2, Induction
  <1> QED BY <1>3 DEF T

\* There is one way to read.
LEMMA ReadsAgree ==
    ASSUME NEW f, NEW g, NEW d, NEW m \in Nat, m = Len(d), Reads(f, d), Reads(g, d)
    PROVE  f[m] = g[m]
  <1> DEFINE T == {n \in Nat : n <= m => f[n] = g[n]}
  <1>1. 0 \in T
    BY DEF Reads
  <1>2. ASSUME NEW n \in Nat, n \in T PROVE n + 1 \in T
    <2> SUFFICES ASSUME n + 1 <= m PROVE f[n + 1] = g[n + 1]
      OBVIOUS
    <2>1. n + 1 \in 1 .. m /\ (n + 1) - 1 = n
      OBVIOUS
    <2>2. f[n] = g[n]
      BY <1>2
    <2>3. f[n + 1] = 10 * f[n] + d[n + 1] /\ g[n + 1] = 10 * g[n] + d[n + 1]
      BY <2>1 DEF Reads
    <2> QED BY <2>2, <2>3
  <1> HIDE DEF T
  <1>3. \A n \in Nat : n \in T
    BY <1>1, <1>2, Induction
  <1>4. m \in T
    BY <1>3
  <1> QED BY <1>4 DEF T

LEMMA ValueIs ==
    ASSUME NEW f, NEW s, NEW m \in Nat, m = Len(s.digits), Reads(f, s.digits)
    PROVE  Value(s) = IF s.minus THEN -f[m] ELSE f[m]
  <1> DEFINE d == s.digits
             g == CHOOSE h : Values(h, d, m)
  <1>1. Values(g, d, m)
    BY ValuesExist
  <1>2. Value(s) = IF s.minus THEN -g[m] ELSE g[m]
    BY DEF Value, Values, Shifted
  <1> HIDE DEF g, d
  <1>3. g[0] = 0 /\ \A i \in 1 .. m : g[i] = Shifted(g[i - 1], d[i])
    BY <1>1 DEF Values
  <1>4. Reads(g, d)
    BY <1>3, Zenon DEF Reads, Shifted, d
  <1>5. f[m] = g[m]
    BY <1>4, ReadsAgree DEF d
  <1> QED BY <1>2, <1>5

Before(n, digits) == <<n % 10>> \o digits

\* The digits of the numbers up to m.
DigitsUpTo(f, m) ==
    f = [n \in 0 .. m |-> IF n = 0 THEN <<>> ELSE Before(n, f[n \div 10])]

LEMMA DigitsExist == \A m \in Nat : \E f : DigitsUpTo(f, m)
  <1> DEFINE T == {m \in Nat : \E f : DigitsUpTo(f, m)}
  <1>1. 0 \in T
    <2> DEFINE f == [n \in 0 .. 0 |-> <<>>]
    <2>1. f = [n \in 0 .. 0 |-> IF n = 0 THEN <<>> ELSE Before(n, f[n \div 10])]
      OBVIOUS
    <2> QED BY <2>1 DEF DigitsUpTo
  <1>2. ASSUME NEW m \in Nat, m \in T PROVE m + 1 \in T
    <2>1. PICK f : f = [n \in 0 .. m |-> IF n = 0 THEN <<>> ELSE Before(n, f[n \div 10])]
      BY <1>2 DEF DigitsUpTo
    <2> DEFINE g == [n \in 0 .. m + 1 |-> IF n = m + 1 THEN Before(m + 1, f[(m + 1) \div 10])
                                          ELSE f[n]]
    <2>2. ASSUME NEW n \in 0 .. m + 1
          PROVE  g[n] = IF n = 0 THEN <<>> ELSE Before(n, g[n \div 10])
      <3>1. CASE n = 0
        BY <2>1, <3>1
      <3>2. CASE n = m + 1
        <4>1. (m + 1) \div 10 \in 0 .. m
          OBVIOUS
        <4>2. g[(m + 1) \div 10] = f[(m + 1) \div 10]
          BY <4>1
        <4> QED BY <3>2, <4>2
      <3>3. CASE n \in 1 .. m
        <4>1. n \div 10 \in 0 .. m
          BY <3>3
        <4>2. g[n] = f[n] /\ g[n \div 10] = f[n \div 10]
          BY <3>3, <4>1
        <4>3. f[n] = Before(n, f[n \div 10])
          BY <2>1, <3>3
        <4> QED BY <3>3, <4>2, <4>3
      <3> QED BY <3>1, <3>2, <3>3
    <2>3. g = [n \in 0 .. m + 1 |-> IF n = 0 THEN <<>> ELSE Before(n, g[n \div 10])]
      BY <2>2
    <2> HIDE DEF g
    <2>4. \E h : DigitsUpTo(h, m + 1)
      BY <2>3 DEF DigitsUpTo
    <2> QED BY <2>4
  <1> HIDE DEF T
  <1>3. \A m \in Nat : m \in T
    BY <1>1, <1>2, Induction
  <1> QED BY <1>3 DEF T

\* The size of the numbers an int has.
Most == 2 ^ (Width - 1)

LEMMA DigitsAre ==
    /\ Most \in Nat
    /\ Digits[0] = <<>>
    /\ \A n \in 1 .. Most : Digits[n] = <<n % 10>> \o Digits[n \div 10]
  <1> DEFINE m == 2 ^ (Width - 1)
             f == CHOOSE g : DigitsUpTo(g, m)
  <1>1. m \in Nat
    BY WidthAssumption
  <1>2. DigitsUpTo(f, m)
    BY <1>1, DigitsExist
  <1>3. Digits = f
    BY DEF Digits, DigitsUpTo, Before
  <1> HIDE DEF f, m
  <1>4. /\ f[0] = <<>>
        /\ \A n \in 1 .. m : f[n] = Before(n, f[n \div 10])
    BY <1>1, <1>2 DEF DigitsUpTo
  <1> QED BY <1>1, <1>3, <1>4, Zenon DEF Most, m, Before

LEMMA ReverseIs ==
    ASSUME NEW S, NEW s \in Seq(S)
    PROVE  /\ Reverse(s) \in Seq(S)
           /\ Len(Reverse(s)) = Len(s)
           /\ \A i \in 1 .. Len(s) : Reverse(s)[i] = s[(Len(s) - i) + 1]
  <1> DEFINE n == Len(s)
             r == [i \in 1 .. n |-> s[(n - i) + 1]]
  <1>1. n \in Nat /\ \A i \in 1 .. n : s[i] \in S
    OBVIOUS
  <1>2. Reverse(s) = r
    BY DEF Reverse
  <1> HIDE DEF n
  <1>3. \A i \in 1 .. n : s[(n - i) + 1] \in S
    BY <1>1
  <1>4. r \in Seq(S) /\ Len(r) = n /\ \A i \in 1 .. n : r[i] = s[(n - i) + 1]
    BY <1>1, <1>3
  <1> QED BY <1>2, <1>4 DEF n

\* The first one goes last.
LEMMA ReverseOfMore ==
    ASSUME NEW s \in Seq(Nat), NEW e \in Nat
    PROVE  Reverse(<<e>> \o s) = Append(Reverse(s), e)
  <1> DEFINE t == <<e>> \o s
             n == Len(s)
             r == Reverse(s)
             q == Reverse(t)
  <1>1. /\ t \in Seq(Nat) /\ n \in Nat /\ Len(t) = n + 1 /\ t[1] = e
        /\ \A i \in 1 .. n : t[i + 1] = s[i]
    OBVIOUS
  <1>2. r \in Seq(Nat) /\ Len(r) = n /\ \A i \in 1 .. n : r[i] = s[(n - i) + 1]
    BY ReverseIs
  <1> HIDE DEF t, n, r
  <1>3. q \in Seq(Nat) /\ Len(q) = n + 1 /\ \A i \in 1 .. n + 1 : q[i] = t[((n + 1) - i) + 1]
    <2>1. /\ q \in Seq(Nat) /\ Len(q) = Len(t)
          /\ \A i \in 1 .. Len(t) : q[i] = t[(Len(t) - i) + 1]
      BY <1>1, ReverseIs
    <2> HIDE DEF q
    <2> QED BY <1>1, <2>1
  <1> HIDE DEF q
  <1>4. ASSUME NEW i \in 1 .. n + 1 PROVE q[i] = Append(r, e)[i]
    <2>1. CASE i \in 1 .. n
      <3>1. (n - i) + 1 \in 1 .. n /\ ((n + 1) - i) + 1 = ((n - i) + 1) + 1
        BY <1>1, <2>1
      <3>2. q[i] = s[(n - i) + 1]
        BY <1>1, <1>3, <3>1
      <3>3. r[i] = s[(n - i) + 1]
        BY <1>2, <2>1
      <3>4. Append(r, e)[i] = r[i]
        BY <1>2, <2>1
      <3> QED BY <3>2, <3>3, <3>4
    <2>2. CASE i = n + 1
      <3>1. q[i] = t[1]
        BY <1>1, <1>3, <2>2
      <3>2. Append(r, e)[i] = e
        BY <1>1, <1>2, <2>2
      <3> QED BY <1>1, <3>1, <3>2
    <2>3. i \in 1 .. n \/ i = n + 1
      BY <1>1
    <2> QED BY <2>1, <2>2, <2>3
  <1> DEFINE c == Append(r, e)
  <1>5. c \in Seq(Nat) /\ Len(c) = n + 1
    BY <1>1, <1>2
  <1> HIDE DEF c
  <1>6. \A i \in 1 .. n + 1 : q[i] = c[i]
    BY <1>4 DEF c
  <1>7. q = c
    BY <1>1, <1>3, <1>5, <1>6
  <1> QED BY <1>7 DEF q, r, t, c

LEMMA ReadsMore ==
    ASSUME NEW d \in Seq(Nat), NEW n, ReadsAs(d, n), NEW e \in Nat
    PROVE  ReadsAs(Append(d, e), 10 * n + e)
  <1>0. PICK f : Reads(f, d) /\ f[Len(d)] = n
    BY DEF ReadsAs
  <1> DEFINE m == Len(d)
             c == Append(d, e)
             g == [i \in 0 .. m + 1 |-> IF i = m + 1 THEN 10 * n + e ELSE f[i]]
  <1>1. m \in Nat /\ Len(c) = m + 1 /\ c[m + 1] = e /\ \A i \in 1 .. m : c[i] = d[i]
    OBVIOUS
  <1>2. f[m] = n
    BY <1>0
  <1>3. f[0] = 0 /\ \A i \in 1 .. m : f[i] = 10 * f[i - 1] + d[i]
    BY <1>0 DEF Reads
  <1> HIDE DEF m, c
  <1>4. g[0] = 0
    BY <1>1, <1>3
  <1>5. ASSUME NEW i \in 1 .. m + 1 PROVE g[i] = 10 * g[i - 1] + c[i]
    <2>1. CASE i = m + 1
      <3>1. g[i] = 10 * n + e /\ g[i - 1] = f[m]
        BY <1>1, <2>1
      <3> QED BY <1>1, <1>2, <2>1, <3>1
    <2>2. CASE i \in 1 .. m
      <3>1. g[i] = f[i] /\ g[i - 1] = f[i - 1]
        BY <1>1, <2>2
      <3>2. f[i] = 10 * f[i - 1] + c[i]
        BY <1>1, <1>3, <2>2
      <3> QED BY <3>1, <3>2
    <2> QED BY <1>1, <2>1, <2>2
  <1>6. g[m + 1] = 10 * n + e
    BY <1>1
  <1> HIDE DEF g
  <1>7. Reads(g, c) /\ g[Len(c)] = 10 * n + e
    BY <1>1, <1>4, <1>5, <1>6 DEF Reads
  <1> QED BY <1>7 DEF ReadsAs, c

\* The digits of n, the first one first, read as n.
ReadsBack(n) ==
    /\ Digits[n] \in Seq(Nat)
    /\ ReadsAs(Reverse(Digits[n]), n)

LEMMA DigitsReadBack == \A n \in 1 .. Most : ReadsBack(n)
  <1> DEFINE T == {n \in Nat : \A k \in 0 .. n : k <= Most => ReadsBack(k)}
  <1>0. Most \in Nat
    BY DigitsAre
  <1>1. 0 \in T
    <2>1. Digits[0] = <<>>
      BY DigitsAre
    <2>2. <<>> \in Seq(Nat) /\ Len(<<>>) = 0
      OBVIOUS
    <2>3. Len(Reverse(<<>>)) = 0
      BY <2>2, ReverseIs
    <2> DEFINE f == [i \in 0 .. 0 |-> 0]
    <2>4. f[0] = 0
      OBVIOUS
    <2> HIDE DEF f
    <2>5. Reads(f, Reverse(<<>>)) /\ f[Len(Reverse(<<>>))] = 0
      BY <2>3, <2>4 DEF Reads
    <2>6. ReadsBack(0)
      BY <2>1, <2>2, <2>5 DEF ReadsBack, ReadsAs
    <2> QED BY <2>6
  <1>2. ASSUME NEW n \in Nat, n \in T PROVE n + 1 \in T
    <2>1. ASSUME n + 1 <= Most PROVE ReadsBack(n + 1)
      <3> DEFINE k == n + 1
                 q == k \div 10
                 e == k % 10
                 d == Digits[q]
                 r == Reverse(d)
      <3>1. q \in 0 .. n /\ e \in Nat /\ k = 10 * q + e /\ q <= Most /\ k \in 1 .. Most
        BY <1>0, <2>1
      <3>2. ReadsBack(q)
        BY <1>2, <3>1
      <3>3. Digits[k] = <<e>> \o d
        BY <3>1, DigitsAre
      <3> HIDE DEF k, q, e
      <3>4. d \in Seq(Nat)
        BY <3>2 DEF ReadsBack
      <3>5. ReadsAs(r, q)
        BY <3>2 DEF ReadsBack
      <3> HIDE DEF d
      <3>6. Reverse(<<e>> \o d) = Append(r, e)
        BY <3>1, <3>4, ReverseOfMore
      <3>7. r \in Seq(Nat)
        BY <3>4, ReverseIs
      <3>8. <<e>> \o d \in Seq(Nat)
        BY <3>1, <3>4
      <3> HIDE DEF r
      <3>9. ReadsAs(Append(r, e), 10 * q + e)
        BY <3>1, <3>5, <3>7, ReadsMore
      <3>10. ReadsBack(k)
        BY <3>1, <3>3, <3>6, <3>8, <3>9 DEF ReadsBack
      <3> QED BY <3>10 DEF k
    <2>2. \A k \in 0 .. n : k <= Most => ReadsBack(k)
      BY <1>2
    <2>3. \A k \in 0 .. n + 1 : k \in 0 .. n \/ k = n + 1
      OBVIOUS
    <2> QED BY <2>1, <2>2, <2>3
  <1> HIDE DEF T
  <1>3. \A n \in Nat : n \in T
    BY <1>1, <1>2, Induction
  <1>4. ASSUME NEW n \in 1 .. Most PROVE ReadsBack(n)
    <2>1. n \in Nat /\ n \in 0 .. n /\ n <= Most
      BY <1>0
    <2>2. n \in T
      BY <1>3, <2>1
    <2> QED BY <2>1, <2>2 DEF T
  <1> QED BY <1>4

LEMMA ZeroReads == Value([minus |-> FALSE, digits |-> <<0>>]) = 0
  <1> DEFINE s == [minus |-> FALSE, digits |-> <<0>>]
             f == [i \in 0 .. 1 |-> 0]
  <1>1. s.digits = <<0>> /\ s.minus = FALSE /\ Len(<<0>>) = 1 /\ <<0>>[1] = 0
    OBVIOUS
  <1>2. f[0] = 0 /\ f[1] = 0
    OBVIOUS
  <1> HIDE DEF s, f
  <1>3. \A i \in 1 .. 1 : f[i] = 10 * f[i - 1] + <<0>>[i]
    <2>1. f[1] = 10 * f[0] + <<0>>[1]
      BY <1>1, <1>2
    <2>2. \A i \in 1 .. 1 : i = 1 /\ i - 1 = 0
      OBVIOUS
    <2> QED BY <2>1, <2>2
  <1>4. Reads(f, s.digits) /\ 1 = Len(s.digits)
    BY <1>1, <1>2, <1>3 DEF Reads
  <1>5. Value(s) = IF s.minus THEN -f[1] ELSE f[1]
    BY <1>4, ValueIs
  <1>6. Value(s) = f[1]
    BY <1>1, <1>5
  <1> QED BY <1>2, <1>6 DEF s

LEMMA NumberReads ==
    ASSUME NEW n \in Int, -Most <= n, n <= Most
    PROVE  Value(NumberToString(n)) = n
  <1> DEFINE s == NumberToString(n)
             a == IF n < 0 THEN -n ELSE n
             r == Reverse(Digits[a])
  <1>0. Most \in Nat
    BY DigitsAre
  <1>1. CASE n = 0
    <2>1. (n < 0) = FALSE
      BY <1>1
    <2>2. s = [minus |-> FALSE, digits |-> <<0>>]
      BY <1>1, <2>1, Zenon DEF NumberToString
    <2> QED BY <1>1, <2>2, ZeroReads
  <1>2. CASE n # 0
    <2>1. a \in 1 .. Most /\ (n < 0 => n = -a) /\ (~(n < 0) => n = a)
      BY <1>0, <1>2
    <2> DEFINE below == n < 0
    <2>2. s = [minus |-> below, digits |-> r]
      BY <1>2 DEF NumberToString, Ordered
    <2> HIDE DEF below
    <2>3. s.digits = r /\ s.minus = below
      BY <2>2
    <2> HIDE DEF a, s
    <2>4. ReadsBack(a)
      BY <2>1, DigitsReadBack
    <2>5. PICK f : Reads(f, r) /\ f[Len(r)] = a
      BY <2>4 DEF ReadsBack, ReadsAs
    <2>6. Len(r) \in Nat
      BY <2>4, ReverseIs DEF ReadsBack
    <2> HIDE DEF r
    <2>7. Value(s) = IF s.minus THEN -f[Len(r)] ELSE f[Len(r)]
      BY <2>3, <2>5, <2>6, ValueIs
    <2>8. Value(s) = n
      BY <2>1, <2>3, <2>5, <2>7 DEF below
    <2> QED BY <2>8 DEF s
  <1> QED BY <1>1, <1>2

\* The text of a number reads back as the number, for an int of any width, the most
\* negative one excepted (serialization.cpp:5-28).
THEOREM NumbersAlwaysReadBack == CallSpec => []NumbersReadBack
  <1>1. ASSUME CallIs PROVE NumbersReadBack
    <2>1. ASSUME call.of = "number", call.n # -(2 ^ (Width - 1))
          PROVE  Value(NumberToString(call.n)) = call.n
      <3>1. call \in [of : {"number"}, n : -(2 ^ (Width - 1)) .. 2 ^ (Width - 1) - 1]
        BY <1>1, <2>1 DEF CallIs, Calls, NoCall
      <3>2. call.n \in -Most .. Most - 1
        BY <3>1 DEF Most
      <3>3. Most \in Nat
        BY DigitsAre
      <3>4. call.n \in Int /\ -Most <= call.n /\ call.n <= Most
        BY <3>2, <3>3
      <3> QED BY <3>4, NumberReads
    <2> QED BY <2>1 DEF NumbersReadBack
  <1> QED BY <1>1, CallIsInit, CallIsStep, PTL DEF CallSpec

=============================================================================

------------------------ MODULE MemcacheVerifyProofs ------------------------
(***************************************************************************)
(* verify_proof of the memcached snapshot trie accepts nothing that is     *)
(* false: proofs for keys of every length, maps of every size and stacks   *)
(* of any layers.                                                          *)
(***************************************************************************)
EXTENDS MemcacheVerify, TriePrefixTheorems

\* What is carried after each layer.
LEMMA CarriesFact ==
    ASSUME NEW k, NEW s, Len(s) \in Nat
    PROVE  /\ Carries(k, s)[0] = NoneYet
           /\ \A i \in 1 .. Len(s) : Carries(k, s)[i] = VerifyLayer(k, Carries(k, s)[i - 1], s[i])
<1>0. PICK z \in Nat : z = Len(s)
  OBVIOUS
<1> DEFINE D == 0 .. z
           From(f, i) == IF i = 0 THEN NoneYet ELSE VerifyLayer(k, f[i - 1], s[i])
           R(f) == f = [i \in D |-> From(f, i)]
           H(g, h) == \A i \in D : i <= h => g[i] = From(g, i)
           G == {h \in D : \E g : H(g, h)}
<1>1. 0 \in G
  <2> DEFINE g == [i \in D |-> NoneYet]
  <2>1. \A i \in D : i <= 0 => i = 0 /\ g[i] = NoneYet
    OBVIOUS
  <2>2. H(g, 0)
    BY <2>1
  <2> HIDE DEF g, H
  <2> QED BY <2>2, <1>0
<1>2. ASSUME NEW h \in D, h + 1 <= z, h \in G
      PROVE  h + 1 \in G
  <2>1. PICK g : H(g, h)
    BY <1>2
  <2> DEFINE g2 == [i \in D |-> IF i <= h THEN g[i] ELSE From(g, i)]
  <2>2. \A i \in D : g2[i] = IF i <= h THEN g[i] ELSE From(g, i)
    OBVIOUS
  <2> HIDE DEF g2
  <2>3. ASSUME NEW i \in D, i <= h + 1 PROVE g2[i] = From(g2, i)
    <3>1. g2[i] = From(g, i)
      BY <2>1, <2>2
    <3>2. i # 0 => i - 1 \in D /\ i - 1 <= h
      BY <1>0, <1>2, <2>3
    <3>3. i # 0 => g2[i - 1] = g[i - 1]
      BY <2>2, <3>2
    <3> QED BY <3>1, <3>3
  <2>4. H(g2, h + 1)
    BY <2>3
  <2>5. h + 1 \in D
    BY <1>0, <1>2
  <2> HIDE DEF H
  <2> QED BY <2>4, <2>5
<1>3. z \in G
  <2> HIDE DEF G
  <2>1. 0 \in Nat /\ z \in D /\ \A i \in 0 .. z : i + 1 <= z /\ i \in G => i + 1 \in G
    BY <1>0, <1>2
  <2> QED BY <2>1, <1>0, <1>1, RangeInduction
<1>4. PICK g : \A i \in D : g[i] = From(g, i)
  <2>1. PICK g : H(g, z)
    BY <1>3
  <2> QED BY <2>1, <1>0
<1>5. \E f : R(f)
  <2> DEFINE f == [i \in D |-> g[i]]
  <2>1. \A i \in D : f[i] = g[i]
    OBVIOUS
  <2>2. ASSUME NEW i \in D PROVE g[i] = From(f, i)
    <3> HIDE DEF f
    <3>1. i # 0 => i - 1 \in D
      BY <1>0
    <3>2. i # 0 => f[i - 1] = g[i - 1]
      BY <2>1, <3>1
    <3> QED BY <3>2, <1>4
  <2>3. f = [i \in D |-> From(f, i)]
    <3>1. f = [i \in D |-> g[i]]
      OBVIOUS
    <3> HIDE DEF f
    <3> QED BY <3>1, <2>2
  <2> QED BY <2>3
<1>6. PICK f : f = (CHOOSE h : R(h)) /\ R(f)
  BY <1>5
<1>7. Carries(k, s) = f
  BY <1>0, <1>6 DEF Carries
<1>8. f = [i \in D |-> From(f, i)]
  BY <1>6
<1>9. \A i \in D : f[i] = From(f, i)
  BY <1>8
<1>10. 0 \in D /\ \A i \in 1 .. Len(s) : i \in D /\ i # 0
  BY <1>0
<1> QED BY <1>7, <1>9, <1>10

\* A layer that is not rejected.
LEMMA LayerAccepted ==
    ASSUME NEW k, NEW c, NEW layer, VerifyLayer(k, c, layer).ok
    PROVE  /\ c.ok
           /\ layer.len = KeyLen =>
                /\ c.hash = NoHash
                /\ VerifyLayer(k, c, layer).hash = Header(k, KeyLen, <<layer.child_data[1]>>)
           /\ layer.len # KeyLen =>
                /\ BranchBits(k, layer.len) \in layer.bv <=> c.hash # NoHash
                /\ VerifyLayer(k, c, layer).hash
                     = Header(k, layer.len, Body(c, layer, BranchBits(k, layer.len)))
<1>1. c.ok
  BY DEF VerifyLayer
<1>2. ~Rejected.ok /\ \A h, l : Carry(h, l).hash = h
  BY DEF Rejected, Carry
<1>3. ASSUME layer.len = KeyLen
      PROVE  /\ c.hash = NoHash
             /\ VerifyLayer(k, c, layer).hash = Header(k, KeyLen, <<layer.child_data[1]>>)
  <2>1. VerifyLayer(k, c, layer) = LeafLayer(k, c, layer)
    BY <1>1, <1>3 DEF VerifyLayer
  <2>2. /\ c.hash = NoHash
        /\ LeafLayer(k, c, layer) = Carry(Header(k, layer.len, <<layer.child_data[1]>>), layer.len)
    BY <1>2, <2>1 DEF LeafLayer
  <2> QED BY <1>2, <1>3, <2>1, <2>2
<1>4. ASSUME layer.len # KeyLen
      PROVE  /\ BranchBits(k, layer.len) \in layer.bv <=> c.hash # NoHash
             /\ VerifyLayer(k, c, layer).hash
                  = Header(k, layer.len, Body(c, layer, BranchBits(k, layer.len)))
  <2>1. VerifyLayer(k, c, layer) = MapLayer(k, c, layer)
    BY <1>1, <1>4 DEF VerifyLayer
  <2>2. /\ BranchBits(k, layer.len) \in layer.bv <=> c.hash # NoHash
        /\ MapLayer(k, c, layer)
             = Carry(Header(k, layer.len, Body(c, layer, BranchBits(k, layer.len))), layer.len)
    BY <1>2, <2>1 DEF MapLayer
  <2> QED BY <1>2, <2>1, <2>2
<1> QED BY <1>1, <1>3, <1>4

LEMMA AcceptedIsHeader ==
    ASSUME NEW k, NEW c, NEW layer, VerifyLayer(k, c, layer).ok
    PROVE  \E p, l, d : VerifyLayer(k, c, layer).hash = [pfx |-> p, len |-> l, body |-> d]
<1>1. PICK d, e : d = <<layer.child_data[1]>> /\ e = Body(c, layer, BranchBits(k, layer.len))
  OBVIOUS
<1>2. VerifyLayer(k, c, layer).hash \in {Header(k, KeyLen, d), Header(k, layer.len, e)}
  BY <1>1, LayerAccepted
<1> QED BY <1>2 DEF Header

\* The digest D of the keys K, which have key k if the map has it, was carried.
Carried(D, A, k, h) == \E K \in SUBSET A : h = D[K] /\ (k \in A => k \in K)

\* A layer of a map whose hash is the digest of keys K: below it the digest of
\* those keys of K that go on with the same digit as k was carried.
LEMMA MapLayerDown ==
    ASSUME NEW D, NEW A \in SUBSET Key, NEW k \in Key, NEW c, NEW layer,
           VerifyLayer(k, c, layer).ok, layer.len # KeyLen,
           NEW K \in SUBSET A, k \in A => k \in K, NEW p, NEW l \in PrefixLen,
           VerifyLayer(k, c, layer).hash
             = [pfx |-> p, len |-> l, body |-> [b \in Branch |-> D[Towards(K, l, b)]]]
    PROVE  c.ok /\ Carried(D, A, k, c.hash)
<1>1. PICK bb, B, E : /\ bb = BranchBits(k, layer.len) /\ B = Body(c, layer, bb)
                      /\ E = [b \in Branch |-> D[Towards(K, l, b)]]
  OBVIOUS
<1>2. /\ c.ok /\ (bb \in layer.bv <=> c.hash # NoHash)
      /\ VerifyLayer(k, c, layer).hash = Header(k, layer.len, B)
  BY <1>1, LayerAccepted
<1>3. l = layer.len /\ B = E
  BY <1>1, <1>2, SameDigest DEF Header
<1>4. bb \in Branch /\ bb = k[l + 1]
  BY <1>1, <1>3, KeyLenAssumption DEF BranchBits, Key, PrefixLen
<1>5. c.hash = B[bb]
  BY <1>1, <1>2, <1>4 DEF Body
<1>6. B[bb] = D[Towards(K, l, bb)]
  BY <1>1, <1>3, <1>4
<1>7. PICK T : T = Towards(K, l, bb)
  OBVIOUS
<1>8. T \in SUBSET A /\ (k \in A => k \in T)
  BY <1>4, <1>7 DEF Towards
<1> QED BY <1>2, <1>5, <1>6, <1>7, <1>8 DEF Carried

\* Any other layer whose hash is the digest of some of the keys.
LEMMA LayerDown ==
    ASSUME NEW kv, DOMAIN kv \subseteq Key, Distinct(NoHash), NEW k \in DOMAIN kv,
           NEW D, D = Digests(kv, NoValue, NoHash), NEW A, A = Active(kv, NoValue),
           NEW c, NEW layer, VerifyLayer(k, c, layer).ok,
           Carried(D, A, k, VerifyLayer(k, c, layer).hash)
    PROVE  /\ c.ok
           /\ layer.len # KeyLen => Carried(D, A, k, c.hash)
           /\ layer.len = KeyLen => c.hash = NoHash /\ layer.child_data[1] = kv[k]
<1>1. PICK K \in SUBSET A : VerifyLayer(k, c, layer).hash = D[K] /\ (k \in A => k \in K)
  BY DEF Carried
<1>2. A \in SUBSET Key /\ k \in Key
  BY DEF Active
<1>3. PICK p, l, d : VerifyLayer(k, c, layer).hash = [pfx |-> p, len |-> l, body |-> d]
  BY AcceptedIsHeader
<1>4. K # {}
  <2>1. Digests(kv, NoValue, NoHash)[K] # NoHash
    BY <1>1, <1>3 DEF Distinct
  <2> QED BY <2>1, DigestCases
<1>5. PartsOf(kv, D, A, K, p, l, d)
  BY <1>1, <1>3, <1>4, DigestParts
<1>6. c.ok
  BY LayerAccepted
<1>7. ASSUME layer.len # KeyLen PROVE Carried(D, A, k, c.hash)
  <2>1. PICK bb, B : bb = BranchBits(k, layer.len) /\ B = Body(c, layer, bb)
    OBVIOUS
  <2>2. VerifyLayer(k, c, layer).hash = Header(k, layer.len, B)
    BY <1>7, <2>1, LayerAccepted
  <2>3. l = layer.len
    BY <1>3, <2>2, SameDigest DEF Header
  <2>4. d = [b \in Branch |-> D[Towards(K, l, b)]] /\ l \in PrefixLen
    BY <1>5, <1>7, <2>3 DEF PartsOf, Shares
  <2> QED BY <1>1, <1>2, <1>3, <1>7, <2>4, MapLayerDown
<1>8. ASSUME layer.len = KeyLen PROVE c.hash = NoHash /\ layer.child_data[1] = kv[k]
  <2>1. PICK v : v = layer.child_data[1]
    OBVIOUS
  <2>2. c.hash = NoHash /\ VerifyLayer(k, c, layer).hash = Header(k, KeyLen, <<v>>)
    BY <1>8, <2>1, LayerAccepted
  <2>3. p = Truncate(k, KeyLen) /\ l = KeyLen /\ d = <<v>>
    BY <1>3, <2>2, SameDigest DEF Header
  <2>4. p = k
    BY <1>2, <2>3, FullTruncate
  <2>5. PICK j \in K : TRUE
    BY <1>4
  <2>6. p = j /\ d = <<kv[j]>>
    BY <1>5, <2>3, <2>5 DEF PartsOf
  <2> QED BY <2>1, <2>2, <2>3, <2>4, <2>6
<1> QED BY <1>6, <1>7, <1>8

\* Nothing was carried for a key that is not there.
LEMMA NoneCarried ==
    ASSUME NEW kv, DOMAIN kv \subseteq Key, Distinct(NoHash), NEW k \in DOMAIN kv,
           Carried(Digests(kv, NoValue, NoHash), Active(kv, NoValue), k, NoHash)
    PROVE  kv[k] = NoValue
<1>1. PICK K \in SUBSET Active(kv, NoValue) :
          NoHash = Digests(kv, NoValue, NoHash)[K] /\ (k \in Active(kv, NoValue) => k \in K)
  BY DEF Carried
<1>2. K = {}
  BY <1>1, DigestCases
<1> QED BY <1>1, <1>2 DEF Active

\* verify_proof is sound for every stack of layers, whatever their lengths, bit
\* vectors and child data: what it accepts for a key against the hash of a map
\* has a layer, and says what the map has for this key.  Together with
\* HashCanonical, what is accepted against the hash of the memcached trie is
\* what was last inserted.
THEOREM VerifierSound ==
    ASSUME Distinct(NoHash), NEW kv, DOMAIN kv \subseteq Key, NEW k \in DOMAIN kv,
           NEW L, NEW s \in Seq(L),
           verify_proof(k, s, CanonicalDigest(kv, NoValue, NoHash))
    PROVE  s # <<>> /\ Proves(s) = kv[k]
<1>1. PICK C, z, D, A : /\ C = Carries(k, s) /\ z = Len(s)
                        /\ D = Digests(kv, NoValue, NoHash) /\ A = Active(kv, NoValue)
  OBVIOUS
<1>2. /\ z \in Nat /\ C[0] = NoneYet
      /\ \A i \in 1 .. z : C[i] = VerifyLayer(k, C[i - 1], s[i])
  BY <1>1, CarriesFact
<1>3. C[z].ok /\ C[z].hash # NoHash /\ C[z].hash = CanonicalDigest(kv, NoValue, NoHash)
  BY <1>1 DEF verify_proof
<1>4. z # 0 /\ C[0].hash = NoHash
  BY <1>2, <1>3 DEF NoneYet
<1>5. A \in SUBSET Key /\ k \in Key
  BY <1>1 DEF Active
<1> DEFINE Below(i) == C[i].ok /\ Carried(D, A, k, C[i].hash)
<1>6. ASSUME NEW i \in 1 .. z, C[i].ok PROVE C[i].hash # NoHash
  <2>1. C[i] = VerifyLayer(k, C[i - 1], s[i])
    BY <1>2
  <2>2. PICK c, y : c = C[i - 1] /\ y = s[i]
    OBVIOUS
  <2>3. VerifyLayer(k, c, y).ok /\ VerifyLayer(k, c, y).hash = C[i].hash
    BY <1>6, <2>1, <2>2
  <2>4. PICK p, l, d : VerifyLayer(k, c, y).hash = [pfx |-> p, len |-> l, body |-> d]
    BY <2>3, AcceptedIsHeader
  <2> QED BY <2>3, <2>4 DEF Distinct
<1>7. s[z].len # KeyLen /\ Below(z - 1)
  <2>1. PICK c, y : c = C[z - 1] /\ y = s[z]
    OBVIOUS
  <2>2. z \in 1 .. z
    BY <1>2, <1>4
  <2>3. VerifyLayer(k, c, y) = C[z]
    BY <1>2, <2>1, <2>2
  <2>4. PICK o : VerifyLayer(k, c, y).hash
                   = [pfx |-> o, len |-> 0, body |-> [b \in Branch |-> D[Towards(A, 0, b)]]]
    BY <1>1, <1>3, <2>3 DEF CanonicalDigest
  <2>5. ASSUME y.len = KeyLen PROVE FALSE
    <3>1. PICK d, e : d = <<y.child_data[1]>> /\ e = [b \in Branch |-> D[Towards(A, 0, b)]]
      OBVIOUS
    <3>2. VerifyLayer(k, c, y).hash = Header(k, KeyLen, d)
      BY <1>3, <2>3, <2>5, <3>1, LayerAccepted
    <3>3. VerifyLayer(k, c, y).hash = [pfx |-> o, len |-> 0, body |-> e]
      BY <2>4, <3>1
    <3>4. 0 = KeyLen
      BY <3>2, <3>3, SameDigest DEF Header
    <3> QED BY <3>4, KeyLenAssumption
  <2>6. 0 \in PrefixLen
    BY KeyLenAssumption DEF PrefixLen
  <2>7. c.ok /\ Carried(D, A, k, c.hash)
    <3>1. VerifyLayer(k, c, y).ok /\ A \in SUBSET A /\ (k \in A => k \in A)
      BY <1>3, <2>3
    <3> QED BY <1>5, <2>4, <2>5, <2>6, <3>1, MapLayerDown
  <2> QED BY <2>1, <2>5, <2>7
<1>8. ASSUME NEW i \in 1 .. z, Below(i)
      PROVE  /\ s[i].len # KeyLen => Below(i - 1)
             /\ s[i].len = KeyLen => C[i - 1].ok /\ C[i - 1].hash = NoHash /\ s[i].child_data[1] = kv[k]
  <2>1. PICK c, y : c = C[i - 1] /\ y = s[i]
    OBVIOUS
  <2>2. C[i] = VerifyLayer(k, c, y)
    BY <1>2, <2>1
  <2> QED BY <1>1, <1>8, <2>1, <2>2, LayerDown
<1> HIDE DEF Below
<1>9. CASE z = 1
  <2>1. Below(0) /\ s[1].len # KeyLen
    BY <1>7, <1>9
  <2>2. kv[k] = NoValue
    BY <1>1, <1>4, <2>1, NoneCarried DEF Below
  <2> QED BY <1>1, <1>4, <2>1, <2>2 DEF Proves
<1>10. CASE z # 1
  <2> DEFINE S == {j \in 0 .. z - 2 : Below(z - 1 - j)}
  <2>0. z - 2 \in Nat
    BY <1>2, <1>4, <1>10
  <2>1. 0 \in S
    BY <1>2, <1>7, <2>0
  <2>2. ASSUME NEW j \in 0 .. z - 2, j + 1 <= z - 2, j \in S PROVE j + 1 \in S
    <3>1. PICK i : i = z - 1 - j /\ i \in 1 .. z /\ i - 1 \in 1 .. z /\ i - 1 = z - 1 - (j + 1)
      BY <1>2, <2>0, <2>2
    <3>2. Below(i)
      BY <2>2, <3>1
    <3>3. Below(i - 1)
      BY <1>6, <1>8, <3>1, <3>2
    <3>4. j + 1 \in 0 .. z - 2
      BY <2>0, <2>2
    <3> QED BY <3>1, <3>3, <3>4
  <2>3. Below(1)
    <3>1. z - 2 \in S
      <4> HIDE DEF S
      <4>1. 0 \in Nat /\ z - 2 \in 0 .. z - 2
        BY <2>0
      <4> QED BY <2>0, <2>1, <2>2, <4>1, RangeInduction
    <3>2. z - 1 - (z - 2) = 1
      BY <1>2
    <3> QED BY <3>1, <3>2
  <2>4. 1 \in 1 .. z /\ 1 - 1 = 0
    BY <1>2, <1>4
  <2>5. /\ s[1].len # KeyLen => Below(0)
        /\ s[1].len = KeyLen => s[1].child_data[1] = kv[k]
    BY <1>8, <2>3, <2>4
  <2>6. Below(0) => kv[k] = NoValue
    BY <1>1, <1>4, NoneCarried DEF Below
  <2> QED BY <1>1, <1>4, <2>5, <2>6 DEF Proves
<1> QED BY <1>9, <1>10

-----------------------------------------------------------------------------
(* Two proofs for one root hash *)

\* Layers with the same hash have the same length, and the same hash was
\* carried to them.
LEMMA SameLayer ==
    ASSUME NEW k \in Key, NEW c, NEW d, NEW x, NEW y, x.len \in PrefixLen,
           VerifyLayer(k, c, x).ok, VerifyLayer(k, d, y).ok,
           VerifyLayer(k, c, x).hash = VerifyLayer(k, d, y).hash
    PROVE  /\ c.ok /\ d.ok /\ c.hash = d.hash /\ x.len = y.len
           /\ x.len = KeyLen => x.child_data[1] = y.child_data[1]
<1>1. c.ok /\ d.ok
  BY LayerAccepted
<1>2. PICK v, w, B, E : /\ v = x.child_data[1] /\ w = y.child_data[1]
                        /\ B = Body(c, x, BranchBits(k, x.len))
                        /\ E = Body(d, y, BranchBits(k, y.len))
  OBVIOUS
<1>3. /\ x.len = KeyLen => c.hash = NoHash /\ VerifyLayer(k, c, x).hash = Header(k, x.len, <<v>>)
      /\ x.len # KeyLen => VerifyLayer(k, c, x).hash = Header(k, x.len, B)
      /\ x.len # KeyLen => (BranchBits(k, x.len) \in x.bv <=> c.hash # NoHash)
  BY <1>2, LayerAccepted
<1>4. /\ y.len = KeyLen => d.hash = NoHash /\ VerifyLayer(k, d, y).hash = Header(k, y.len, <<w>>)
      /\ y.len # KeyLen => VerifyLayer(k, d, y).hash = Header(k, y.len, E)
      /\ y.len # KeyLen => (BranchBits(k, y.len) \in y.bv <=> d.hash # NoHash)
  BY <1>2, LayerAccepted
<1>5. PICK e, f : /\ e = (IF x.len = KeyLen THEN <<v>> ELSE B) /\ f = (IF y.len = KeyLen THEN <<w>> ELSE E)
                  /\ Header(k, x.len, e) = Header(k, y.len, f)
  BY <1>3, <1>4
<1>6. x.len = y.len /\ e = f
  BY <1>5, SameDigest DEF Header
<1>7. CASE x.len = KeyLen
  <2>1. <<v>> = <<w>> /\ c.hash = d.hash
    BY <1>3, <1>4, <1>5, <1>6, <1>7
  <2> QED BY <1>1, <1>2, <1>6, <2>1
<1>8. CASE x.len # KeyLen
  <2>1. PICK bb : bb = BranchBits(k, x.len) /\ bb \in Branch
    BY <1>8, KeyLenAssumption DEF BranchBits, Key, PrefixLen
  <2>2. B[bb] = E[bb]
    BY <1>5, <1>6, <1>8
  <2>3. B[bb] = IF bb \in x.bv THEN c.hash ELSE NoHash
    BY <1>2, <2>1 DEF Body
  <2>4. E[bb] = IF bb \in y.bv THEN d.hash ELSE NoHash
    BY <1>2, <1>6, <2>1 DEF Body
  <2>5. c.hash = d.hash
    BY <1>3, <1>4, <1>6, <1>8, <2>1, <2>2, <2>3, <2>4
  <2> QED BY <1>1, <1>6, <1>8, <2>5
<1> QED BY <1>7, <1>8

LEMMA SameStatement ==
    ASSUME Distinct(NoHash), NEW k \in Key, NEW h, NEW L, \A x \in L : x.len \in PrefixLen,
           NEW r \in Seq(L), NEW s \in Seq(L), Len(r) <= Len(s),
           verify_proof(k, r, h), verify_proof(k, s, h)
    PROVE  Len(r) = Len(s) /\ r # <<>> /\ Proves(r) = Proves(s)
<1>1. PICK C, D, y, z : /\ C = Carries(k, r) /\ y = Len(r)
                        /\ D = Carries(k, s) /\ z = Len(s)
  OBVIOUS
<1>2. /\ y \in Nat /\ C[0] = NoneYet
      /\ \A i \in 1 .. y : C[i] = VerifyLayer(k, C[i - 1], r[i]) /\ r[i].len \in PrefixLen
  BY <1>1, CarriesFact
<1>3. /\ z \in Nat /\ D[0] = NoneYet
      /\ \A i \in 1 .. z : D[i] = VerifyLayer(k, D[i - 1], s[i]) /\ s[i].len \in PrefixLen
  BY <1>1, CarriesFact
<1>4. /\ C[y].ok /\ C[y].hash = h /\ h # NoHash /\ D[z].ok /\ D[z].hash = h
      /\ C[0].hash = NoHash /\ D[0].hash = NoHash
  BY <1>1, <1>2, <1>3 DEF verify_proof, NoneYet
<1>5. y \in Nat /\ z \in Nat /\ y <= z /\ y # 0
  BY <1>1, <1>2, <1>3, <1>4
<1> DEFINE Same(i, j) == C[i].ok /\ D[j].ok /\ C[i].hash = D[j].hash
<1>6. ASSUME NEW i \in 1 .. y, NEW j \in 1 .. z, Same(i, j)
      PROVE  /\ Same(i - 1, j - 1) /\ r[i].len = s[j].len
             /\ r[i].len = KeyLen => r[i].child_data[1] = s[j].child_data[1]
  <2>1. PICK c, d, u, v : c = C[i - 1] /\ d = D[j - 1] /\ u = r[i] /\ v = s[j]
    OBVIOUS
  <2>2. C[i] = VerifyLayer(k, c, u) /\ D[j] = VerifyLayer(k, d, v) /\ u.len \in PrefixLen
    BY <1>2, <1>3, <2>1
  <2>3. /\ c.ok /\ d.ok /\ c.hash = d.hash /\ u.len = v.len
        /\ u.len = KeyLen => u.child_data[1] = v.child_data[1]
    BY <1>6, <2>2, SameLayer
  <2> QED BY <2>1, <2>3
<1>7. ASSUME NEW j \in 1 .. z, D[j].ok PROVE D[j].hash # NoHash
  <2>1. PICK c, v : c = D[j - 1] /\ v = s[j]
    OBVIOUS
  <2>2. VerifyLayer(k, c, v).ok /\ VerifyLayer(k, c, v).hash = D[j].hash
    BY <1>3, <1>7, <2>1
  <2>3. PICK p, l, d : VerifyLayer(k, c, v).hash = [pfx |-> p, len |-> l, body |-> d]
    BY <2>2, AcceptedIsHeader
  <2> QED BY <2>2, <2>3 DEF Distinct
<1> DEFINE S == {n \in 0 .. y : Same(y - n, z - n)}
<1> HIDE DEF Same
<1>8. 0 \in S
  <2>1. Same(y, z) /\ y - 0 = y /\ z - 0 = z
    BY <1>4, <1>5 DEF Same
  <2> QED BY <1>5, <2>1
<1>9. ASSUME NEW n \in 0 .. y, n + 1 <= y, n \in S PROVE n + 1 \in S
  <2>1. PICK i, j : /\ i = y - n /\ i \in 1 .. y /\ j = z - n /\ j \in 1 .. z
                    /\ i - 1 = y - (n + 1) /\ j - 1 = z - (n + 1)
    BY <1>5, <1>9
  <2>2. Same(i - 1, j - 1)
    BY <1>6, <1>9, <2>1
  <2> QED BY <1>5, <1>9, <2>1, <2>2
<1>10. \A n \in 0 .. y : Same(y - n, z - n)
  <2> HIDE DEF S
  <2>1. 0 \in Nat /\ \A n \in 0 .. y : n \in S
    BY <1>5, <1>8, <1>9, RangeInduction
  <2> USE DEF S
  <2> QED BY <2>1
<1>11. y = z
  <2>1. Same(0, z - y)
    <3>1. y \in 0 .. y /\ y - y = 0
      BY <1>5
    <3> QED BY <1>10, <3>1
  <2>2. z # y => z - y \in 1 .. z
    BY <1>5
  <2> QED BY <1>4, <1>5, <1>7, <2>1, <2>2 DEF Same
<1>12. Same(1, 1)
  <2>1. y - 1 \in 0 .. y /\ y - (y - 1) = 1 /\ z - (y - 1) = 1
    BY <1>5, <1>11
  <2> QED BY <1>10, <2>1
<1>13. /\ r[1].len = s[1].len
       /\ r[1].len = KeyLen => r[1].child_data[1] = s[1].child_data[1]
  BY <1>5, <1>6, <1>11, <1>12
<1> QED BY <1>1, <1>5, <1>11, <1>13 DEF Proves

\* A root hash, whoever made it and whatever it is the hash of, commits to one
\* statement for each key: two stacks that verify_proof accepts for a key and
\* the same root hash are of the same length and say the same.
THEOREM VerifierBinding ==
    ASSUME Distinct(NoHash), NEW k \in Key, NEW root_hash,
           NEW L, \A x \in L : x.len \in PrefixLen, NEW r \in Seq(L), NEW s \in Seq(L),
           verify_proof(k, r, root_hash), verify_proof(k, s, root_hash)
    PROVE  Len(r) = Len(s) /\ Proves(r) = Proves(s)
<1>1. Len(r) \in Nat /\ Len(s) \in Nat
  OBVIOUS
<1>2. CASE Len(r) <= Len(s)
  BY <1>2, SameStatement
<1>3. CASE Len(s) <= Len(r)
  BY <1>3, SameStatement
<1> QED BY <1>1, <1>2, <1>3

=============================================================================

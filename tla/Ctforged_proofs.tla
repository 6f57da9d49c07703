--------------------------- MODULE Ctforged_proofs ---------------------------
(***************************************************************************)
(* Proofs, for all modules, payloads, clients and descriptors, that the    *)
(* signature check accepts what it should, that a listed module is a       *)
(* trusted one, that dlopen and dlclose balance, and that the answers of   *)
(* insmod and rmmod are true.                                              *)
(***************************************************************************)
EXTENDS Ctforged, FiniteSetTheorems, WellFoundedInduction, TLAPS

-----------------------------------------------------------------------------
(* Natural numbers.                                                         *)

\* A set of natural numbers that is not empty has a least element.
LEMMA LeastElement ==
  ASSUME NEW T \in SUBSET Nat, T # {}
  PROVE  \E x \in T : \A y \in T : x <= y
<1>. DEFINE Q == {1 .. n : n \in T}
<1>1. Q \subseteq FiniteSubsetsOf(Nat) /\ Q # {}
  <2>1. \A n \in T : IsFiniteSet(1 .. n) /\ 1 .. n \in SUBSET Nat
    BY FS_Interval
  <2>. QED  BY <2>1 DEF FiniteSubsetsOf
<1>2. \E m \in Q : \A q \in Q : ~ (<<q, m>> \in StrictSubsetOrdering(Nat))
  <2>. HIDE DEF Q
  <2>1. IsWellFoundedOn(StrictSubsetOrdering(Nat), FiniteSubsetsOf(Nat))
    BY FS_StrictSubsetOrderingWellFounded
  <2>. QED  BY <1>1, <2>1, WFMin
<1>3. PICK x \in T : \A y \in T : ~ (<<1 .. y, 1 .. x>> \in StrictSubsetOrdering(Nat))
  BY <1>2
<1>4. ASSUME NEW y \in T, y < x PROVE FALSE
  <2>. DEFINE A == 1 .. y
              B == 1 .. x
  <2>1. A \subseteq B /\ A # B /\ A \in SUBSET Nat /\ B \in SUBSET Nat
    <3>1. x \in B /\ x \notin A
      BY <1>4
    <3>. QED  BY <3>1, <1>4
  <2>2. <<A, B>> \in StrictSubsetOrdering(Nat)
    <3>. HIDE DEF A, B
    <3>. QED  BY <2>1 DEF StrictSubsetOrdering
  <2>. QED  BY <2>2, <1>3
<1>. QED  BY <1>4

\* The descriptor the kernel hands out.
LEMMA LowestFree ==
  ASSUME NEW S \in SUBSET Fd, S # {}
  PROVE  Min(S) \in S
<1>1. S \in SUBSET Nat
  BY DEF Fd
<1>. QED  BY <1>1, LeastElement DEF Min

-----------------------------------------------------------------------------
(* The signature check.                                                     *)

\* get_section_content finds what the sections of that name agree on.
LEMMA FoundSame ==
  ASSUME NEW secs, NEW name, NEW d, DOMAIN secs \subseteq Nat, Named(secs, name) # {},
         \A j \in Named(secs, name) : secs[j].data = d
  PROVE  section_exists(secs, name) /\ get_section_content(secs, name) = d
<1>1. Named(secs, name) \in SUBSET Nat
  BY DEF Named
<1>2. \E x \in Named(secs, name) : \A y \in Named(secs, name) : x <= y
  BY <1>1, LeastElement
<1>. QED  BY <1>2 DEF section_exists, get_section_content

\* In particular a name that is there once.
LEMMA FoundOnce ==
  ASSUME NEW secs, NEW name, NEW i \in DOMAIN secs, secs[i].name = name,
         \A j \in DOMAIN secs : secs[j].name = name => j = i, DOMAIN secs \subseteq Nat
  PROVE  section_exists(secs, name) /\ get_section_content(secs, name) = secs[i].data
<1>1. Named(secs, name) # {} /\ \A j \in Named(secs, name) : secs[j].data = secs[i].data
  BY DEF Named
<1>. QED  BY <1>1, FoundSame

\* What both copies of the loop ask of one program section.
Signed(secs, i) ==
  /\ secs[i].data # Empty
  /\ \E j \in DOMAIN secs : secs[j] = [name |-> SignName(secs[i].name),
                                       data |-> sm2_sign(secs[i].data)]

\* A signature is never empty.
LEMMA SignNotEmpty ==
  ASSUME NEW d \in Bytes
  PROVE  sm2_sign(d) # Empty
BY DEF sm2_sign, Empty, Bytes

\* Both copies of the loop accept the sections that are signed.
LEMMA LoopBody ==
  ASSUME NEW secs \in Seq(SectionType), NEW i \in DOMAIN secs,
         \A a, b \in DOMAIN secs : secs[a].name = secs[b].name => a = b
  PROVE  /\ SectionVerified(secs, secs[i].name, TRUE) <=> Signed(secs, i)
         /\ (/\ section_exists(secs, SignName(secs[i].name))
             /\ secs[i].data # Empty
             /\ get_section_content(secs, SignName(secs[i].name)) # Empty
             /\ sm2_verify(secs[i].data, TRUE,
                           get_section_content(secs, SignName(secs[i].name)))) <=> Signed(secs, i)
<1>1. DOMAIN secs \subseteq Nat
  OBVIOUS
<1>2. get_section_content(secs, secs[i].name) = secs[i].data
  BY <1>1, FoundOnce
<1>3. secs[i].data \in Bytes /\ \A j \in DOMAIN secs : secs[j] \in SectionType
  <2>1. \A j \in DOMAIN secs : secs[j] \in SectionType
    OBVIOUS
  <2>. QED  BY <2>1 DEF SectionType
<1>4. CASE section_exists(secs, SignName(secs[i].name))
  <2>1. PICK j \in DOMAIN secs : secs[j].name = SignName(secs[i].name)
    BY <1>4 DEF section_exists, Named
  <2>2. get_section_content(secs, SignName(secs[i].name)) = secs[j].data
    BY <1>1, <2>1, FoundOnce
  <2>3. Signed(secs, i) <=> secs[i].data # Empty /\ secs[j].data = sm2_sign(secs[i].data)
    BY <1>3, <2>1 DEF Signed, SectionType
  <2>. QED  BY <1>2, <1>3, <1>4, <2>2, <2>3, SignNotEmpty DEF SectionVerified, sm2_verify
<1>5. CASE ~section_exists(secs, SignName(secs[i].name))
  <2>1. ~Signed(secs, i)
    BY <1>5 DEF section_exists, Named, Signed
  <2>. QED  BY <1>5, <2>1 DEF SectionVerified
<1>. QED  BY <1>4, <1>5

\* Without a key nothing verifies.
LEMMA NoKey ==
  ASSUME NEW p \in ObjectType, NEW ub \in {"fail", "crash"}
  PROVE  /\ do_safty_verify_sign(p, FALSE, ub) # "ok"
         /\ ~do_safety_verify_sign_from_mem(p, FALSE)
         /\ ~Certified(p, FALSE)
BY DEF do_safty_verify_sign, do_safety_verify_sign_from_mem, Certified, do_verify_tail_sign,
   do_verify_tail_sign_from_mem, sm2_verify, is_tail_signed

\* The tail of a certified payload.
TailCertified(p) == p.size = "full" /\ p.sign_len = "fits" /\ p.sign = sm2_sign(p.body)

\* Its sections.
SectionsCertified(p) ==
  /\ p.parses
  /\ \E i \in DOMAIN p.sections : IsSign(p.sections[i].name)
  /\ \A i \in DOMAIN p.sections :
       IsDot(p.sections[i].name) \/ IsSign(p.sections[i].name) \/ Signed(p.sections, i)

\* Both copies of the loop check the sections.
LEMMA SectionLoops ==
  ASSUME NEW p \in ObjectType, WellNamed(p)
  PROVE  /\ do_verify_ebpf_section_sign(p, TRUE) <=> SectionsCertified(p)
         /\ do_verify_ebpf_section_sign_from_mem(p, TRUE) <=> SectionsCertified(p)
<1>1. p.sections \in Seq(SectionType)
  BY DEF ObjectType
<1>2. \A i \in DOMAIN p.sections :
        /\ SectionVerified(p.sections, p.sections[i].name, TRUE) <=> Signed(p.sections, i)
        /\ (/\ section_exists(p.sections, SignName(p.sections[i].name))
            /\ p.sections[i].data # Empty
            /\ get_section_content(p.sections, SignName(p.sections[i].name)) # Empty
            /\ sm2_verify(p.sections[i].data, TRUE,
                  get_section_content(p.sections, SignName(p.sections[i].name))))
           <=> Signed(p.sections, i)
  BY <1>1, LoopBody DEF WellNamed
<1>3. \A i \in DOMAIN p.sections : p.sections[i].name # <<>>
  BY DEF WellNamed
<1>4. do_verify_ebpf_section_sign(p, TRUE) <=> SectionsCertified(p)
  BY <1>2 DEF do_verify_ebpf_section_sign, SectionsCertified
<1>5. do_verify_ebpf_section_sign_from_mem(p, TRUE) <=> SectionsCertified(p)
  BY <1>2, <1>3 DEF do_verify_ebpf_section_sign_from_mem, SectionsCertified
<1>. QED  BY <1>4, <1>5

\* Both copies of the check of the tail; only the one for a file asks for the flag.
LEMMA TailChecks ==
  ASSUME NEW p \in ObjectType, NEW ub \in {"fail", "crash"}
  PROVE  /\ do_verify_tail_sign(p, TRUE, ub) = "ok" <=> p.flag /\ TailCertified(p)
         /\ do_verify_tail_sign_from_mem(p, TRUE) <=> TailCertified(p)
BY DEF do_verify_tail_sign, do_verify_tail_sign_from_mem, TailCertified, sm2_verify,
   is_tail_signed, ObjectType

\* What certified means, in these terms.
LEMMA CertifiedParts ==
  ASSUME NEW p \in ObjectType
  PROVE  Certified(p, TRUE) <=> /\ p.magic /\ TailCertified(p)
                                /\ p.ebpf => SectionsCertified(p)
BY DEF Certified, TailCertified, SectionsCertified, Signed

\* The verdict of both forms of the check, whatever the payload.
LEMMA Verdict ==
  ASSUME NEW p \in ObjectType
  PROVE  VerdictIsRight(p)
<1>. SUFFICES ASSUME WellNamed(p), NEW ub \in {"fail", "crash"}
              PROVE  /\ do_safty_verify_sign(p, TRUE, ub) = "ok" <=> p.flag /\ Certified(p, TRUE)
                     /\ do_safety_verify_sign_from_mem(p, TRUE) <=> Certified(p, TRUE)
  BY NoKey DEF VerdictIsRight
<1>1. do_safty_verify_sign(p, TRUE, ub) = "ok" <=> p.flag /\ Certified(p, TRUE)
  <2>1. TailCertified(p) => p.size # "tiny"
    BY DEF TailCertified
  <2>. QED  BY <2>1, SectionLoops, TailChecks, CertifiedParts DEF do_safty_verify_sign
<1>2. do_safety_verify_sign_from_mem(p, TRUE) <=> Certified(p, TRUE)
  <2>1. TailCertified(p) => p.size # "tiny"
    BY DEF TailCertified
  <2>. QED  BY <2>1, SectionLoops, TailChecks, CertifiedParts DEF do_safety_verify_sign_from_mem
<1>. QED  BY <1>1, <1>2

\* A shared object, which has no sections to check, is accepted only if it is
\* certified: its names do not matter.
LEMMA LibraryVerdict ==
  ASSUME NEW p \in ObjectType, ~p.ebpf, NEW key \in BOOLEAN, NEW ub \in {"fail", "crash"},
         do_safty_verify_sign(p, key, ub) = "ok"
  PROVE  p.flag /\ Certified(p, TRUE)
<1>1. key = TRUE
  BY NoKey
<1>. QED  BY <1>1, TailChecks, CertifiedParts DEF do_safty_verify_sign

-----------------------------------------------------------------------------
(* Signing through create_section.                                          *)

\* The body of the loop for section n.
SignOne(secs, n, out) ==
  IF IsDot(secs[n].name) \/ IsSign(secs[n].name) THEN out
  ELSE create_section(out, SignName(secs[n].name), sm2_sign(secs[n].data))

\* f is the loop after each of the first l sections.
SignLoop(secs, l, f) ==
  f = [n \in 0 .. l |-> IF n = 0 THEN secs ELSE SignOne(secs, n, f[n - 1])]

\* The loop can be run over any number of sections.
LEMMA SignLoopExists ==
  ASSUME NEW secs, NEW l \in Nat
  PROVE  \E f : SignLoop(secs, l, f)
<1>. DEFINE T == {n \in Nat : ~\E f : SignLoop(secs, n, f)}
<1>. SUFFICES T = {}
  OBVIOUS
<1>. SUFFICES ASSUME T # {} PROVE FALSE
  OBVIOUS
<1>1. PICK x \in T : \A y \in T : x <= y
  BY LeastElement
<1>2. x # 0
  <2>1. SignLoop(secs, 0, [n \in 0 .. 0 |-> secs])
    BY DEF SignLoop
  <2>. QED  BY <2>1
<1>3. PICK f : SignLoop(secs, x - 1, f)
  BY <1>1, <1>2
<1>. DEFINE g == [n \in 0 .. x |-> IF n = x THEN SignOne(secs, x, f[x - 1]) ELSE f[n]]
<1>4. \A n \in 0 .. x : g[n] = IF n = 0 THEN secs ELSE SignOne(secs, n, g[n - 1])
  <2>1. \A n \in 0 .. x - 1 : f[n] = IF n = 0 THEN secs ELSE SignOne(secs, n, f[n - 1])
    BY <1>3 DEF SignLoop
  <2>2. \A n \in 0 .. x : n # x => n \in 0 .. x - 1
    OBVIOUS
  <2>3. \A n \in 0 .. x : n # 0 => n - 1 \in 0 .. x /\ n - 1 # x
    OBVIOUS
  <2>4. x - 1 \in 0 .. x /\ g[x - 1] = f[x - 1] /\ g[x] = SignOne(secs, x, f[x - 1])
    BY <1>2
  <2>5. \A n \in 0 .. x : n # x => g[n] = f[n]
    OBVIOUS
  <2>. HIDE DEF g
  <2>. QED  BY <1>2, <2>1, <2>2, <2>3, <2>4, <2>5
<1>5. SignLoop(secs, x, g)
  <2>1. g = [n \in 0 .. x |-> g[n]]
    OBVIOUS
  <2>. HIDE DEF g
  <2>. QED  BY <1>4, <2>1 DEF SignLoop
<1>. QED  BY <1>1, <1>5

\* What the loop has made of the sections after the first n of them.
SignedUpTo(secs, n, out) ==
  /\ out \in Seq(SectionType) /\ Len(out) >= Len(secs)
  /\ \A i \in 1 .. Len(secs) : out[i] = secs[i]
  /\ \A j \in 1 .. Len(out) : j > Len(secs) =>
       \E i \in 1 .. n :
         /\ ~IsDot(secs[i].name) /\ ~IsSign(secs[i].name)
         /\ out[j] = [name |-> SignName(secs[i].name), data |-> sm2_sign(secs[i].data)]
  /\ \A i \in 1 .. n : IsDot(secs[i].name) \/ IsSign(secs[i].name) \/
       \E j \in 1 .. Len(out) :
         out[j] = [name |-> SignName(secs[i].name), data |-> sm2_sign(secs[i].data)]

\* A part before other parts.
LEMMA SignBytes ==
  ASSUME NEW d \in Bytes
  PROVE  SignName(d) \in Bytes /\ sm2_sign(d) \in Bytes
<1>1. <<"SIGN_">> \in Seq(Part) /\ <<"signature">> \in Seq(Part)
  BY PartAssumption
<1>. QED  BY <1>1 DEF Bytes, SignName, sm2_sign

\* One round of the loop.
LEMMA SignOneStep ==
  ASSUME NEW secs \in Seq(SectionType), NEW n \in 1 .. Len(secs), NEW out,
         SignedUpTo(secs, n - 1, out)
  PROVE  SignedUpTo(secs, n, SignOne(secs, n, out))
<1>0. \A i \in 1 .. n - 1 : i \in 1 .. n
  OBVIOUS
<1>01. \A i \in 1 .. n : i # n => i \in 1 .. n - 1
  OBVIOUS
<1>1. CASE IsDot(secs[n].name) \/ IsSign(secs[n].name)
  <2>1. SignOne(secs, n, out) = out
    BY <1>1 DEF SignOne
  <2>. QED  BY <1>0, <1>01, <1>1, <2>1 DEF SignedUpTo
<1>2. CASE ~(IsDot(secs[n].name) \/ IsSign(secs[n].name))
  <2>. DEFINE new == [name |-> SignName(secs[n].name), data |-> sm2_sign(secs[n].data)]
              res == Append(out, new)
  <2>1. SignOne(secs, n, out) = res
    BY <1>2 DEF SignOne, create_section
  <2>2. new \in SectionType
    <3>1. secs[n] \in SectionType
      OBVIOUS
    <3>2. secs[n].name \in Bytes /\ secs[n].data \in Bytes
      BY <3>1 DEF SectionType
    <3>3. SignName(secs[n].name) \in Bytes /\ sm2_sign(secs[n].data) \in Bytes
      BY <3>2, SignBytes
    <3>. QED  BY <3>3 DEF SectionType
  <2>. HIDE DEF new
  <2>3. /\ res \in Seq(SectionType) /\ Len(res) = Len(out) + 1 /\ res[Len(res)] = new
        /\ \A j \in 1 .. Len(out) : j \in 1 .. Len(res) /\ res[j] = out[j]
        /\ \A j \in 1 .. Len(res) : j \in 1 .. Len(out) \/ j = Len(res)
        /\ Len(res) \in 1 .. Len(res)
    BY <2>2 DEF SignedUpTo
  <2>. HIDE DEF res
  <2>4. Len(res) >= Len(secs) /\ \A i \in 1 .. Len(secs) : res[i] = secs[i]
    BY <2>3 DEF SignedUpTo
  <2>5. \A j \in 1 .. Len(res) : j > Len(secs) =>
          \E i \in 1 .. n :
            /\ ~IsDot(secs[i].name) /\ ~IsSign(secs[i].name)
            /\ res[j] = [name |-> SignName(secs[i].name), data |-> sm2_sign(secs[i].data)]
    <3>. SUFFICES ASSUME NEW j \in 1 .. Len(res), j > Len(secs)
                  PROVE  \E i \in 1 .. n :
                           /\ ~IsDot(secs[i].name) /\ ~IsSign(secs[i].name)
                           /\ res[j] = [name |-> SignName(secs[i].name),
                                        data |-> sm2_sign(secs[i].data)]
      OBVIOUS
    <3>1. CASE j = Len(res)
      BY <1>2, <2>3, <3>1 DEF new
    <3>2. CASE j \in 1 .. Len(out)
      <4>1. PICK i \in 1 .. n - 1 :
              /\ ~IsDot(secs[i].name) /\ ~IsSign(secs[i].name)
              /\ out[j] = [name |-> SignName(secs[i].name), data |-> sm2_sign(secs[i].data)]
        BY <3>2 DEF SignedUpTo
      <4>. QED  BY <1>0, <2>3, <3>2, <4>1
    <3>. QED  BY <2>3, <3>1, <3>2
  <2>6. \A i \in 1 .. n : IsDot(secs[i].name) \/ IsSign(secs[i].name) \/
          \E j \in 1 .. Len(res) :
            res[j] = [name |-> SignName(secs[i].name), data |-> sm2_sign(secs[i].data)]
    <3>. SUFFICES ASSUME NEW i \in 1 .. n, ~IsDot(secs[i].name), ~IsSign(secs[i].name)
                  PROVE  \E j \in 1 .. Len(res) : res[j] =
                           [name |-> SignName(secs[i].name), data |-> sm2_sign(secs[i].data)]
      OBVIOUS
    <3>1. CASE i = n
      BY <2>3, <3>1 DEF new
    <3>2. CASE i # n
      <4>1. PICK j \in 1 .. Len(out) :
              out[j] = [name |-> SignName(secs[i].name), data |-> sm2_sign(secs[i].data)]
        BY <1>01, <3>2 DEF SignedUpTo
      <4>. QED  BY <2>3, <4>1
    <3>. QED  BY <3>1, <3>2
  <2>. QED  BY <2>1, <2>3, <2>4, <2>5, <2>6 DEF SignedUpTo
<1>. QED  BY <1>1, <1>2

\* What signing makes of the sections.
LEMMA SigningResult ==
  ASSUME NEW secs \in Seq(SectionType)
  PROVE  SignedUpTo(secs, Len(secs), WithSignatures(secs))
<1>. DEFINE l == Len(secs)
            after == CHOOSE f : SignLoop(secs, l, f)
<1>0. l \in Nat
  OBVIOUS
<1>1. WithSignatures(secs) = after[l]
  BY DEF WithSignatures, SignLoop, SignOne
<1>2. SignLoop(secs, l, after)
  BY <1>0, SignLoopExists
<1>. HIDE DEF after, l
<1>3. \A n \in 0 .. l : after[n] = IF n = 0 THEN secs ELSE SignOne(secs, n, after[n - 1])
  BY <1>2 DEF SignLoop
<1>. DEFINE T == {n \in 0 .. l : ~SignedUpTo(secs, n, after[n])}
<1>4. T = {}
  <2>. SUFFICES ASSUME T # {} PROVE FALSE
    OBVIOUS
  <2>0. T \in SUBSET Nat
    BY <1>0
  <2>1. PICK x \in T : \A y \in T : x <= y
    <3>. HIDE DEF T
    <3>. QED  BY <2>0, LeastElement
  <2>2. SignedUpTo(secs, 0, secs)
    <3>1. Len(secs) >= Len(secs) /\ \A i \in 1 .. 0 : FALSE
      OBVIOUS
    <3>2. \A j \in 1 .. Len(secs) : ~(j > Len(secs))
      OBVIOUS
    <3>. QED  BY <3>1, <3>2 DEF SignedUpTo
  <2>3. x # 0
    BY <1>0, <1>3, <2>2
  <2>4. x - 1 \in 0 .. l /\ x \in 1 .. l /\ x - 1 \notin T
    BY <1>0, <2>1, <2>3
  <2>5. SignedUpTo(secs, x - 1, after[x - 1])
    BY <2>4
  <2>6. SignedUpTo(secs, x, after[x])
    BY <1>3, <2>4, <2>5, SignOneStep DEF l
  <2>. QED  BY <2>6
<1>5. l \in 0 .. l
  BY <1>0
<1>. QED  BY <1>1, <1>4, <1>5 DEF l

\* The name of a signature tells whose it is.
LEMMA SignNames ==
  ASSUME NEW a \in Bytes, NEW b \in Bytes
  PROVE  /\ IsSign(SignName(a)) /\ ~IsDot(SignName(a))
         /\ SignName(a) = SignName(b) => a = b
<1>1. a \in Seq(Part) /\ b \in Seq(Part)
  BY DEF Bytes
<1>2. SignName(a) # <<>> /\ SignName(a)[1] = "SIGN_"
  BY <1>1 DEF SignName
<1>3. ASSUME SignName(a) = SignName(b) PROVE a = b
  <2>1. Len(a) = Len(b)
    BY <1>1, <1>3 DEF SignName
  <2>2. \A i \in 1 .. Len(a) : SignName(a)[i + 1] = a[i] /\ SignName(b)[i + 1] = b[i]
    BY <1>1, <2>1 DEF SignName
  <2>. QED  BY <1>1, <1>3, <2>1, <2>2
<1>. QED  BY <1>2, <1>3 DEF IsSign, IsDot

\* Objects that were signed pass the check of their sections.
LEMMA Signing ==
  ASSUME NEW p \in ObjectType
  PROVE  SigningPasses(p)
<1>. DEFINE secs == p.sections
            out == WithSignatures(secs)
            q == [p EXCEPT !.sections = out]
<1>. SUFFICES ASSUME WellNamed(p), p.parses,
                     \A i \in DOMAIN secs : secs[i].data # Empty /\ ~IsSign(secs[i].name),
                     \E i \in DOMAIN secs : ~IsDot(secs[i].name)
              PROVE  do_verify_ebpf_section_sign(q, TRUE)
  BY DEF SigningPasses
<1>1. secs \in Seq(SectionType) /\ q.sections = out /\ q.parses
  BY DEF ObjectType
<1>. HIDE DEF q, out, secs
<1>2. SignedUpTo(secs, Len(secs), out)
  BY <1>1, SigningResult DEF out
<1>3. /\ DOMAIN secs = 1 .. Len(secs) /\ DOMAIN out = 1 .. Len(out)
      /\ DOMAIN secs \subseteq DOMAIN out /\ DOMAIN out \subseteq Nat
  BY <1>1, <1>2 DEF SignedUpTo
<1>4. \A i \in DOMAIN secs : out[i] = secs[i]
  BY <1>2, <1>3 DEF SignedUpTo
<1>5. \A j \in DOMAIN out \ DOMAIN secs : \E i \in DOMAIN secs :
        ~IsDot(secs[i].name) /\
        out[j] = [name |-> SignName(secs[i].name), data |-> sm2_sign(secs[i].data)]
  BY <1>2, <1>3 DEF SignedUpTo
<1>6. \A i \in DOMAIN secs : ~IsDot(secs[i].name) => \E j \in DOMAIN out :
        out[j] = [name |-> SignName(secs[i].name), data |-> sm2_sign(secs[i].data)]
  BY <1>2, <1>3 DEF SignedUpTo
<1>7. \A i \in DOMAIN secs : secs[i].name \in Bytes /\ secs[i].data \in Bytes
  <2>1. \A i \in DOMAIN secs : secs[i] \in SectionType
    BY <1>1
  <2>. QED  BY <2>1 DEF SectionType
<1>8. \A i, k \in DOMAIN secs : secs[i].name = secs[k].name => i = k
  BY DEF WellNamed, secs
<1>9. ASSUME NEW i \in DOMAIN out, ~IsDot(out[i].name), ~IsSign(out[i].name)
      PROVE  SectionVerified(out, out[i].name, TRUE)
  <2>1. i \in DOMAIN secs /\ out[i] = secs[i]
    <3>1. i \notin DOMAIN secs => IsSign(out[i].name)
      BY <1>5, <1>7, SignNames
    <3>. QED  BY <1>4, <1>9, <3>1
  <2>2. \A k \in DOMAIN out : out[k].name = out[i].name => out[k].data = secs[i].data
    <3>1. ASSUME NEW k \in DOMAIN out, out[k].name = out[i].name PROVE k \in DOMAIN secs
      BY <1>5, <1>7, <1>9, <3>1, SignNames
    <3>. QED  BY <1>4, <1>8, <2>1, <3>1
  <2>3. get_section_content(out, out[i].name) = secs[i].data
    <3>1. Named(out, out[i].name) # {} /\ \A k \in Named(out, out[i].name) : out[k].data = secs[i].data
      BY <1>9, <2>2 DEF Named
    <3>. QED  BY <1>3, <3>1, FoundSame
  <2>4. PICK j \in DOMAIN out :
          out[j] = [name |-> SignName(secs[i].name), data |-> sm2_sign(secs[i].data)]
    BY <1>6, <1>9, <2>1
  <2>5. \A k \in DOMAIN out : out[k].name = SignName(secs[i].name) =>
                                 out[k].data = sm2_sign(secs[i].data)
    <3>1. ASSUME NEW k \in DOMAIN out, out[k].name = SignName(secs[i].name)
          PROVE  out[k].data = sm2_sign(secs[i].data)
      <4>1. IsSign(out[k].name)
        BY <1>7, <2>1, <3>1, SignNames
      <4>2. k \notin DOMAIN secs
        BY <1>4, <4>1 DEF secs
      <4>3. PICK a \in DOMAIN secs : out[k] = [name |-> SignName(secs[a].name),
                                               data |-> sm2_sign(secs[a].data)]
        BY <1>5, <4>2
      <4>4. secs[a].name = secs[i].name
        BY <1>7, <2>1, <3>1, <4>3, SignNames
      <4>. QED  BY <1>8, <2>1, <4>3, <4>4
    <3>. QED  BY <3>1
  <2>6. /\ section_exists(out, SignName(secs[i].name))
        /\ get_section_content(out, SignName(secs[i].name)) = sm2_sign(secs[i].data)
    <3>1. /\ Named(out, SignName(secs[i].name)) # {}
          /\ \A k \in Named(out, SignName(secs[i].name)) : out[k].data = sm2_sign(secs[i].data)
      BY <2>4, <2>5 DEF Named
    <3>. QED  BY <1>3, <3>1, FoundSame
  <2>7. secs[i].data # Empty /\ sm2_sign(secs[i].data) # Empty
    BY <1>7, <2>1, SignNotEmpty DEF secs
  <2>. QED  BY <2>1, <2>3, <2>6, <2>7 DEF SectionVerified, sm2_verify
<1>10. \E j \in DOMAIN out : IsSign(out[j].name)
  <2>1. PICK i \in DOMAIN secs : ~IsDot(secs[i].name)
    BY DEF secs
  <2>2. PICK j \in DOMAIN out : out[j].name = SignName(secs[i].name)
    BY <1>6, <2>1
  <2>. QED  BY <1>7, <2>1, <2>2, SignNames
<1>. QED  BY <1>1, <1>9, <1>10 DEF do_verify_ebpf_section_sign

-----------------------------------------------------------------------------
(* The module table while insmod and rmmod work on it.                      *)

Trusted(m, obj) == obj \in Payloads /\ obj.mod = m /\ obj.flag /\ Certified(obj, TRUE)

IsTable(k) == k = [listed |-> k.listed, mapped |-> k.mapped, leaked |-> k.leaked,
                   live |-> k.live, results |-> k.results]

\* Listed modules are trusted, and each holds the one reference to an object
\* that is mapped at its own path.
TableInv(k) ==
  /\ DOMAIN k.listed \subseteq Module /\ DOMAIN k.mapped \subseteq Fd /\ k.leaked \subseteq Fd
  /\ \A m \in DOMAIN k.listed :
       /\ Trusted(m, k.listed[m].obj)
       /\ k.listed[m].path \in DOMAIN k.mapped
       /\ k.mapped[k.listed[m].path].obj = k.listed[m].obj
  /\ \A m, n \in DOMAIN k.listed : k.listed[m].path = k.listed[n].path => m = n
  /\ \A path \in DOMAIN k.mapped :
       /\ k.mapped[path].refs = 1
       /\ \E m \in DOMAIN k.listed : k.listed[m].path = path

\* The results so far tell which modules have come and gone.
ResultsTrue(method, k) ==
  /\ k.results \in Seq([mod : Module, ok : BOOLEAN])
  /\ method = "insmod" =>
       /\ DOMAIN listed \subseteq DOMAIN k.listed
       /\ \A i \in DOMAIN k.results : k.results[i].ok => k.results[i].mod \in DOMAIN k.listed
       /\ \A m \in DOMAIN k.listed \ DOMAIN listed :
            \E i \in DOMAIN k.results : k.results[i] = Result(m, TRUE)
  /\ method = "rmmod" =>
       /\ DOMAIN k.listed \subseteq DOMAIN listed
       /\ \A i \in DOMAIN k.results : k.results[i].ok => k.results[i].mod \notin DOMAIN k.listed
       /\ \A m \in DOMAIN listed \ DOMAIN k.listed :
            \E i \in DOMAIN k.results : k.results[i] = Result(m, TRUE)

LoopInv(method, k) == IsTable(k) /\ TableInv(k) /\ ResultsTrue(method, k)

\* What is installed for a module.
LEMMA InstalledFiles ==
  ASSUME NEW m \in Module, NEW f \in Installed[m]
  PROVE  \/ f = <<NoPayload, "fail">>
         \/ /\ f[1] \in Payloads /\ f[1] \in ObjectType /\ f[1].mod = m
            /\ \E key \in BOOLEAN, ub \in {"fail", "crash"} :
                 f[2] = do_safty_verify_sign(f[1], key, ub)
            /\ f[2] \in {"ok", "fail", "exit", "crash"}
<1>1. Installed[m] = {<<NoPayload, "fail">>} \cup
        {<<p, do_safty_verify_sign(p, key, ub)>> :
           p \in {q \in Payloads : q.mod = m}, key \in BOOLEAN, ub \in {"fail", "crash"}}
  BY DEF Installed
<1>2. CASE f = <<NoPayload, "fail">>
  BY <1>2
<1>3. CASE f # <<NoPayload, "fail">>
  <2>1. PICK p \in Payloads, key \in BOOLEAN, ub \in {"fail", "crash"} :
          p.mod = m /\ f = <<p, do_safty_verify_sign(p, key, ub)>>
    BY <1>1, <1>3
  <2>2. do_safty_verify_sign(p, key, ub) \in {"ok", "fail", "exit", "crash"}
    BY DEF do_safty_verify_sign, do_verify_tail_sign
  <2>. QED  BY <2>1, <2>2, CtforgedAssumption
<1>. QED  BY <1>2, <1>3

\* A load that succeeds maps a new object, and a trusted one: under a path that
\* is in use dlopen would return the object of another module.
LEMMA LoadOk ==
  ASSUME NEW k, TableInv(k), NEW m \in Module, NEW f \in Installed[m],
         LoadOutcome(k, m, f[1], f[2]) = "ok"
  PROVE  LET fd == Min(Fd \ InUse(k))
         IN  /\ fd \in Fd /\ fd \notin DOMAIN k.mapped /\ m \notin DOMAIN k.listed
             /\ dlopen(k, fd, f[1]) = f[1] /\ Trusted(m, f[1])
<1>. DEFINE free == Fd \ InUse(k)
            fd == Min(free)
            obj == dlopen(k, fd, f[1])
<1>1. /\ m \notin DOMAIN k.listed /\ free # {} /\ f[1] # NoPayload /\ f[2] = "ok"
      /\ ~obj.ebpf /\ obj.mod = m
  BY DEF LoadOutcome
<1>2. fd \in Fd
  BY <1>1, LowestFree
<1>. HIDE DEF fd
<1>3. fd \notin DOMAIN k.mapped
  <2>. SUFFICES ASSUME fd \in DOMAIN k.mapped PROVE FALSE
    OBVIOUS
  <2>1. obj = k.mapped[fd].obj
    BY DEF dlopen
  <2>2. PICK n \in DOMAIN k.listed : k.listed[n].path = fd
    BY DEF TableInv
  <2>3. k.listed[n].obj = obj /\ obj.mod = n
    <3>1. Trusted(n, k.listed[n].obj) /\ k.mapped[k.listed[n].path].obj = k.listed[n].obj
      BY DEF TableInv
    <3>. HIDE DEF obj
    <3>. QED  BY <2>1, <2>2, <3>1 DEF Trusted
  <2>. QED  BY <1>1, <2>3
<1>4. obj = f[1]
  BY <1>3 DEF dlopen
<1>5. f # <<NoPayload, "fail">>
  BY <1>1
<1>6. PICK key \in BOOLEAN, ub \in {"fail", "crash"} :
        f[1] \in Payloads /\ f[1] \in ObjectType /\ do_safty_verify_sign(f[1], key, ub) = "ok"
  BY <1>1, <1>5, InstalledFiles
<1>7. f[1].flag /\ Certified(f[1], TRUE)
  BY <1>1, <1>4, <1>6, LibraryVerdict
<1>. QED  BY <1>1, <1>2, <1>3, <1>4, <1>6, <1>7 DEF Trusted, fd

\* The ways one insmod of p may end.
InsmodEnds(k, m, p, k2) ==
  \/ k2 = k
  \/ k2 = [k EXCEPT !.live = FALSE]
  \/ k2 = Answered(k, m, FALSE)
  \/ \E L \in SUBSET Fd : k2 = Answered([k EXCEPT !.leaked = @ \cup L], m, FALSE)
  \/ \E L \in SUBSET Fd, fd \in Fd \ DOMAIN k.mapped :
       /\ m \notin DOMAIN k.listed /\ Trusted(m, p)
       /\ k2 = Answered([k EXCEPT !.leaked = @ \cup L,
                          !.mapped = With(@, fd, [obj |-> p, refs |-> 1]),
                          !.listed = With(@, m, [path |-> fd, obj |-> p])], m, TRUE)

\* There are no others.
LEMMA InsmodCases ==
  ASSUME NEW k, TableInv(k), NEW m \in Module, NEW f \in Installed[m]
  PROVE  InsmodEnds(k, m, f[1], do_one_insmod(k, m, f[1], f[2]))
<1>. DEFINE free == Fd \ InUse(k)
            fd == Min(free)
            streams == Streams(f[1], free \ {fd})
            obj == dlopen(k, fd, f[1])
            refs == IF fd \in DOMAIN k.mapped THEN k.mapped[fd].refs ELSE 0
            outcome == LoadOutcome(k, m, f[1], f[2])
            k2 == do_one_insmod(k, m, f[1], f[2])
<1>1. outcome \in {"loaded", "unpack", "fail", "close", "ok", "exit", "crash"}
  <2>1. f[2] \in {"ok", "fail", "exit", "crash"}
    BY InstalledFiles
  <2>. QED  BY <2>1 DEF LoadOutcome
<1>2. outcome \notin {"loaded", "unpack"} => free # {}
  BY DEF LoadOutcome
<1>3. streams \in SUBSET Fd
  <2>. DEFINE rest == free \ {fd}
  <2>1. rest \in SUBSET Fd
    OBVIOUS
  <2>2. rest # {} => Min(rest) \in Fd
    <3>. HIDE DEF rest
    <3>. QED  BY <2>1, LowestFree
  <2>. HIDE DEF rest
  <2>. QED  BY <2>2 DEF Streams, rest
<1>4. free # {} => fd \in Fd
  <2>1. free \in SUBSET Fd
    OBVIOUS
  <2>. QED  BY <2>1, LowestFree
<1>5. k2 = IF ~k.live THEN k
           ELSE IF outcome \in {"exit", "crash"} THEN [k EXCEPT !.live = FALSE]
           ELSE IF outcome \in {"loaded", "unpack"} THEN Answered(k, m, FALSE)
           ELSE IF outcome \in {"fail", "close"}
           THEN Answered([k EXCEPT !.leaked = @ \cup {fd} \cup streams], m, FALSE)
           ELSE Answered([k EXCEPT !.leaked = @ \cup streams,
                              !.mapped = With(@, fd, [obj |-> obj, refs |-> refs + 1]),
                              !.listed = With(@, m, [path |-> fd, obj |-> obj])], m, TRUE)
  BY DEF do_one_insmod
<1>6. outcome = "ok" => /\ fd \in Fd \ DOMAIN k.mapped /\ m \notin DOMAIN k.listed
                        /\ obj = f[1] /\ Trusted(m, f[1]) /\ refs = 0
  BY LoadOk
<1>. HIDE DEF fd, free, streams, obj, refs, outcome, k2
<1>7. CASE k.live /\ outcome \in {"fail", "close"}
  <2>1. ({fd} \cup streams) \in SUBSET Fd
    BY <1>2, <1>3, <1>4, <1>7
  <2>2. k.leaked \cup {fd} \cup streams = k.leaked \cup ({fd} \cup streams)
    OBVIOUS
  <2>3. k2 = Answered([k EXCEPT !.leaked = k.leaked \cup ({fd} \cup streams)], m, FALSE)
    BY <1>5, <1>7, <2>2
  <2>. QED  BY <2>1, <2>3 DEF k2, InsmodEnds
<1>8. CASE k.live /\ outcome = "ok"
  <2>1. k2 = Answered([k EXCEPT !.leaked = k.leaked \cup streams,
                         !.mapped = With(k.mapped, fd, [obj |-> f[1], refs |-> 1]),
                         !.listed = With(k.listed, m, [path |-> fd, obj |-> f[1]])], m, TRUE)
    <3>1. refs + 1 = 1
      BY <1>6, <1>8
    <3>. QED  BY <1>5, <1>6, <1>8, <3>1
  <2>. QED  BY <1>3, <1>6, <1>8, <2>1 DEF k2, InsmodEnds
<1>9. CASE ~k.live \/ outcome \in {"exit", "crash", "loaded", "unpack"}
  BY <1>5, <1>9 DEF k2, InsmodEnds
<1>. QED  BY <1>1, <1>7, <1>8, <1>9

\* The fields of a table with one more result.
LEMMA AnsweredFields ==
  ASSUME NEW k, IsTable(k), NEW m \in Module, NEW ok \in BOOLEAN
  PROVE  LET k2 == Answered(k, m, ok)
         IN  /\ IsTable(k2) /\ k2.listed = k.listed /\ k2.mapped = k.mapped
             /\ k2.leaked = k.leaked /\ k2.live = k.live
             /\ k2.results = Append(k.results, Result(m, ok))
BY DEF Answered, IsTable

\* One more result.
LEMMA AppendResult ==
  ASSUME NEW s \in Seq([mod : Module, ok : BOOLEAN]), NEW m \in Module, NEW ok \in BOOLEAN
  PROVE  LET t == Append(s, Result(m, ok))
         IN  /\ t \in Seq([mod : Module, ok : BOOLEAN])
             /\ \A i \in DOMAIN s : i \in DOMAIN t /\ t[i] = s[i]
             /\ \A i \in DOMAIN t : i \in DOMAIN s \/ t[i] = Result(m, ok)
             /\ \E i \in DOMAIN t : t[i] = Result(m, ok)
<1>1. Result(m, ok) \in [mod : Module, ok : BOOLEAN]
  BY DEF Result
<1>2. PICK r \in [mod : Module, ok : BOOLEAN] : r = Result(m, ok)
  BY <1>1
<1>3. /\ Append(s, r) \in Seq([mod : Module, ok : BOOLEAN])
      /\ DOMAIN s = 1 .. Len(s) /\ DOMAIN Append(s, r) = 1 .. Len(s) + 1 /\ Len(s) \in Nat
      /\ \A i \in 1 .. Len(s) : Append(s, r)[i] = s[i]
      /\ Append(s, r)[Len(s) + 1] = r
  OBVIOUS
<1>4. \A i \in 1 .. Len(s) + 1 : i \in 1 .. Len(s) \/ i = Len(s) + 1
  BY <1>3
<1>5. Len(s) + 1 \in 1 .. Len(s) + 1 /\ \A i \in 1 .. Len(s) : i \in 1 .. Len(s) + 1
  BY <1>3
<1>. QED  BY <1>2, <1>3, <1>4, <1>5

\* A step that fails leaves the table as it is, but for descriptors.
LEMMA FailedStep ==
  ASSUME NEW method, NEW k, LoopInv(method, k), NEW m \in Module, NEW L \in SUBSET Fd
  PROVE  /\ LoopInv(method, [k EXCEPT !.live = FALSE])
         /\ LoopInv(method, Answered(k, m, FALSE))
         /\ LoopInv(method, Answered([k EXCEPT !.leaked = @ \cup L], m, FALSE))
<1>. USE DEF LoopInv
<1>1. ASSUME NEW k2, IsTable(k2), k2.listed = k.listed, k2.mapped = k.mapped,
             k2.leaked \in SUBSET Fd,
             k2.results = k.results \/ k2.results = Append(k.results, Result(m, FALSE))
      PROVE  LoopInv(method, k2)
  <2>1. TableInv(k2)
    BY <1>1 DEF TableInv
  <2>2. /\ k2.results \in Seq([mod : Module, ok : BOOLEAN])
        /\ \A i \in DOMAIN k.results : i \in DOMAIN k2.results /\ k2.results[i] = k.results[i]
        /\ \A i \in DOMAIN k2.results : i \in DOMAIN k.results \/ k2.results[i] = Result(m, FALSE)
    <3>1. k.results \in Seq([mod : Module, ok : BOOLEAN])
      BY DEF ResultsTrue
    <3>2. CASE k2.results = k.results
      BY <3>1, <3>2
    <3>3. CASE k2.results = Append(k.results, Result(m, FALSE))
      <4>1. PICK t : t = Append(k.results, Result(m, FALSE))
        OBVIOUS
      <4>2. /\ t \in Seq([mod : Module, ok : BOOLEAN])
            /\ \A i \in DOMAIN k.results : i \in DOMAIN t /\ t[i] = k.results[i]
            /\ \A i \in DOMAIN t : i \in DOMAIN k.results \/ t[i] = Result(m, FALSE)
        BY <3>1, <4>1, AppendResult
      <4>. QED  BY <3>3, <4>1, <4>2
    <3>. QED  BY <1>1, <3>2, <3>3
  <2>3. ~Result(m, FALSE).ok
    BY DEF Result
  <2>4. \A i \in DOMAIN k2.results : k2.results[i].ok => i \in DOMAIN k.results /\ k.results[i].ok
                                         /\ k2.results[i] = k.results[i]
    BY <2>2, <2>3
  <2>5. \A n : (\E i \in DOMAIN k.results : k.results[i] = Result(n, TRUE)) =>
                \E i \in DOMAIN k2.results : k2.results[i] = Result(n, TRUE)
    BY <2>2
  <2>6. ResultsTrue(method, k2)
    BY <1>1, <2>2, <2>4, <2>5 DEF ResultsTrue
  <2>. QED  BY <1>1, <2>1, <2>6
<1>2. k.leaked \in SUBSET Fd
  BY DEF TableInv
<1>3. LoopInv(method, [k EXCEPT !.live = FALSE])
  <2>1. PICK k2 : k2 = [k EXCEPT !.live = FALSE]
    OBVIOUS
  <2>2. IsTable(k2) /\ k2.listed = k.listed /\ k2.mapped = k.mapped /\ k2.leaked = k.leaked
        /\ k2.results = k.results
    BY <2>1 DEF IsTable
  <2>. QED  BY <1>1, <1>2, <2>1, <2>2
<1>4. LoopInv(method, Answered(k, m, FALSE))
  <2>1. PICK k2 : k2 = Answered(k, m, FALSE)
    OBVIOUS
  <2>. QED  BY <1>1, <1>2, <2>1, AnsweredFields
<1>5. LoopInv(method, Answered([k EXCEPT !.leaked = @ \cup L], m, FALSE))
  <2>1. PICK k1 : k1 = [k EXCEPT !.leaked = k.leaked \cup L]
    OBVIOUS
  <2>2. IsTable(k1) /\ k1.listed = k.listed /\ k1.mapped = k.mapped
        /\ k1.leaked = k.leaked \cup L /\ k1.results = k.results
    BY <2>1 DEF IsTable
  <2>3. PICK k2 : k2 = Answered(k1, m, FALSE)
    OBVIOUS
  <2>4. /\ IsTable(k2) /\ k2.listed = k.listed /\ k2.mapped = k.mapped
        /\ k2.leaked \in SUBSET Fd /\ k2.results = Append(k.results, Result(m, FALSE))
    <3>1. k2.leaked = k1.leaked
      BY <2>2, <2>3, AnsweredFields
    <3>2. k1.leaked \in SUBSET Fd
      BY <1>2, <2>2
    <3>3. IsTable(k2) /\ k2.listed = k1.listed /\ k2.mapped = k1.mapped
          /\ k2.results = Append(k1.results, Result(m, FALSE))
      BY <2>2, <2>3, AnsweredFields
    <3>. QED  BY <2>2, <3>1, <3>2, <3>3
  <2>5. LoopInv(method, k2)
    BY <1>1, <2>4
  <2>. QED  BY <2>1, <2>3, <2>5
<1>. QED  BY <1>3, <1>4, <1>5

\* A load that succeeds lists one more module, and says so.
LEMMA LoadedStep ==
  ASSUME NEW k, LoopInv("insmod", k), NEW m \in Module, NEW L \in SUBSET Fd,
         NEW fd \in Fd, fd \notin DOMAIN k.mapped, m \notin DOMAIN k.listed,
         NEW obj, Trusted(m, obj)
  PROVE  LoopInv("insmod", Answered([k EXCEPT !.leaked = @ \cup L,
                    !.mapped = With(@, fd, [obj |-> obj, refs |-> 1]),
                    !.listed = With(@, m, [path |-> fd, obj |-> obj])], m, TRUE))
<1>. DEFINE ma == With(k.mapped, fd, [obj |-> obj, refs |-> 1])
            li == With(k.listed, m, [path |-> fd, obj |-> obj])
<1>. USE DEF LoopInv
<1>1. PICK k1 : k1 = [k EXCEPT !.leaked = k.leaked \cup L, !.mapped = ma, !.listed = li]
  OBVIOUS
<1>. HIDE DEF ma, li
<1>2. /\ IsTable(k1) /\ k1.listed = li /\ k1.mapped = ma
      /\ k1.leaked = k.leaked \cup L /\ k1.results = k.results
  BY <1>1 DEF IsTable
<1>3. PICK k2 : k2 = Answered(k1, m, TRUE)
  OBVIOUS
<1>4. /\ IsTable(k2) /\ k2.listed = li /\ k2.mapped = ma /\ k2.leaked = k.leaked \cup L
      /\ k2.results = Append(k.results, Result(m, TRUE))
  BY <1>2, <1>3, AnsweredFields
<1>5. /\ DOMAIN li = DOMAIN k.listed \cup {m} /\ li[m].path = fd /\ li[m].obj = obj
      /\ \A n \in DOMAIN k.listed : li[n] = k.listed[n]
  <2>1. PICK e : e = [path |-> fd, obj |-> obj]
    OBVIOUS
  <2>2. li = With(k.listed, m, e) /\ e.path = fd /\ e.obj = obj
    BY <2>1 DEF li
  <2>. QED  BY <2>2 DEF With
<1>6. /\ DOMAIN ma = DOMAIN k.mapped \cup {fd} /\ ma[fd].obj = obj /\ ma[fd].refs = 1
      /\ \A p \in DOMAIN k.mapped : ma[p] = k.mapped[p]
  <2>1. PICK e : e = [obj |-> obj, refs |-> 1]
    OBVIOUS
  <2>2. ma = With(k.mapped, fd, e) /\ e.obj = obj /\ e.refs = 1
    BY <2>1 DEF ma
  <2>. QED  BY <2>2 DEF With
<1>7. \A n \in DOMAIN k.listed : k.listed[n].path \in DOMAIN k.mapped /\ k.listed[n].path # fd
  BY DEF TableInv
<1>8. TableInv(k2)
  <2>1. DOMAIN li \subseteq Module /\ DOMAIN ma \subseteq Fd /\ k2.leaked \subseteq Fd
    BY <1>4, <1>5, <1>6 DEF TableInv
  <2>2. ASSUME NEW n \in DOMAIN li
        PROVE  Trusted(n, li[n].obj) /\ li[n].path \in DOMAIN ma /\ ma[li[n].path].obj = li[n].obj
    BY <1>5, <1>6, <1>7 DEF TableInv
  <2>3. \A n, o \in DOMAIN li : li[n].path = li[o].path => n = o
    BY <1>5, <1>7 DEF TableInv
  <2>4. ASSUME NEW path \in DOMAIN ma
        PROVE  ma[path].refs = 1 /\ \E n \in DOMAIN li : li[n].path = path
    BY <1>5, <1>6 DEF TableInv
  <2>. QED  BY <1>4, <2>1, <2>2, <2>3, <2>4 DEF TableInv
<1>9. ResultsTrue("insmod", k2)
  <2>1. k.results \in Seq([mod : Module, ok : BOOLEAN])
    BY DEF ResultsTrue
  <2>2. PICK t : t = Append(k.results, Result(m, TRUE))
    OBVIOUS
  <2>3. /\ t \in Seq([mod : Module, ok : BOOLEAN])
        /\ \A i \in DOMAIN k.results : i \in DOMAIN t /\ t[i] = k.results[i]
        /\ \A i \in DOMAIN t : i \in DOMAIN k.results \/ t[i] = Result(m, TRUE)
        /\ \E i \in DOMAIN t : t[i] = Result(m, TRUE)
    BY <2>1, <2>2, AppendResult
  <2>4. Result(m, TRUE).mod = m
    BY DEF Result
  <2>5. \A i \in DOMAIN t : t[i].ok => t[i].mod \in DOMAIN li
    BY <1>5, <2>3, <2>4 DEF ResultsTrue
  <2>6. \A n \in DOMAIN li \ DOMAIN listed : \E i \in DOMAIN t : t[i] = Result(n, TRUE)
    BY <1>5, <2>3 DEF ResultsTrue
  <2>7. DOMAIN listed \subseteq DOMAIN li
    BY <1>5 DEF ResultsTrue
  <2>. QED  BY <1>4, <2>2, <2>3, <2>5, <2>6, <2>7 DEF ResultsTrue
<1>. QED  BY <1>1, <1>3, <1>4, <1>8, <1>9 DEF ma, li

\* No insmod breaks the invariant.
LEMMA InsmodStep ==
  ASSUME NEW k, LoopInv("insmod", k), NEW m \in Module, NEW f \in Installed[m]
  PROVE  LoopInv("insmod", do_one_insmod(k, m, f[1], f[2]))
<1>1. TableInv(k)
  BY DEF LoopInv
<1>. DEFINE k2 == do_one_insmod(k, m, f[1], f[2])
<1>2. /\ LoopInv("insmod", [k EXCEPT !.live = FALSE])
      /\ LoopInv("insmod", Answered(k, m, FALSE))
      /\ \A L \in SUBSET Fd : LoopInv("insmod", Answered([k EXCEPT !.leaked = @ \cup L], m, FALSE))
  BY FailedStep
<1>3. InsmodEnds(k, m, f[1], k2)
  BY <1>1, InsmodCases
<1>. HIDE DEF k2
<1>4. ASSUME k2 = k PROVE LoopInv("insmod", k2)
  BY <1>4
<1>5. ASSUME k2 = [k EXCEPT !.live = FALSE] PROVE LoopInv("insmod", k2)
  BY <1>2, <1>5
<1>6. ASSUME k2 = Answered(k, m, FALSE) PROVE LoopInv("insmod", k2)
  BY <1>2, <1>6
<1>7. ASSUME \E L \in SUBSET Fd : k2 = Answered([k EXCEPT !.leaked = @ \cup L], m, FALSE)
      PROVE  LoopInv("insmod", k2)
  BY <1>2, <1>7
<1>8. ASSUME NEW L \in SUBSET Fd, NEW fd \in Fd, fd \notin DOMAIN k.mapped,
             m \notin DOMAIN k.listed, Trusted(m, f[1]),
             k2 = Answered([k EXCEPT !.leaked = @ \cup L,
                     !.mapped = With(@, fd, [obj |-> f[1], refs |-> 1]),
                     !.listed = With(@, m, [path |-> fd, obj |-> f[1]])], m, TRUE)
      PROVE  LoopInv("insmod", k2)
  BY <1>8, LoadedStep
<1>9. LoopInv("insmod", k2)
  BY <1>3, <1>4, <1>5, <1>6, <1>7, <1>8 DEF InsmodEnds
<1>. QED  BY <1>9 DEF k2

\* rmmod unmaps the object of the module it removes, and says so.
LEMMA UnloadedStep ==
  ASSUME NEW k, LoopInv("rmmod", k), NEW m \in DOMAIN k.listed, NEW p, p = k.listed[m].path
  PROVE  LoopInv("rmmod", Answered([k EXCEPT !.mapped = Without(@, p),
                                             !.listed = Without(@, m)], m, TRUE))
<1>. DEFINE ma == Without(k.mapped, p)
            li == Without(k.listed, m)
<1>. USE DEF LoopInv
<1>0. m \in Module
  BY DEF TableInv
<1>1. PICK k1 : k1 = [k EXCEPT !.mapped = ma, !.listed = li]
  OBVIOUS
<1>. HIDE DEF ma, li
<1>2. /\ IsTable(k1) /\ k1.listed = li /\ k1.mapped = ma
      /\ k1.leaked = k.leaked /\ k1.results = k.results
  BY <1>1 DEF IsTable
<1>3. PICK k2 : k2 = Answered(k1, m, TRUE)
  OBVIOUS
<1>4. /\ IsTable(k2) /\ k2.listed = li /\ k2.mapped = ma /\ k2.leaked = k.leaked
      /\ k2.results = Append(k.results, Result(m, TRUE))
  BY <1>0, <1>2, <1>3, AnsweredFields
<1>5. DOMAIN li = DOMAIN k.listed \ {m} /\ \A n \in DOMAIN li : li[n] = k.listed[n]
  BY DEF Without, li
<1>6. DOMAIN ma = DOMAIN k.mapped \ {p} /\ \A q \in DOMAIN ma : ma[q] = k.mapped[q]
  BY DEF Without, ma
<1>7. \A n \in DOMAIN li : k.listed[n].path # p
  BY <1>5 DEF TableInv
<1>8. TableInv(k2)
  <2>1. DOMAIN li \subseteq Module /\ DOMAIN ma \subseteq Fd /\ k2.leaked \subseteq Fd
    BY <1>4, <1>5, <1>6 DEF TableInv
  <2>2. ASSUME NEW n \in DOMAIN li
        PROVE  Trusted(n, li[n].obj) /\ li[n].path \in DOMAIN ma /\ ma[li[n].path].obj = li[n].obj
    BY <1>5, <1>6, <1>7 DEF TableInv
  <2>3. \A n, o \in DOMAIN li : li[n].path = li[o].path => n = o
    BY <1>5 DEF TableInv
  <2>4. ASSUME NEW path \in DOMAIN ma
        PROVE  ma[path].refs = 1 /\ \E n \in DOMAIN li : li[n].path = path
    <3>1. PICK n \in DOMAIN k.listed : k.listed[n].path = path /\ k.mapped[path].refs = 1
      BY <1>6 DEF TableInv
    <3>2. n # m
      BY <1>6, <3>1
    <3>. QED  BY <1>5, <1>6, <3>1, <3>2
  <2>. QED  BY <1>4, <2>1, <2>2, <2>3, <2>4 DEF TableInv
<1>9. ResultsTrue("rmmod", k2)
  <2>1. k.results \in Seq([mod : Module, ok : BOOLEAN])
    BY DEF ResultsTrue
  <2>2. PICK t : t = Append(k.results, Result(m, TRUE))
    OBVIOUS
  <2>3. /\ t \in Seq([mod : Module, ok : BOOLEAN])
        /\ \A i \in DOMAIN k.results : i \in DOMAIN t /\ t[i] = k.results[i]
        /\ \A i \in DOMAIN t : i \in DOMAIN k.results \/ t[i] = Result(m, TRUE)
        /\ \E i \in DOMAIN t : t[i] = Result(m, TRUE)
    BY <1>0, <2>1, <2>2, AppendResult
  <2>4. Result(m, TRUE).mod = m
    BY DEF Result
  <2>5. \A i \in DOMAIN t : t[i].ok => t[i].mod \notin DOMAIN li
    BY <1>5, <2>3, <2>4 DEF ResultsTrue
  <2>6. \A n \in DOMAIN listed \ DOMAIN li : \E i \in DOMAIN t : t[i] = Result(n, TRUE)
    BY <1>5, <2>3 DEF ResultsTrue
  <2>7. DOMAIN li \subseteq DOMAIN listed
    BY <1>5 DEF ResultsTrue
  <2>. QED  BY <1>4, <2>2, <2>3, <2>5, <2>6, <2>7 DEF ResultsTrue
<1>. QED  BY <1>1, <1>3, <1>4, <1>8, <1>9 DEF ma, li

\* No rmmod breaks the invariant.
LEMMA RmmodStep ==
  ASSUME NEW k, LoopInv("rmmod", k), NEW m \in Module, NEW ub \in {"fail", "crash"}
  PROVE  LoopInv("rmmod", do_one_rmmod(k, m, ub))
<1>1. CASE ~k.live
  BY <1>1 DEF do_one_rmmod
<1>2. CASE k.live /\ m \notin DOMAIN k.listed
  <2>1. CASE ub = "crash"
    BY <1>2, <2>1, FailedStep DEF do_one_rmmod
  <2>2. CASE ub # "crash"
    BY <1>2, <2>2, FailedStep DEF do_one_rmmod
  <2>. QED  BY <2>1, <2>2
<1>3. CASE k.live /\ m \in DOMAIN k.listed
  <2>1. PICK p : p = k.listed[m].path
    OBVIOUS
  <2>2. k.mapped[p].refs - 1 = 0
    BY <1>3, <2>1 DEF LoopInv, TableInv
  <2>3. do_one_rmmod(k, m, ub) = Answered([k EXCEPT !.mapped = Without(@, p),
                                                    !.listed = Without(@, m)], m, TRUE)
    BY <1>3, <2>1, <2>2 DEF do_one_rmmod
  <2>. QED  BY <1>3, <2>1, <2>3, UnloadedStep
<1>. QED  BY <1>1, <1>2, <1>3

\* No step of either loop breaks it.
LEMMA ModuleStep ==
  ASSUME NEW method \in {"insmod", "rmmod"}, NEW k, LoopInv(method, k), NEW m \in Module,
         NEW k2 \in OneModule(method, k, m)
  PROVE  LoopInv(method, k2)
<1>1. CASE method = "insmod"
  <2>1. PICK f \in Installed[m] : k2 = do_one_insmod(k, m, f[1], f[2])
    BY <1>1 DEF OneModule
  <2>. QED  BY <1>1, <2>1, InsmodStep
<1>2. CASE method = "rmmod"
  <2>1. PICK ub \in {"fail", "crash"} : k2 = do_one_rmmod(k, m, ub)
    BY <1>2 DEF OneModule
  <2>. QED  BY <1>2, <2>1, RmmodStep
<1>. QED  BY <1>1, <1>2

-----------------------------------------------------------------------------
(* The loop over the names of a request.                                    *)

\* f is the tables there may be after each of the first l names.
ModuleLoop(method, names, l, f) ==
  f = [n \in 0 .. l |-> IF n = 0 THEN {Table}
                        ELSE UNION {OneModule(method, k, names[n]) : k \in f[n - 1]}]

\* The loop can be run over any number of names.
LEMMA ModuleLoopExists ==
  ASSUME NEW method, NEW names, NEW l \in Nat
  PROVE  \E f : ModuleLoop(method, names, l, f)
<1>. DEFINE T == {n \in Nat : ~\E f : ModuleLoop(method, names, n, f)}
            Step(n, S) == UNION {OneModule(method, k, names[n]) : k \in S}
<1>. SUFFICES ASSUME T # {} PROVE FALSE
  OBVIOUS
<1>1. PICK x \in T : \A y \in T : x <= y
  BY LeastElement
<1>2. x # 0
  <2>1. ModuleLoop(method, names, 0, [n \in 0 .. 0 |-> {Table}])
    BY DEF ModuleLoop
  <2>. QED  BY <2>1
<1>3. PICK f : ModuleLoop(method, names, x - 1, f)
  BY <1>1, <1>2
<1>. DEFINE g == [n \in 0 .. x |-> IF n = x THEN Step(x, f[x - 1]) ELSE f[n]]
<1>4. \A n \in 0 .. x : g[n] = IF n = 0 THEN {Table} ELSE Step(n, g[n - 1])
  <2>1. \A n \in 0 .. x - 1 : f[n] = IF n = 0 THEN {Table} ELSE Step(n, f[n - 1])
    BY <1>3 DEF ModuleLoop
  <2>2. \A n \in 0 .. x : n # x => n \in 0 .. x - 1
    OBVIOUS
  <2>3. \A n \in 0 .. x : n # 0 => n - 1 \in 0 .. x /\ n - 1 # x
    OBVIOUS
  <2>4. x - 1 \in 0 .. x /\ g[x - 1] = f[x - 1] /\ g[x] = Step(x, f[x - 1])
    <3>. HIDE DEF Step
    <3>. QED  BY <1>2
  <2>5. \A n \in 0 .. x : n # x => g[n] = f[n]
    OBVIOUS
  <2>. HIDE DEF g, Step
  <2>. QED  BY <1>2, <2>1, <2>2, <2>3, <2>4, <2>5
<1>5. ModuleLoop(method, names, x, g)
  <2>1. g = [n \in 0 .. x |-> g[n]]
    OBVIOUS
  <2>2. g = [n \in 0 .. x |-> IF n = 0 THEN {Table} ELSE Step(n, g[n - 1])]
    <3>. HIDE DEF g, Step
    <3>. QED  BY <1>4, <2>1
  <2>. HIDE DEF g
  <2>. QED  BY <2>2 DEF ModuleLoop
<1>. QED  BY <1>1, <1>5

\* Every table it may leave satisfies the invariant.
LEMMA ModuleLoopResult ==
  ASSUME TableInv(Table), NEW method \in {"insmod", "rmmod"}, NEW names \in Seq(Module),
         NEW k \in EachModule(method, names)
  PROVE  LoopInv(method, k)
<1>. DEFINE l == Len(names)
            after == CHOOSE f : ModuleLoop(method, names, l, f)
<1>0. l \in Nat
  OBVIOUS
<1>1. EachModule(method, names) = after[l]
  BY DEF EachModule, ModuleLoop
<1>2. ModuleLoop(method, names, l, after)
  BY <1>0, ModuleLoopExists
<1>. HIDE DEF after, l
<1>3. \A n \in 0 .. l : after[n] = IF n = 0 THEN {Table}
                                   ELSE UNION {OneModule(method, t, names[n]) : t \in after[n - 1]}
  BY <1>2 DEF ModuleLoop
<1>4. LoopInv(method, Table)
  BY DEF LoopInv, IsTable, ResultsTrue, Table
<1>. DEFINE Good(n) == \A t \in after[n] : LoopInv(method, t)
            T == {n \in 0 .. l : ~Good(n)}
<1>5. T = {}
  <2>. SUFFICES ASSUME T # {} PROVE FALSE
    OBVIOUS
  <2>0. T \in SUBSET Nat
    BY <1>0
  <2>1. PICK x \in T : \A y \in T : x <= y
    <3>. HIDE DEF T
    <3>. QED  BY <2>0, LeastElement
  <2>2. 0 \in 0 .. l => Good(0)
    BY <1>3, <1>4
  <2>3. x # 0
    BY <2>2
  <2>4. x - 1 \in 0 .. l /\ x \in 1 .. l /\ x - 1 \notin T /\ names[x] \in Module
    <3>1. x \in 0 .. l
      OBVIOUS
    <3>. QED  BY <1>0, <2>1, <2>3, <3>1 DEF l
  <2>5. Good(x - 1)
    BY <2>4
  <2>6. Good(x)
    <3>. SUFFICES ASSUME NEW t \in after[x] PROVE LoopInv(method, t)
      OBVIOUS
    <3>1. after[x] = UNION {OneModule(method, s, names[x]) : s \in after[x - 1]}
      BY <1>3, <2>3
    <3>2. PICK s \in after[x - 1] : t \in OneModule(method, s, names[x])
      BY <3>1
    <3>. QED  BY <2>4, <2>5, <3>2, ModuleStep
  <2>. QED  BY <2>6
<1>6. l \in 0 .. l
  BY <1>0
<1>. QED  BY <1>1, <1>5, <1>6

-----------------------------------------------------------------------------
(* The state.                                                               *)

\* The connections: while a request waits to be handled there is nothing to
\* read on it yet, and what the daemon is to read is a request.
ConnInv ==
  /\ up \in BOOLEAN /\ stale \subseteq Fd
  /\ pc \in [Client -> {"idle", "wait", "gone"}]
  /\ DOMAIN req = Client /\ \A c \in Client : req[c] \in Requests[c] \cup {Nil}
  /\ sock \in [Client -> Fd \cup {Backlog, Nil}]
  /\ rx \in [Client -> {"none", "whole", "eof"}]
  /\ DOMAIN tx = Client /\ \A c \in Client : req[c] # Nil => tx[c] = <<>>
  /\ \A c \in Client : rx[c] = "whole" => req[c] # Nil

IndInv == ConnInv /\ TableInv(Table)

\* What the invariant says of the variables.
LEMMA TableFields ==
  ASSUME TableInv(Table)
  PROVE  /\ ListedIsTrusted /\ RefsBalanced
         /\ DOMAIN listed \subseteq Module /\ DOMAIN mapped \subseteq Fd /\ leaked \subseteq Fd
         /\ \A m \in DOMAIN listed : listed[m].path \in Fd /\ listed[m].obj \in Payloads
         /\ \A fd \in DOMAIN mapped : mapped[fd].obj \in Payloads /\ mapped[fd].refs \in Nat \ {0}
<1>1. /\ DOMAIN listed \subseteq Module /\ DOMAIN mapped \subseteq Fd /\ leaked \subseteq Fd
      /\ \A m \in DOMAIN listed :
           /\ Trusted(m, listed[m].obj)
           /\ listed[m].path \in DOMAIN mapped
           /\ mapped[listed[m].path].obj = listed[m].obj
      /\ \A m, n \in DOMAIN listed : listed[m].path = listed[n].path => m = n
      /\ \A path \in DOMAIN mapped :
           /\ mapped[path].refs = 1
           /\ \E m \in DOMAIN listed : listed[m].path = path
  BY DEF TableInv, Table
<1>2. ListedIsTrusted
  BY <1>1 DEF ListedIsTrusted, Trusted
<1>3. \A m \in DOMAIN listed : listed[m].path \in Fd /\ listed[m].obj \in Payloads
  BY <1>1 DEF Trusted
<1>4. ASSUME NEW fd \in DOMAIN mapped
      PROVE  mapped[fd].obj \in Payloads /\ mapped[fd].refs \in Nat \ {0}
  <2>1. PICK m \in DOMAIN listed : listed[m].path = fd
    BY <1>1
  <2>2. mapped[fd].obj = listed[m].obj /\ listed[m].obj \in Payloads
    BY <1>1, <1>3, <2>1
  <2>3. mapped[fd].refs = 1
    BY <1>1
  <2>. QED  BY <2>2, <2>3
<1>5. ASSUME NEW path \in DOMAIN mapped
      PROVE  mapped[path].refs = Cardinality({m \in DOMAIN listed : listed[m].path = path})
  <2>1. PICK m \in DOMAIN listed : listed[m].path = path
    BY <1>1
  <2>2. {n \in DOMAIN listed : listed[n].path = path} = {m}
    BY <1>1, <2>1
  <2>3. Cardinality({m}) = 1
    BY FS_Singleton
  <2>. QED  BY <1>1, <2>2, <2>3
<1>6. RefsBalanced
  BY <1>1, <1>5 DEF RefsBalanced
<1>. QED  BY <1>1, <1>2, <1>3, <1>4, <1>6

\* The invariant implies the types.
LEMMA Types ==
  ASSUME IndInv
  PROVE  TypeOK
<1>1. TableInv(Table) /\ ConnInv
  BY DEF IndInv
<1>. QED  BY <1>1, TableFields DEF TypeOK, ConnInv

\* The first line a client of lsmod, status or mod may read is no answer to
\* insmod or rmmod, even where the end of a long answer is lost.
OtherAnswer(lines) ==
  /\ lines \in Seq({lines[i] : i \in DOMAIN lines}) /\ lines # <<>>
  /\ lines[1].tag \notin {"insmod", "rmmod"}

\* Whatever part of such an answer arrives starts with the same line.
LEMMA OtherSent ==
  ASSUME NEW lines, OtherAnswer(lines), NEW s \in Sent(lines)
  PROVE  s[1].tag \notin {"insmod", "rmmod"}
<1>1. lines[1].tag \notin {"insmod", "rmmod"}
  BY DEF OtherAnswer
<1>2. CASE s = lines
  BY <1>1, <1>2
<1>3. CASE s # lines
  <2>. DEFINE S == {lines[i] : i \in DOMAIN lines} \cup {Cut}
  <2>1. PICK n \in 0 .. Len(lines) - 1 : s = SubSeq(lines, 1, n) \o <<Cut>>
    BY <1>3 DEF Sent
  <2>2. lines \in Seq(S) /\ Cut \in S /\ Len(lines) \in Nat
    BY DEF OtherAnswer
  <2>3. SubSeq(lines, 1, n) \in Seq(S) /\ Len(SubSeq(lines, 1, n)) = n
        /\ (n > 0 => SubSeq(lines, 1, n)[1] = lines[1])
    <3>. HIDE DEF S
    <3>. QED  BY <2>1, <2>2
  <2>4. s[1] = lines[1] \/ s[1] = Cut
    <3>. HIDE DEF S
    <3>. QED  BY <2>1, <2>2, <2>3
  <2>5. Cut.tag = "cut"
    BY DEF Cut, Line
  <2>. QED  BY <1>1, <2>4, <2>5
<1>. QED  BY <1>2, <1>3

\* One line that has another tag.
LEMMA OtherLine ==
  ASSUME NEW tag, NEW body, tag \notin {"insmod", "rmmod"}
  PROVE  OtherAnswer(<<Line(tag, body)>>)
BY DEF OtherAnswer, Line

\* The answer of a module's function, with the lines of its log.
LEMMA ModAnswer ==
  ASSUME NEW m, NEW more \in handle_log(ops_mod(m))
  PROVE  OtherAnswer(<<ops_mod(m)>> \o more)
<1>. DEFINE S == {ops_mod(m), Line("log", "record")}
            lines == <<ops_mod(m)>> \o more
<1>1. ops_mod(m).tag = "mod"
  BY DEF ops_mod, Line
<1>2. more \in Seq({Line("log", "record")})
  <2>1. CASE more = <<>>
    BY <2>1
  <2>2. CASE more # <<>>
    <3>1. PICK n \in 0 .. MaxEvents : more = [i \in 1 .. n + 1 |-> Line("log", "record")]
      BY <2>2 DEF handle_log
    <3>2. n + 1 \in Nat
      BY CtforgedAssumption
    <3>. QED  BY <3>1, <3>2
  <2>. QED  BY <2>1, <2>2
<1>3. lines \in Seq(S) /\ Len(lines) = 1 + Len(more) /\ lines[1] = ops_mod(m)
      /\ Len(more) \in Nat
  <2>1. \A a, b : more \in Seq({b}) =>
          /\ <<a>> \o more \in Seq({a, b}) /\ Len(<<a>> \o more) = 1 + Len(more)
          /\ (<<a>> \o more)[1] = a /\ Len(more) \in Nat
    OBVIOUS
  <2>. QED  BY <1>2, <2>1
<1>. HIDE DEF lines, S
<1>4. lines \in Seq({lines[i] : i \in DOMAIN lines}) /\ lines # <<>>
  BY <1>3
<1>5. OtherAnswer(lines)
  BY <1>1, <1>3, <1>4 DEF OtherAnswer
<1>. QED  BY <1>5 DEF lines

\* A request that is handled: the table it leaves and what it says of it.
LEMMA HandledTables ==
  ASSUME TableInv(Table), NEW r \in [method : STRING, names : Seq(Module), long : BOOLEAN],
         NEW h \in Handled(r)
  PROVE  /\ TableInv(h[1])
         /\ \/ /\ r.method \in {"insmod", "rmmod"} /\ LoopInv(r.method, h[1])
               /\ h[2] = <<Line(r.method, h[1].results)>>
            \/ /\ h[1] = Table /\ OtherAnswer(h[2])
<1>1. r.names \in Seq(Module)
  OBVIOUS
<1>2. CASE r.method = "insmod"
  <2>1. PICK k \in EachModule("insmod", r.names) : h = <<k, <<Line("insmod", k.results)>> >>
    BY <1>2 DEF Handled, ops_insmod
  <2>2. LoopInv("insmod", k)
    BY <1>1, <2>1, ModuleLoopResult
  <2>. QED  BY <1>2, <2>1, <2>2 DEF LoopInv
<1>3. CASE r.method = "rmmod"
  <2>1. PICK k \in EachModule("rmmod", r.names) : h = <<k, <<Line("rmmod", k.results)>> >>
    BY <1>3 DEF Handled, ops_rmmod
  <2>2. LoopInv("rmmod", k)
    BY <1>1, <2>1, ModuleLoopResult
  <2>. QED  BY <1>3, <2>1, <2>2 DEF LoopInv
<1>4. CASE r.method \notin {"insmod", "rmmod"}
  <2>. SUFFICES h[1] = Table /\ OtherAnswer(h[2])
    OBVIOUS
  <2>1. CASE r.method = "lsmod"
    <3>1. PICK b : ops_lsmod = Line("lsmod", b)
      BY DEF ops_lsmod
    <3>. QED  BY <2>1, <3>1, OtherLine DEF Handled
  <2>2. CASE r.method = "status"
    BY <2>2, OtherLine DEF Handled, ops_status
  <2>3. CASE r.method = "mod"
    <3>1. PICK more \in handle_log(ops_mod(r.names[1])) :
            h = <<Table, <<ops_mod(r.names[1])>> \o more>>
      BY <2>3 DEF Handled
    <3>2. OtherAnswer(<<ops_mod(r.names[1])>> \o more)
      BY <3>1, ModAnswer
    <3>. QED  BY <3>1, <3>2
  <2>4. CASE r.method \notin {"lsmod", "status", "mod"}
    <3>1. h = <<Table, <<Line("error", "method not found")>> >>
      BY <1>4, <2>4 DEF Handled
    <3>. QED  BY <3>1, OtherLine
  <2>. QED  BY <2>1, <2>2, <2>3, <2>4
<1>. QED  BY <1>2, <1>3, <1>4
-----------------------------------------------------------------------------
(* The steps.                                                               *)

\* What AnswerIsTrue says of one step.
TrueAnswers ==
  up' =>
     /\ \A c \in Client :
          /\ \A a \in Answers(c, "insmod") : a.ok => a.mod \in DOMAIN listed'
          /\ \A a \in Answers(c, "rmmod") : a.ok => a.mod \notin DOMAIN listed'
     /\ \A m \in DOMAIN listed' \ DOMAIN listed : AskedBy(m, "insmod")
     /\ \A m \in DOMAIN listed \ DOMAIN listed' : AskedBy(m, "rmmod")

StepGood == IndInv' /\ TrueAnswers

\* A step that leaves the table alone and sends nothing.
LEMMA QuietStep ==
  ASSUME IndInv, ConnInv', UNCHANGED table,
         \A c \in Client : tx'[c] = tx[c] \/ tx'[c] = <<>>
  PROVE  StepGood
<1>1. TableInv(Table)'
  BY DEF IndInv, table, TableInv, Table
<1>2. \A method : \A c \in Client : Answers(c, method) = {}
  BY DEF Answers
<1>3. TrueAnswers
  BY <1>2 DEF TrueAnswers, table
<1>. QED  BY <1>1, <1>3 DEF StepGood, IndInv

\* A client that connects finds the table as it is.
LEMMA ConnectStep ==
  ASSUME IndInv, NEW c \in Client, NEW r \in Requests[c], Connect(c, r)
  PROVE  StepGood
<1>1. ConnInv /\ r # Nil /\ Backlog \in Fd \cup {Backlog, Nil}
  BY RequestsAssumption DEF IndInv
<1>2. ConnInv'
  BY <1>1 DEF ConnInv, Connect
<1>3. UNCHANGED table /\ \A d \in Client : tx'[d] = tx[d] \/ tx'[d] = <<>>
  BY <1>1 DEF ConnInv, Connect
<1>. QED  BY <1>2, <1>3, QuietStep

\* Clients send, read, give up and leave; the table is the server's.
LEMMA ClientStep ==
  ASSUME IndInv, Clients
  PROVE  StepGood
<1>1. PICK c \in Client : \/ \E r \in Requests[c] : CtlConnect(c, r) \/ BridgeConnect(c, r)
                          \/ CtlRead(c) \/ BridgeLine(c)
                          \/ CtlLeave(c) \/ BridgeTimeout(c)
  BY DEF Clients
<1>0. ConnInv
  BY DEF IndInv
<1>2. CASE \E r \in Requests[c] : CtlConnect(c, r) \/ BridgeConnect(c, r)
  <2>1. PICK r \in Requests[c] : CtlConnect(c, r) \/ BridgeConnect(c, r)
    BY <1>2
  <2>2. CASE Connect(c, r)
    BY <2>2, ConnectStep
  <2>3. CASE ~Connect(c, r)
    <3>1. UNCHANGED <<up, table, stale, pc, req, sock, rx, tx>>
      BY <2>1, <2>3 DEF CtlConnect, BridgeConnect
    <3>2. ConnInv'
      BY <1>0, <3>1 DEF ConnInv
    <3>. QED  BY <3>1, <3>2, QuietStep
  <2>. QED  BY <2>2, <2>3
<1>3. CASE CtlRead(c) \/ BridgeLine(c)
  <2>1. ConnInv'
    BY <1>0, <1>3 DEF ConnInv, CtlRead, BridgeLine
  <2>2. UNCHANGED table /\ \A d \in Client : tx'[d] = tx[d] \/ tx'[d] = <<>>
    BY <1>0, <1>3 DEF ConnInv, CtlRead, BridgeLine
  <2>. QED  BY <2>1, <2>2, QuietStep
<1>4. CASE CtlLeave(c) \/ BridgeTimeout(c)
  <2>1. Leave(c)
    BY <1>4 DEF CtlLeave, BridgeTimeout
  <2>2. ConnInv'
    BY <1>0, <2>1 DEF ConnInv, Leave
  <2>. QED  BY <2>1, <2>2, QuietStep DEF Leave
<1>. QED  BY <1>1, <1>2, <1>3, <1>4

\* Accepting a connection touches no module.
LEMMA NewConnectionStep ==
  ASSUME IndInv, NEW c \in Client, on_new_connection(c)
  PROVE  StepGood
<1>. DEFINE free == Fd \ InUse(Table)
            s == IF free = {} THEN Nil ELSE Min(free)
<1>0. ConnInv
  BY DEF IndInv
<1>1. s \in Fd \cup {Backlog, Nil}
  BY LowestFree
<1>2. /\ sock' = [sock EXCEPT ![c] = s]
      /\ \/ pc' = [pc EXCEPT ![c] = IF @ = "gone" THEN "idle" ELSE @]
            /\ rx' = [rx EXCEPT ![c] = "none"]
            /\ req' = [req EXCEPT ![c] = Nil]
         \/ UNCHANGED <<pc, rx, req>>
      /\ UNCHANGED <<up, table, stale, tx, said>>
  BY DEF on_new_connection
<1>. HIDE DEF s
<1>3. ConnInv'
  BY <1>0, <1>1, <1>2 DEF ConnInv
<1>. QED  BY <1>2, <1>3, QuietStep

\* A client that went away is noticed by its read.
LEMMA ReadEofStep ==
  ASSUME IndInv, NEW c \in Client, ReadEof(c)
  PROVE  StepGood
<1>0. ConnInv
  BY DEF IndInv
<1>1. ConnInv'
  BY <1>0 DEF ConnInv, ReadEof
<1>. QED  BY <1>1, QuietStep DEF ReadEof

\* The agent's probe connects and closes; the table is as before.
LEMMA ProbeStep ==
  ASSUME IndInv, ctforge_probe
  PROVE  StepGood
<1>0. ConnInv
  BY DEF IndInv
<1>1. Min(Fd \ InUse(Table)) \in Fd
  BY LowestFree DEF ctforge_probe
<1>2. ConnInv'
  BY <1>0, <1>1 DEF ConnInv, ctforge_probe
<1>. QED  BY <1>2, QuietStep DEF ctforge_probe

\* A restarted server starts with an empty table.
LEMMA RestartStep ==
  ASSUME IndInv, Restart
  PROVE  StepGood
<1>0. ConnInv
  BY DEF IndInv
<1>1. ConnInv'
  BY <1>0 DEF ConnInv, Restart, conns
<1>. QED  BY <1>1, QuietStep DEF Restart, conns

\* A request that is too long is dropped unread.
LEMMA DropLongStep ==
  ASSUME IndInv, NEW c \in Client, DropLong(c)
  PROVE  StepGood
<1>0. ConnInv
  BY DEF IndInv
<1>1. ConnInv'
  BY <1>0 DEF ConnInv, DropLong
<1>. QED  BY <1>1, QuietStep DEF DropLong

\* A table with nothing in it.
LEMMA EmptyTable ==
  TableInv([listed |-> <<>>, mapped |-> <<>>, leaked |-> {}, live |-> TRUE, results |-> <<>>])
<1>1. DOMAIN <<>> = {}
  OBVIOUS
<1>. QED  BY <1>1 DEF TableInv

\* A server that dies takes its table and its connections with it.
LEMMA DieStep ==
  ASSUME IndInv, Die
  PROVE  StepGood
<1>0. ConnInv
  BY DEF IndInv
<1>1. ConnInv'
  BY <1>0 DEF ConnInv, Die
<1>2. TableInv(Table)'
  <2>1. Table' = [listed |-> <<>>, mapped |-> <<>>, leaked |-> {}, live |-> TRUE, results |-> <<>>]
    BY DEF Table, Die
  <2>2. \A k : k = Table' => (TableInv(k) => TableInv(Table)')
    BY DEF TableInv
  <2>. QED  BY <2>1, <2>2, EmptyTable
<1>3. TrueAnswers
  BY DEF TrueAnswers, Die
<1>. QED  BY <1>1, <1>2, <1>3 DEF StepGood, IndInv

\* What the client of a request may find in its answer.
LEMMA AnswerLine ==
  ASSUME NEW c \in Client, NEW method, NEW results, tx[c] = <<>>,
         tx'[c] = <<Line(method, results)>>
  PROVE  /\ Answers(c, method) = {results[i] : i \in DOMAIN results}
         /\ \A other : other # method => Answers(c, other) = {}
<1>1. tx'[c] # tx[c] /\ tx'[c] # <<>> /\ tx'[c][1] = [tag |-> method, body |-> results]
  BY DEF Line
<1>. QED  BY <1>1 DEF Answers

\* A request that is handled and answered.
LEMMA AnswerStep ==
  ASSUME IndInv, NEW c \in Client, rx[c] = "whole", AnswerAndClose(c)
  PROVE  StepGood
<1>0. ConnInv /\ TableInv(Table)
  BY DEF IndInv
<1>1. req[c] \in [method : STRING, names : Seq(Module), long : BOOLEAN] /\ req[c] # Nil
  BY <1>0, RequestsAssumption DEF ConnInv
<1>2. PICK h \in Handled(req[c]) :
       IF ~h[1].live THEN Die
       ELSE /\ listed' = h[1].listed /\ mapped' = h[1].mapped
            /\ leaked' = h[1].leaked
            /\ sock' = [sock EXCEPT ![c] = Nil]
            /\ rx' = [rx EXCEPT ![c] = "none"]
            /\ req' = [req EXCEPT ![c] = Nil]
            /\ pc' = [pc EXCEPT ![c] = IF @ = "gone" THEN "idle" ELSE @]
            /\ \E lines \in Sent(h[2]) :
                 tx' = [tx EXCEPT ![c] = IF pc[c] = "gone" THEN <<>> ELSE lines]
            /\ UNCHANGED <<up, stale, said>>
  BY DEF AnswerAndClose
<1>3. CASE ~h[1].live
  BY <1>2, <1>3, DieStep
<1>4. CASE h[1].live
  <2>1. PICK lines \in Sent(h[2]) :
          /\ listed' = h[1].listed /\ mapped' = h[1].mapped /\ leaked' = h[1].leaked
          /\ sock' = [sock EXCEPT ![c] = Nil]
          /\ rx' = [rx EXCEPT ![c] = "none"]
          /\ req' = [req EXCEPT ![c] = Nil]
          /\ pc' = [pc EXCEPT ![c] = IF @ = "gone" THEN "idle" ELSE @]
          /\ tx' = [tx EXCEPT ![c] = IF pc[c] = "gone" THEN <<>> ELSE lines]
          /\ UNCHANGED <<up, stale, said>>
    BY <1>2, <1>4
  <2>2. ConnInv'
    BY <1>0, <2>1 DEF ConnInv
  <2>3. /\ TableInv(h[1])
        /\ \/ /\ req[c].method \in {"insmod", "rmmod"} /\ LoopInv(req[c].method, h[1])
              /\ h[2] = <<Line(req[c].method, h[1].results)>>
           \/ h[1] = Table /\ OtherAnswer(h[2])
    BY <1>0, <1>1, HandledTables
  <2>4. TableInv(Table)'
    BY <2>1, <2>3 DEF TableInv, Table
  <2>5. /\ tx[c] = <<>> /\ tx'[c] = (IF pc[c] = "gone" THEN <<>> ELSE lines)
        /\ \A d \in Client : d # c => tx'[d] = tx[d]
        /\ req'[c] = Nil
    BY <1>0, <1>1, <2>1 DEF ConnInv
  <2>6. \A method : \A d \in Client : d # c => Answers(d, method) = {}
    BY <2>5 DEF Answers
  <2>7. CASE h[1] = Table /\ OtherAnswer(h[2])
    <3>1. lines[1].tag \notin {"insmod", "rmmod"}
      BY <2>1, <2>7, OtherSent
    <3>2. Answers(c, "insmod") = {} /\ Answers(c, "rmmod") = {}
      BY <2>5, <3>1 DEF Answers
    <3>3. listed' = listed
      BY <2>1, <2>7 DEF Table
    <3>4. TrueAnswers
      BY <2>6, <3>2, <3>3 DEF TrueAnswers
    <3>. QED  BY <2>2, <2>4, <3>4 DEF StepGood, IndInv
  <2>8. CASE /\ req[c].method \in {"insmod", "rmmod"} /\ LoopInv(req[c].method, h[1])
             /\ h[2] = <<Line(req[c].method, h[1].results)>>
    <3>. DEFINE method == req[c].method
                results == h[1].results
                told == {results[i] : i \in DOMAIN results}
    <3>1. lines = <<Line(method, results)>>
      <4>1. h[2][1].tag = method /\ method # "mod"
        BY <2>8 DEF Line
      <4>2. Sent(h[2]) = {h[2]}
        BY <4>1 DEF Sent
      <4>. QED  BY <2>1, <2>8, <4>2
    <3>2. /\ pc[c] # "gone" => Answers(c, method) = told
          /\ pc[c] = "gone" => Answers(c, method) = {}
          /\ \A other : other # method => Answers(c, other) = {}
      <4>1. CASE pc[c] = "gone"
        BY <2>5, <4>1 DEF Answers
      <4>2. CASE pc[c] # "gone"
        <5>1. tx'[c] = <<Line(method, results)>>
          BY <2>5, <3>1, <4>2
        <5>. HIDE DEF method, results
        <5>2. Answers(c, method) = told /\ \A other : other # method => Answers(c, other) = {}
          BY <2>5, <5>1, AnswerLine
        <5>. QED  BY <4>2, <5>2
      <4>. QED  BY <4>1, <4>2
    <3>3. /\ method = "insmod" =>
               /\ DOMAIN listed \subseteq DOMAIN listed'
               /\ \A a \in told : a.ok => a.mod \in DOMAIN listed'
               /\ \A m \in DOMAIN listed' \ DOMAIN listed : Result(m, TRUE) \in told
          /\ method = "rmmod" =>
               /\ DOMAIN listed' \subseteq DOMAIN listed
               /\ \A a \in told : a.ok => a.mod \notin DOMAIN listed'
               /\ \A m \in DOMAIN listed \ DOMAIN listed' : Result(m, TRUE) \in told
      <4>1. /\ method = "insmod" =>
                 /\ DOMAIN listed \subseteq DOMAIN listed'
                 /\ \A i \in DOMAIN results : results[i].ok => results[i].mod \in DOMAIN listed'
                 /\ \A m \in DOMAIN listed' \ DOMAIN listed :
                      \E i \in DOMAIN results : results[i] = Result(m, TRUE)
            /\ method = "rmmod" =>
                 /\ DOMAIN listed' \subseteq DOMAIN listed
                 /\ \A i \in DOMAIN results : results[i].ok => results[i].mod \notin DOMAIN listed'
                 /\ \A m \in DOMAIN listed \ DOMAIN listed' :
                      \E i \in DOMAIN results : results[i] = Result(m, TRUE)
        BY <2>1, <2>8 DEF LoopInv, ResultsTrue
      <4>. HIDE DEF method, results
      <4>. QED  BY <4>1
    <3>4. method \in {"insmod", "rmmod"}
      BY <2>8
    <3>5. \A m : Result(m, TRUE) \in told => AskedBy(m, method)
      BY <1>1, <2>5, <3>2 DEF AskedBy
    <3>. HIDE DEF method, results, told
    <3>6. TrueAnswers
      <4>1. CASE method = "insmod"
        BY <2>6, <3>2, <3>3, <3>5, <4>1 DEF TrueAnswers
      <4>2. CASE method = "rmmod"
        BY <2>6, <3>2, <3>3, <3>5, <4>2 DEF TrueAnswers
      <4>. QED  BY <3>4, <4>1, <4>2
    <3>. QED  BY <2>2, <2>4, <3>6 DEF StepGood, IndInv
  <2>. QED  BY <2>3, <2>7, <2>8
<1>. QED  BY <1>3, <1>4

-----------------------------------------------------------------------------
(* The theorems.                                                            *)

\* The table is empty at the start.
LEMMA InitIndInv ==
  ASSUME Init
  PROVE  IndInv
<1>1. ConnInv
  BY DEF Init, ConnInv
<1>2. Table = [listed |-> <<>>, mapped |-> <<>>, leaked |-> {}, live |-> TRUE, results |-> <<>>]
  BY DEF Init, Table
<1>. QED  BY <1>1, <1>2, EmptyTable DEF IndInv

\* Every step keeps the invariant and answers what the table says.
LEMMA NextGood ==
  ASSUME IndInv, Next
  PROVE  StepGood
<1>1. ASSUME NEW c \in Client, Serve(c) PROVE StepGood
  <2>1. CASE do_per_request(c)
    <3>1. rx[c] = "whole" /\ (DropLong(c) \/ AnswerAndClose(c))
      BY <2>1 DEF do_per_request
    <3>. QED  BY <3>1, DropLongStep, AnswerStep
  <2>. QED  BY <1>1, <2>1, NewConnectionStep, ReadEofStep DEF Serve
<1>. QED  BY <1>1, ClientStep, ProbeStep, RestartStep DEF Next

\* The inductive invariant holds in every state of the request server.
THEOREM Invariance == Spec => []IndInv
<1>1. Init => IndInv
  BY InitIndInv
<1>2. IndInv /\ [Next]_vars => IndInv'
  <2>1. CASE Next
    BY <2>1, NextGood DEF StepGood
  <2>2. CASE UNCHANGED vars
    BY <2>2 DEF IndInv, ConnInv, TableInv, Table, vars
  <2>. QED  BY <2>1, <2>2
<1>. QED  BY <1>1, <1>2, PTL DEF Spec

\* Type correctness of the request server (server.c, payload.c).
THEOREM TypeCorrect == Spec => []TypeOK
<1>1. IndInv => TypeOK
  BY Types
<1>. QED  BY <1>1, Invariance, PTL

\* do_one_insmod lists no module whose code has not passed the signature check,
\* although dlopen may return an object that is already loaded under a path.
THEOREM TrustSafety == Spec => []ListedIsTrusted
<1>1. IndInv => ListedIsTrusted
  BY TableFields DEF IndInv
<1>. QED  BY <1>1, Invariance, PTL

\* dlopen and dlclose of do_one_insmod and do_one_rmmod balance.
THEOREM RefsSafety == Spec => []RefsBalanced
<1>1. IndInv => RefsBalanced
  BY TableFields DEF IndInv
<1>. QED  BY <1>1, Invariance, PTL

\* The signature check accepts what it should and what create_section makes,
\* for every object, of any number of sections.
THEOREM SignatureSafety == Spec => []SignatureCheckIsRight
<1>1. \A p \in Objects : VerdictIsRight(p) /\ SigningPasses(p)
  BY CtforgedAssumption, Verdict, Signing
<1>2. IndInv => SignatureCheckIsRight
  BY <1>1 DEF SignatureCheckIsRight
<1>. QED  BY <1>2, Invariance, PTL

\* The answers of ops_insmod and ops_rmmod are true when they are sent, and a
\* module comes and goes in no other way.
THEOREM AnswersAreTrue == Spec => AnswerIsTrue
<1>1. IndInv /\ [Next]_vars => [TrueAnswers]_vars
  BY NextGood DEF StepGood
<1>. QED  BY <1>1, Invariance, PTL DEF Spec, AnswerIsTrue, TrueAnswers

=============================================================================

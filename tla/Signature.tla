----------------------------- MODULE Signature -----------------------------
(***************************************************************************)
(* signature.c: may a payload be loaded?  A payload carries a signature    *)
(* header at its end; an eBPF object also carries one SIGN_<name> section  *)
(* per program section.  Each check exists twice, for a file and for a     *)
(* buffer in memory.                                                       *)
(*                                                                         *)
(* A payload is a record.  size says how much of it there is: "tiny" lacks *)
(* an ELF header, "short" lacks room for the signature header, "full" has  *)
(* both.  A section name is a sequence of its parts, <<"SIGN_", "prog">>.  *)
(* Cryptography is external: the only valid signature of data d is        *)
(* sm2_sign(d), read with the key of public.pem.                           *)
(***************************************************************************)
EXTENDS Naturals, Sequences

CONSTANT Part    \* what names and data are put together from

ASSUME PartAssumption == {"SIGN_", "signature"} \subseteq Part

Bytes == Seq(Part)
SectionType == [name : Bytes, data : Bytes]

\* Content of a section with d_size = 0.
Empty == <<>>

\* The signature of d under the key pair.
sm2_sign(d) == <<"signature">> \o d

\* sm2_verify returns 0: the key file is readable and sig is the signature.
sm2_verify(d, key, sig) == key /\ sig = sm2_sign(d)

IsDot(name)  == name # <<>> /\ name[1] = "."
IsSign(name) == name # <<>> /\ name[1] = "SIGN_"

\* snprintf to 256 bytes: the names here are those that fit, of at most 250 bytes.
SignName(name) == <<"SIGN_">> \o name

\* Indices of the sections with a name, in the order elf_nextscn visits them.
Named(secs, name) == {i \in DOMAIN secs : secs[i].name = name}

section_exists(secs, name) == Named(secs, name) # {}

\* get_section_content: the first section of that name; NULL data when empty.
get_section_content(secs, name) ==
  LET first == CHOOSE i \in Named(secs, name) :
                 \A j \in Named(secs, name) : i <= j
  IN  secs[first].data

\* elf_newscn adds the section after the others; a name is not looked up.
create_section(secs, name, data) == Append(secs, [name |-> name, data |-> data])

\* What a signing tool does with them: a SIGN_ section for every program section.
WithSignatures(secs) ==
  LET after[n \in 0 .. Len(secs)] ==
        IF n = 0 THEN secs
        ELSE IF IsDot(secs[n].name) \/ IsSign(secs[n].name) THEN after[n - 1]
        ELSE create_section(after[n - 1], SignName(secs[n].name), sm2_sign(secs[n].data))
  IN  after[Len(secs)]

\* The body of the loop of do_verify_ebpf_section_sign for one section.
SectionVerified(secs, name, key) ==
  /\ section_exists(secs, SignName(name))
  /\ get_section_content(secs, name) # Empty
  /\ get_section_content(secs, SignName(name)) # Empty
  /\ sm2_verify(get_section_content(secs, name), key,
                get_section_content(secs, SignName(name)))

\* list_sections fails on an object libelf cannot read; the loop stops at the
\* first section that fails, and at least one SIGN_ section must have been seen.
do_verify_ebpf_section_sign(p, key) ==
  /\ p.parses
  /\ \A i \in DOMAIN p.sections :
       LET name == p.sections[i].name
       IN  IsDot(name) \/ IsSign(name) \/ SectionVerified(p.sections, name, key)
  /\ \E i \in DOMAIN p.sections : IsSign(p.sections[i].name)

\* is_tail_signed ends the process when there is no room for the header.
is_tail_signed(p) == IF p.size # "full" THEN "exit"
                     ELSE IF p.flag THEN "yes" ELSE "no"

\* A sign_len larger than the header makes the verification read past the
\* buffer load_file returned: it fails, or the process crashes.  ub names the
\* outcome.  A valid signature has a length that fits.
do_verify_tail_sign(p, key, ub) ==
  IF is_tail_signed(p) = "exit" THEN "exit"
  ELSE IF is_tail_signed(p) = "no" THEN "fail"
  ELSE IF p.sign_len = "over" THEN ub
  ELSE IF p.sign_len = "fits" /\ sm2_verify(p.body, key, p.sign) THEN "ok"
  ELSE "fail"

\* The tail is checked whatever the sections gave.
do_safty_verify_sign(p, key, ub) ==
  IF p.size = "tiny" \/ ~p.magic THEN "fail"
  ELSE LET tail == do_verify_tail_sign(p, key, ub)
       IN  IF tail = "ok" /\ p.ebpf /\ ~do_verify_ebpf_section_sign(p, key)
           THEN "fail" ELSE tail

-----------------------------------------------------------------------------
(* The variants for a buffer in memory.                                     *)

\* Each section is read through its own handle, not looked up by name, and a
\* section without a name is skipped.
do_verify_ebpf_section_sign_from_mem(p, key) ==
  /\ p.parses
  /\ \A i \in DOMAIN p.sections :
       LET s == p.sections[i]
           sign == SignName(s.name)
       IN  \/ s.name = <<>> \/ IsDot(s.name) \/ IsSign(s.name)
           \/ /\ section_exists(p.sections, sign)
              /\ s.data # Empty
              /\ get_section_content(p.sections, sign) # Empty
              /\ sm2_verify(s.data, key, get_section_content(p.sections, sign))
  /\ \E i \in DOMAIN p.sections : IsSign(p.sections[i].name)

\* Mutant: the length is not checked.
do_verify_tail_sign_any_length(p, key) ==
  p.size = "full" /\ sm2_verify(p.body, key, p.sign)

\* The length is checked, the flag is not.
do_verify_tail_sign_from_mem(p, key) ==
  /\ p.size = "full"
  /\ p.sign_len = "fits"
  /\ sm2_verify(p.body, key, p.sign)

do_safety_verify_sign_from_mem(p, key) ==
  /\ p.size # "tiny" /\ p.magic
  /\ p.ebpf => do_verify_ebpf_section_sign_from_mem(p, key)
  /\ do_verify_tail_sign_from_mem(p, key)

-----------------------------------------------------------------------------
(* What the checks are for.                                                 *)

Certified(p, key) ==
  /\ p.size = "full" /\ p.magic /\ key
  /\ p.sign_len = "fits" /\ p.sign = sm2_sign(p.body)
  /\ p.ebpf =>
       /\ p.parses
       /\ \E i \in DOMAIN p.sections : IsSign(p.sections[i].name)
       /\ \A i \in DOMAIN p.sections :
            LET s == p.sections[i]
            IN  \/ IsDot(s.name) \/ IsSign(s.name)
                \/ /\ s.data # Empty
                   /\ \E j \in DOMAIN p.sections :
                        p.sections[j] = [name |-> SignName(s.name),
                                         data |-> sm2_sign(s.data)]

\* The sections of an object a compiler made have names, each its own.
WellNamed(p) ==
  /\ \A i \in DOMAIN p.sections : p.sections[i].name # <<>>
  /\ \A i, j \in DOMAIN p.sections : p.sections[i].name = p.sections[j].name => i = j

\* The file check accepts exactly the certified payloads that carry the flag
\* (do_safty_verify_sign), and the check in memory exactly the certified ones
\* (do_safety_verify_sign_from_mem): the two copies of the code agree.
VerdictIsRight(p) ==
  WellNamed(p) => \A key \in BOOLEAN :
    /\ \A ub \in {"fail", "crash"} :
         do_safty_verify_sign(p, key, ub) = "ok" <=> p.flag /\ Certified(p, key)
    /\ do_safety_verify_sign_from_mem(p, key) <=> Certified(p, key)

\* Sections signed through create_section pass do_verify_ebpf_section_sign,
\* when there is a program section and none of them is empty.
SigningPasses(p) ==
  /\ WellNamed(p) /\ p.parses
  /\ \A i \in DOMAIN p.sections : p.sections[i].data # Empty /\ ~IsSign(p.sections[i].name)
  /\ \E i \in DOMAIN p.sections : ~IsDot(p.sections[i].name)
  => do_verify_ebpf_section_sign([p EXCEPT !.sections = WithSignatures(@)], TRUE)
=============================================================================

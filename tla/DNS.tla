-------------------------------- MODULE DNS --------------------------------
(***************************************************************************)
(* The DNS message builder and reader: the compressor and decompressor of  *)
(* domain names (net/dns/utils), the header, question and resource record  *)
(* encodings (net/dns/proto) on top of the byte serializers (ser.h).       *)
(*                                                                         *)
(* The message is the sequence of octets written so far; a position counts *)
(* octets from 0, and the memory behind the end is zeroed, as in the       *)
(* repository's tests.  Domain names are sequences of octets with dots.    *)
(* A caller prepares a name, learns the space it needs, and then either    *)
(* compresses it into the message as part of a question or of a resource   *)
(* record, or gives it up with reset() because the message would be full.  *)
(***************************************************************************)
EXTENDS Integers, Sequences, SequencesExt, FiniteSetsExt

CONSTANTS
  DomainNames, \* the names callers hand to prepare()
  Base,        \* the position DnCompressor and DnDecompressor take as base
  LabelMax,    \* size_limits::label
  NameMax,     \* size_limits::name
  PtrMax,      \* the length of DnCompressor::dnptrs
  MsgCap,      \* octets of a message, size_limits::udp_message
  MaxRecords,  \* bound: questions and records of a message
  RdataSizes   \* the sizes of the data of a record

ASSUME DNSAssumption ==
  /\ Base \in Nat /\ LabelMax \in 1..63 /\ NameMax \in Nat /\ PtrMax \in Nat /\ MsgCap \in Nat
  /\ MaxRecords \in Nat /\ RdataSizes \subseteq Nat

VARIABLES
  msg,     \* the octets written so far, the header first
  dnptrs,  \* DnCompressor::dnptrs, positions of names stored earlier
  src,     \* DnCompressor::_src, or Idle between compress() and prepare()
  suffix,  \* [len, off]: suffix_len and suffix_off
  needed,  \* what prepare() returned, Bad for an error, Stuck if it does not
  written  \* history: the header and the records the caller asked for

vars == <<msg, dnptrs, src, suffix, needed, written>>

Dot == 46
Idle == <<-1>>
Bad == -1
Stuck == -2
NoSuffix == [len |-> 0, off |-> 0]
HeaderSize == 12
RRHeaderSize == 10

-----------------------------------------------------------------------------
(* Octets. *)
At(p) == IF p < Len(msg) THEN msg[p + 1] ELSE 0
U16(v) == <<v \div 256, v % 256>>
U32(v) == U16(v \div 65536) \o U16(v % 65536)
FromU16(p) == 256 * At(p) + At(p + 1)
FromU32(p) == 65536 * FromU16(p) + FromU16(p + 2)
Overwrite(s, p, bytes) == SubSeq(s, 1, p) \o bytes \o SubSeq(s, p + Len(bytes) + 1, Len(s))
IsPointer(o) == o >= 192
PointerAt(p) == 256 * (At(p) % 64) + At(p + 1)

(* Flags: the bit fields of the second header word. *)
Bit(u, k) == (u \div 2^k) % 2
Flags(u) == [qr |-> Bit(u, 15), opcode |-> (u \div 2^11) % 16, aa |-> Bit(u, 10), tc |-> Bit(u, 9), rd |-> Bit(u, 8),
             ra |-> Bit(u, 7), z |-> Bit(u, 6), ad |-> Bit(u, 5), cd |-> Bit(u, 4), rcode |-> u % 16]
ToU16(f) == f.qr * 2^15 + f.opcode * 2^11 + f.aa * 2^10 + f.tc * 2^9 + f.rd * 2^8
            + f.ra * 2^7 + f.z * 2^6 + f.ad * 2^5 + f.cd * 2^4 + f.rcode

(* Header::serialize and Header::deserialize; the id keeps its byte order. *)
HeaderBytes(h) == U16(h.id) \o U16(ToU16(h.flags)) \o U16(h.qd) \o U16(h.an) \o U16(0) \o U16(0)
ReadHeader == [id |-> FromU16(0), flags |-> Flags(FromU16(2)), qd |-> FromU16(4), an |-> FromU16(6)]

-----------------------------------------------------------------------------
(* Compression. *)

\* get_label_lens(): a label begins at 0 and behind every dot, where its length
\* octet goes; two dots in a row enclose an empty label.
LabelStarts(dn) == {0} \cup {i \in DOMAIN dn : dn[i] = Dot}
LabelLen(dn, s) == Min({t \in LabelStarts(dn) \cup {Len(dn) + 1} : t > s}) - s - 1
Labels(dn) ==
  LET starts == SetToSortSeq(LabelStarts(dn), <)
  IN  [k \in DOMAIN starts |-> SubSeq(dn, starts[k] + 1, starts[k] + LabelLen(dn, starts[k]))]

\* get_offs(): the label offsets of a stored name, pointers followed from the
\* same base.  Its end marks octets that are neither label nor pointer, and
\* wrong pointers that lead round in circles, from which nothing returns.
RECURSIVE LabelOffs(_, _, _)
LabelOffs(base, p, seen) ==
  IF p \in seen THEN <<Stuck>>
  ELSE IF IsPointer(At(p)) THEN LabelOffs(base, base + PointerAt(p), seen \cup {p})
  ELSE IF At(p) = 0 THEN <<>>
  ELSE IF At(p) > 63 THEN <<Bad>>
  ELSE <<p - base>> \o LabelOffs(base, p + At(p) + 1, seen \cup {p})

\* Mutant: labels compared without their lengths.
SharedLabelsLoose(labels, base, offs) ==
  LET Same(k) == LET l == labels[Len(labels) - k]
                 IN  \A i \in DOMAIN l : At(base + offs[Len(offs) - k] + i) = l[i]
      Sizes == 0..(IF Len(labels) < Len(offs) THEN Len(labels) ELSE Len(offs))
  IN  CHOOSE k \in Sizes : (\A j \in 0..(k - 1) : Same(j)) /\ (k + 1 \in Sizes => ~Same(k))

\* match(): how many trailing labels a name shares with a stored one.
SharedLabels(labels, base, offs) ==
  LET Same(k) == LET l == labels[Len(labels) - k]
                     p == base + offs[Len(offs) - k]
                 IN  At(p) = Len(l) /\ \A i \in DOMAIN l : At(p + i) = l[i]
      Sizes == 0..(IF Len(labels) < Len(offs) THEN Len(labels) ELSE Len(offs))
  IN  CHOOSE k \in Sizes : (\A j \in 0..(k - 1) : Same(j)) /\ (k + 1 \in Sizes => ~Same(k))

TextLen(labels) == FoldSeq(LAMBDA l, n : n + Len(l), 0, labels)
\* ... and the characters they stand for, with the dot in front of them.
SuffixLen(labels, k) ==
  LET tail == SubSeq(labels, Len(labels) - k + 1, Len(labels))
  IN  IF k = 0 THEN 0 ELSE TextLen(tail) + k - (IF k = Len(labels) THEN 1 ELSE 0)

Stripped(dn) == IF Last(dn) = Dot THEN Front(dn) ELSE dn
\* Offsets are taken from the first stored name, not from Base.
First == dnptrs[1]
OffsOf(i) == LabelOffs(First, dnptrs[i], {})

\* The loop of prepare() from the i-th stored name on: a name without offsets
\* ends it with an error, a complete match with success, and the longest suffix
\* so far, begun with what suffix_len held before, stays set in any case.
RECURSIVE Scan(_, _, _)
Scan(dn, i, best) ==
  IF i > Len(dnptrs) THEN [end |-> 0, suffix |-> best]
  ELSE IF OffsOf(i) = <<>> \/ Last(OffsOf(i)) = Bad THEN [end |-> Bad, suffix |-> best]
  ELSE IF Last(OffsOf(i)) = Stuck THEN [end |-> Stuck, suffix |-> best]
  ELSE LET offs == OffsOf(i)
           k == SharedLabels(Labels(dn), First, offs)
           m == SuffixLen(Labels(dn), k)
           better == [len |-> m, off |-> offs[Len(offs) - k + 1] + First - Base]
       IN  IF m <= best.len THEN Scan(dn, i + 1, best)
           ELSE IF m = Len(dn) THEN [end |-> 0, suffix |-> better]
           ELSE Scan(dn, i + 1, better)

Refused(dn) ==
  \/ dn = <<>> \/ Len(dn) > NameMax
  \/ \E l \in Range(Labels(Stripped(dn))) : Len(l) > LabelMax

\* Mutant: the first length octet of a name with a shared suffix is forgotten.
NeededShort(dn, s) == IF dn = <<>> THEN 1 ELSE Len(dn) - s.len + 2
Needed(dn, s) == IF dn = <<>> THEN 1 ELSE Len(dn) - s.len + 2 + (IF 0 < s.len /\ s.len < Len(dn) THEN 1 ELSE 0)

\* DnCompressor::prepare.
Prepare(dn) ==
  /\ src = Idle /\ needed # Stuck
  /\ IF dn = <<Dot>> THEN src' = <<>> /\ needed' = 1 /\ UNCHANGED suffix
     ELSE IF Refused(dn) THEN needed' = Bad /\ UNCHANGED <<src, suffix>>
     ELSE LET s == Stripped(dn)
              found == Scan(s, 1, suffix)
          IN  /\ suffix' = found.suffix
              /\ src' = IF found.end = 0 THEN s ELSE Idle
              /\ needed' = IF found.end = 0 THEN Needed(s, found.suffix) ELSE found.end
  /\ UNCHANGED <<msg, dnptrs, written>>

\* DnCompressor::compress: the text in front of the suffix with its dots made
\* length octets, then a pointer or the root.
Compressed ==
  LET n == Len(src) - suffix.len
      end == Min({t \in LabelStarts(src) \cup {Len(src) + 1} : t >= n})
      Octet(q) == CASE q \in LabelStarts(src) -> LabelLen(src, q)
                    [] q <= n -> src[q]
                    [] OTHER -> 0
  IN  IF src = <<>> THEN <<0>>
      ELSE [q \in 1..end |-> Octet(q - 1)]
           \o (IF suffix.len > 0 THEN <<192 + suffix.off \div 256, suffix.off % 256>> ELSE <<0>>)

\* add_dnptr(): names of one pointer or of the root are not remembered.
AddDnptr(bytes) == IF Len(bytes) > 2 THEN Append(dnptrs, Len(msg)) ELSE dnptrs
Reset == src' = Idle /\ suffix' = NoSuffix /\ needed' = 0

\* The caller advances by what prepare() returned, over zeroed memory.
Reserved == Compressed \o [i \in 1..(needed - Len(Compressed)) |-> 0]

\* The caller's obligations: the message has room for what prepare() returned
\* and the record, and add_dnptr's assertion holds.
MayStore(rest) ==
  /\ Len(written.records) < MaxRecords
  /\ needed \in 0..(MsgCap - Len(msg) - Len(rest))
  /\ Len(AddDnptr(Compressed)) <= PtrMax
Store(rest, record) ==
  /\ src # Idle
  /\ MayStore(rest)
  /\ dnptrs' = AddDnptr(Compressed)
  /\ LET h == [written.header EXCEPT !.qd = @ + (IF record.rr THEN 0 ELSE 1), !.an = @ + (IF record.rr THEN 1 ELSE 0)]
     IN  /\ written' = [header |-> h, records |-> Append(written.records, record @@ [dn |-> src, at |-> Len(msg), size |-> needed])]
         /\ msg' = Overwrite(msg \o Reserved \o rest, IF record.rr THEN 6 ELSE 4, U16(IF record.rr THEN h.an ELSE h.qd))
  /\ IF src = <<>> THEN src' = Idle /\ needed' = 0 /\ UNCHANGED suffix ELSE Reset

\* Type and Class go out in network byte order.
TypeBytes(t) == U16(t)
ClassBytes(c) == U16(c)
\* Question::serialize, and RR / RRSerializer; answers follow the questions.
QuestionBytes(q) == TypeBytes(q.type) \o ClassBytes(q.class)
\* Mutant: the length of the data in host byte order.
RRBytesHostOrder(r) == TypeBytes(r.type) \o ClassBytes(r.class) \o U32(r.ttl) \o <<Len(r.rdata), 0>> \o r.rdata
RRBytes(r) == TypeBytes(r.type) \o ClassBytes(r.class) \o U32(r.ttl) \o U16(Len(r.rdata)) \o r.rdata
StoreQuestion(q) == written.header.an = 0 /\ Store(QuestionBytes(q), q @@ [rr |-> FALSE])
StoreRR(r) == Store(RRBytes(r), r @@ [rr |-> TRUE])

\* The caller gives a name up that was prepared, or refused half way.
Abandon ==
  /\ src # Idle \/ needed = Bad
  /\ Reset /\ UNCHANGED <<msg, dnptrs, written>>

\* HeaderView::response and basic_response.
Respond ==
  /\ needed # Stuck
  /\ LET Response(f) == [f EXCEPT !.qr = 1]
         BasicResponse(f) == [f EXCEPT !.qr = 1, !.ra = 1, !.ad = 0]
         old == Flags(FromU16(2))
     IN  \E new \in {Response(old), BasicResponse(old)} :
           /\ msg' = Overwrite(msg, 2, U16(ToU16(new)))
           /\ written' = [written EXCEPT !.header.flags = new]
  /\ msg' # msg
  /\ UNCHANGED <<dnptrs, src, suffix, needed>>

Init ==
  /\ written = [header |-> [id |-> 258, flags |-> Flags(2^12 + 2^8 + 2^5 + 3), qd |-> 0, an |-> 0], records |-> <<>>]
  /\ msg = HeaderBytes(written.header)
  /\ dnptrs = <<>> /\ src = Idle /\ suffix = NoSuffix /\ needed = 0

Questions == {[type |-> 255, class |-> 1]}
Answers == {[type |-> 257, class |-> 1, ttl |-> 65538, rdata |-> [i \in 1..n |-> 190 + (i % 4)]] : n \in RdataSizes}

Next ==
  \/ \E dn \in DomainNames : Prepare(dn)
  \/ \E q \in Questions : StoreQuestion(q)
  \/ \E r \in Answers : StoreRR(r)
  \/ Abandon
  \/ Respond

Spec == Init /\ [][Next]_vars

-----------------------------------------------------------------------------
(* Reading. *)

\* prepare_rest(): the name from a position on, each label followed by a dot.
RECURSIVE Rest(_)
Rest(p) ==
  IF IsPointer(At(p)) THEN Rest(Base + PointerAt(p))
  ELSE IF At(p) = 0 THEN <<>>
  ELSE [i \in 1..At(p) |-> At(p + i)] \o <<Dot>> \o Rest(p + At(p) + 1)

\* decompress(): the name at a position, the octets it takes there, and whether
\* the name fits the buffer it is written to; one that does not is undefined.
RECURSIVE Taken(_)
Taken(p) == IF At(p) = 0 THEN 1 ELSE IF IsPointer(At(p)) THEN 2 ELSE At(p) + 1 + Taken(p + At(p) + 1)
Decompress(p) == [dn |-> Rest(p), size |-> Taken(p), fits |-> Len(Rest(p)) <= NameMax]

\* skip_dn(): -1 for illegal_byte_sequence.
RECURSIVE SkipDn(_)
SkipDn(p) ==
  IF At(p) = 0 THEN 1
  ELSE IF At(p) >= 64 THEN (IF At(p) = 192 THEN 2 ELSE -1)
  ELSE LET n == SkipDn(p + At(p) + 1) IN IF n = -1 THEN -1 ELSE n + At(p) + 1

\* A question or a resource record behind its name, as Question::deserialize
\* and RR read it.
ReadQuestion(p) == [type |-> FromU16(p), class |-> FromU16(p + 2)]
ReadRR(p) == [type |-> FromU16(p), class |-> FromU16(p + 2), ttl |-> FromU32(p + 4),
              rdata |-> [i \in 1..FromU16(p + 8) |-> At(p + RRHeaderSize - 1 + i)]]

\* Walking a message record by record, the questions first.
RECURSIVE Records(_, _, _)
Records(p, qd, an) ==
  IF qd + an = 0 THEN <<>>
  ELSE LET d == Decompress(p)
           body == IF qd > 0 THEN ReadQuestion(p + d.size) ELSE ReadRR(p + d.size)
           next == p + d.size + (IF qd > 0 THEN 4 ELSE RRHeaderSize + Len(body.rdata))
       IN  <<body @@ [rr |-> qd = 0, at |-> p, dn |-> d.dn]>> \o Records(next, IF qd > 0 THEN qd - 1 ELSE 0, IF qd > 0 THEN an ELSE an - 1)

-----------------------------------------------------------------------------
(* Properties. *)

WithDot(dn) == IF dn = <<>> THEN <<>> ELSE Append(dn, Dot)

\* A name without empty labels, and a message of such names whose first name
\* lies where the base of the pointers is.
Proper(dn) == dn = <<>> \/ \A s \in LabelStarts(dn) : LabelLen(dn, s) > 0
BasedAtFirst == dnptrs # <<>> => First = Base

\* Whatever names were stored before, empty labels included, and however their
\* suffixes are shared, every proper name in a message that begins at the base
\* decompresses to the name the caller gave, at its own place: a pointer always
\* leads to the start of the suffix it stands for.  A name of NameMax
\* characters does not fit the decompressor's buffer with its last dot.
NamesRoundTrip ==
  BasedAtFirst =>
    \A i \in DOMAIN written.records :
      LET r == written.records[i]
          d == Decompress(r.at)
      IN  Proper(r.dn) /\ Len(r.dn) < NameMax => d.fits /\ d.dn = WithDot(r.dn)

\* The size prepare() promises for a proper name, on which the caller bases the
\* space it reserves, is the size compress() writes, the size decompress()
\* consumes and the size skip_dn() skips; a pointer never leads forward.
\* skip_dn() refuses a pointer to an offset of 256 or more.
SizesAgree ==
  /\ src # Idle /\ needed >= 0 /\ Proper(src) =>
       Len(Compressed) = needed /\ (suffix.len > 0 => suffix.off + Base < Len(msg))
  /\ \A i \in DOMAIN written.records :
       LET r == written.records[i]
           far == r.size > 1 /\ At(r.at + r.size - 2) > 192
       IN  Proper(r.dn) => Taken(r.at) = r.size /\ SkipDn(r.at) = IF far THEN -1 ELSE r.size

\* Reading a message of proper names back gives the header, the questions and
\* the records as they were written, wherever compression moved the boundaries
\* and although the header counts and flags were patched in place.
MessageReadsBack ==
  /\ ReadHeader = written.header
  /\ BasedAtFirst /\ (\A i \in DOMAIN written.records : Proper(written.records[i].dn)) =>
       LET rs == Records(HeaderSize, ReadHeader.qd, ReadHeader.an)
           NoSize(r) == [f \in DOMAIN r \ {"size"} |-> IF f = "dn" THEN WithDot(r.dn) ELSE r[f]]
           Fits(r) == Len(r.dn) < NameMax
       IN  /\ Len(rs) = Len(written.records)
           /\ \A i \in DOMAIN rs : Fits(written.records[i]) => rs[i] = NoSize(written.records[i])

\* Wherever the base is, a proper name within the limits is accepted: the test
\* DifferentBase (test/unit/dns/compress.cpp:84) compresses four names behind a
\* base that is not the first name's place, the last ones of one label or none.
NamesAccepted ==
  src = Idle =>
    \A dn \in DomainNames :
      dn # <<Dot>> /\ ~ Refused(dn) /\ Proper(Stripped(dn)) => Scan(Stripped(dn), 1, suffix).end = 0

\* skip_dn() skips the domain name (utils.h:128), whichever proper name the
\* compressor wrote, far pointers included.
SkipsEveryName ==
  \A i \in DOMAIN written.records :
    LET r == written.records[i] IN Proper(r.dn) => SkipDn(r.at) = r.size

\* A name of the maximum length prepare() documents (utils.h:40) is read back
\* within the buffer of the decompressor, of size_limits::name octets.
LongestNameFits ==
  BasedAtFirst =>
    \A i \in DOMAIN written.records :
      LET r == written.records[i] IN Proper(r.dn) => Decompress(r.at).fits
=============================================================================

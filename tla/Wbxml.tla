------------------------------- MODULE Wbxml -------------------------------
(***************************************************************************)
(* acs/protocol/omadm/wbxml.py: the WBXML codec of the DM endpoint. A        *)
(* document is parsed into a tree (_TreeBuilder), encoded, possibly damaged   *)
(* on the way, and decoded.                                                  *)
(*                                                                         *)
(* XML is a sequence of events, those of its parser: an opening tag, text, a  *)
(* closing tag. The wire is a sequence of bytes. Tags are a code page and a   *)
(* token; the token 19 exists on both pages (Get and Type). Integers have     *)
(* digits in base BASE, 128 in the code; a smaller base makes short tables     *)
(* and strings need several digits.                                          *)
(***************************************************************************)
EXTENDS Integers, FiniteSets, Sequences, SequencesExt

CONSTANTS
    BASE, MAX_MB_UINT32_BYTES, MAX_UINT32,                  \* 128, 5 and 2^32 - 1 in the code
    MAX_DEPTH, MAX_ELEMENTS,                                \* of a document read: 64, 16384
    MAX_INPUT_BYTES, MAX_XML_BYTES,                         \* 512 KiB read, 2 MiB decoded (SizeOf)
    MAX_ENCODE_DEPTH, MAX_ENCODE_ELEMENTS, MAX_ENCODE_BYTES, \* 128, 8 * MAX_ELEMENTS, 16 MiB
    SHARE_OVER,                                             \* a repeated text over 3 bytes is shared
    PUBLIC_IDS, CHARSET_UTF8,                               \* {0x0FD3, 0x1201} and 106
    Texts,                                                  \* the texts a document is made of
    NOISE,                                                  \* the bytes a damaged message may have
    MAX_EVENTS                                              \* bound: events of a document

ASSUME WbxmlAssumption ==
    /\ BASE \in Nat \ {0, 1} /\ MAX_MB_UINT32_BYTES \in Nat \ {0}
    /\ {MAX_UINT32, MAX_DEPTH, MAX_ELEMENTS, MAX_INPUT_BYTES, MAX_XML_BYTES, MAX_ENCODE_DEPTH,
        MAX_ENCODE_ELEMENTS, MAX_ENCODE_BYTES, SHARE_OVER, MAX_EVENTS} \subseteq Nat
    /\ PUBLIC_IDS \subseteq Nat \ {0} /\ CHARSET_UTF8 \in Nat
    /\ \A t \in Texts : t \in Seq(Nat) /\ t # <<>>
    /\ NOISE \subseteq 0 .. 255

VARIABLES
    pc,     \* which part of the code runs: the parser, the encoder, the decoder
    doc,    \* the document: the events of the parser so far, then without indentation
    opt,    \* the arguments of encode
    at,     \* the next event to encode
    page,   \* the code page of the encoder
    wire,   \* the bytes written
    intact, \* FALSE once the bytes were damaged
    dec     \* the state of the decoder

vars == <<pc, doc, opt, at, page, wire, intact, dec>>

-----------------------------------------------------------------------------
(* Tokens, texts and integers.                                               *)

VERSION_13  == 3
SWITCH_PAGE == 0
END         == 1
STR_I       == 3
STR_T       == 131
OPAQUE      == 195
CONTENT     == 64
ATTRIBUTES  == 128
CR          == 13
LF          == 10
SPACE       == 32

\* SYNCML_TAGS and METINF_TAGS: SyncML and Get; Type. 48 is reserved.
TAG_PAGES == <<{45, 19}, {19}>>
Tag(p, token) == [page |-> p, token |-> token]
SyncML  == Tag(0, 45)
Known(tag) == tag.page + 1 \in DOMAIN TAG_PAGES /\ tag.token \in TAG_PAGES[tag.page + 1]
XmlTags == {SyncML, Tag(0, 19), Tag(1, 19), Tag(0, 48)}

Open(tag)  == [e |-> "open", tag |-> tag, text |-> <<>>]
Text(t)    == [e |-> "text", tag |-> SyncML, text |-> t]
Close(tag) == [e |-> "close", tag |-> tag, text |-> <<>>]

\* PUBLIC_IDS: the name of a public identifier, which starts the string table when
\* the identifier is given by name.
PublicName(id) == <<80, 80 + id>>

IsSpace(t) == \A i \in DOMAIN t : t[i] \in {9, LF, CR, SPACE}

\* _mb_uint32: the most significant digit first, all but the last one marked.
High[n \in 0 .. MAX_UINT32] ==
    IF n = 0 THEN <<>> ELSE High[n \div BASE] \o <<BASE + (n % BASE)>>
MbUint32(n) == High[n \div BASE] \o <<n % BASE>>

\* _integer: up to the first digit that is not marked, and no further than five.
\* next is the offset behind it, -1 when it is truncated, too long or too large.
NoInteger == [value |-> 0, next |-> -1]
Integer(o) ==
    LET ends == {k \in 1 .. MAX_MB_UINT32_BYTES : o + k <= Len(wire) /\ (wire[o + k] \div BASE) % 2 = 0}
        k    == CHOOSE j \in ends : \A i \in ends : j <= i
        n    == FoldLeft(LAMBDA v, b : (v * BASE) + (b % BASE), 0, SubSeq(wire, o + 1, o + k))
    IN IF o < 0 \/ ends = {} \/ n > MAX_UINT32 THEN NoInteger ELSE [value |-> n, next |-> o + k]

\* The arguments of encode: the public identifier, by name or by number, and how to
\* write texts.
Options == [id : PUBLIC_IDS, named : BOOLEAN, share : BOOLEAN, opaque : BOOLEAN]
NoOptions == [id |-> 0, named |-> FALSE, share |-> FALSE, opaque |-> FALSE]

Start == [offset |-> 0, page |-> 0, table |-> <<>>, stack |-> <<>>, elements |-> 0, out |-> <<>>]

Init ==
    /\ pc = "parse"
    /\ doc = <<>>
    /\ opt = NoOptions
    /\ at = 1 /\ page = 0
    /\ wire = <<>>
    /\ intact = TRUE
    /\ dec = Start

\* WbxmlError
Refuse == pc' = "refused" /\ UNCHANGED <<doc, opt, at, page, wire, intact, dec>>

-----------------------------------------------------------------------------
(* The tree: _TreeBuilder.                                                   *)

Count(kind) == Cardinality({i \in DOMAIN doc : doc[i].e = kind})
Depth == Count("open") - Count("close")

Parsed(event) ==
    /\ Len(doc) < MAX_EVENTS
    /\ doc' = Append(doc, event)
    /\ UNCHANGED <<pc, opt, at, page, wire, intact, dec>>

\* start: one element deeper.
StartElement ==
    /\ pc = "parse"
    /\ doc = <<>> \/ Depth > 0
    /\ IF Depth + 1 > MAX_ENCODE_DEPTH \/ Count("open") + 1 > MAX_ENCODE_ELEMENTS
       THEN Refuse
       ELSE \E tag \in XmlTags : Parsed(Open(tag))

\* An attribute, a document type, malformed XML or too many bytes of it.
RefuseXml ==
    /\ pc = "parse"
    /\ doc # <<>>
    /\ Refuse

ReadText ==
    /\ pc = "parse"
    /\ Depth > 0
    /\ Last(doc).e # "text"
    /\ \E t \in Texts : Parsed(Text(t))

\* The tag that is open: the last one opened that is not closed yet.
EndElement ==
    /\ pc = "parse"
    /\ Depth > 0
    /\ LET Opens(i)  == Cardinality({j \in i .. Len(doc) : doc[j].e = "open"})
           Closes(i) == Cardinality({j \in i .. Len(doc) : doc[j].e = "close"})
           last == CHOOSE i \in DOMAIN doc :
                      /\ Opens(i) > Closes(i)
                      /\ \A j \in i + 1 .. Len(doc) : Opens(j) <= Closes(j)
       IN Parsed(Close(doc[last].tag))

-----------------------------------------------------------------------------
(* encode.                                                                   *)

\* Text made of blanks, unless it is the value of a leaf.
Indentation(d, i) ==
    /\ d[i].e = "text" /\ IsSpace(d[i].text)
    /\ ~(d[i - 1].e = "open" /\ d[i + 1].e = "close")

Stripped(d) ==
    FoldLeftDomain(LAMBDA kept, i : IF Indentation(d, i) THEN kept ELSE Append(kept, d[i]), <<>>, d)

\* The entries of the string table of a document: the public name, then the texts
\* that are repeated and long enough, in some order.
Entries(d, o) ==
    LET name  == IF o.named THEN <<PublicName(o.id)>> ELSE <<>>
        Uses(t) == Cardinality({i \in DOMAIN d : d[i].e = "text" /\ d[i].text = t})
        shared  == {t \in {d[i].text : i \in DOMAIN d} : Uses(t) > 1 /\ Len(t) > SHARE_OVER}
    IN name \o (IF o.share /\ ~o.opaque THEN SetToSeq(shared \ ToSet(name)) ELSE <<>>)

Terminated(entries) == [k \in DOMAIN entries |-> Append(entries[k], 0)]
Table(entries) == FlattenSeq(Terminated(entries))

Offset(entries, t) ==
    LET k == CHOOSE j \in DOMAIN entries : entries[j] = t
    IN Len(FlattenSeq(SubSeq(Terminated(entries), 1, k - 1)))

EncodeHeader(entries, o) ==
    <<VERSION_13>>
    \o (IF o.named THEN <<0, 0>> ELSE MbUint32(o.id))
    \o MbUint32(CHARSET_UTF8) \o MbUint32(Len(Table(entries))) \o Table(entries)

\* The root must be SyncML, in no namespace or in that of the public identifier.
BeginEncode ==
    /\ pc = "parse"
    /\ doc # <<>> /\ Depth = 0
    /\ \E o \in Options, namespace \in PUBLIC_IDS \cup {0} :
          LET header == EncodeHeader(Entries(Stripped(doc), o), o)
          IN IF doc[1].tag # SyncML \/ namespace \notin {0, o.id} \/ Len(header) > MAX_ENCODE_BYTES
             THEN Refuse
             ELSE /\ pc' = "encode"
                  /\ doc' = Stripped(doc)
                  /\ opt' = o
                  /\ wire' = header
                  /\ UNCHANGED <<at, page, intact, dec>>

\* _Output.write, and the page the encoder is then on.
Write(bytes, newPage) ==
    IF Len(bytes) > MAX_ENCODE_BYTES - Len(wire) THEN Refuse
    ELSE /\ wire' = wire \o bytes
         /\ page' = newPage
         /\ at' = at + 1
         /\ UNCHANGED <<pc, doc, opt, intact, dec>>

Encoding(kind) == pc = "encode" /\ at <= Len(doc) /\ doc[at].e = kind

\* Mutant: the page is taken to be 0 again behind an element of the other one.
SwitchToMetInf(tag) == IF tag.page = 0 THEN <<>> ELSE <<SWITCH_PAGE, tag.page>>

\* Both sides stay on a page until it is switched.
SwitchTo(tag) == IF tag.page = page THEN <<>> ELSE <<SWITCH_PAGE, tag.page>>

\* element_content: a tag with neither text nor children has no content and no END.
EncodeStart ==
    /\ Encoding("open")
    /\ IF ~Known(doc[at].tag) THEN Refuse
       ELSE LET tag == doc[at].tag
                content == IF doc[at + 1].e = "close" THEN 0 ELSE CONTENT
            IN Write(SwitchTo(tag) \o <<tag.token + content>>, tag.page)

\* Mutant: every element is ended.
EncodeEndAlways ==
    /\ Encoding("close")
    /\ Write(<<END>>, page)

EncodeEnd ==
    /\ Encoding("close")
    /\ Write(IF doc[at - 1].e = "open" THEN <<>> ELSE <<END>>, page)

\* text_content: opaque, a reference to the table, or inline.
EncodeText ==
    /\ Encoding("text")
    /\ LET t == doc[at].text
           entries == Entries(doc, opt)
       IN Write(IF opt.opaque THEN <<OPAQUE>> \o MbUint32(Len(t)) \o t
                ELSE IF t \in ToSet(entries) THEN <<STR_T>> \o MbUint32(Offset(entries, t))
                ELSE <<STR_I>> \o t \o <<0>>, page)

EndEncode ==
    /\ pc = "encode"
    /\ at > Len(doc)
    /\ pc' = "wire"
    /\ UNCHANGED <<doc, opt, at, page, wire, intact, dec>>

-----------------------------------------------------------------------------
(* The way to the decoder: a client writes what it likes.                    *)

Deliver ==
    /\ pc = "wire"
    /\ IF Len(wire) > MAX_INPUT_BYTES THEN Refuse
       ELSE pc' = "header" /\ UNCHANGED <<doc, opt, at, page, wire, intact, dec>>

Damage ==
    /\ pc = "wire"
    /\ intact
    /\ intact' = FALSE
    /\ \E i \in DOMAIN wire :
          \/ \E b \in NOISE : wire' = [wire EXCEPT ![i] = b]
          \/ wire' = SubSeq(wire, 1, i - 1)
    /\ UNCHANGED <<pc, doc, opt, at, page, dec>>

-----------------------------------------------------------------------------
(* decode.                                                                   *)

\* The offset of the first byte 0 from offset o on, -1 without one.
FindZero(bytes, o) ==
    LET zeros == {i \in o + 1 .. Len(bytes) : bytes[i] = 0}
    IN IF zeros = {} THEN -1 ELSE (CHOOSE i \in zeros : \A j \in zeros : i <= j) - 1

\* A piece of text: its bytes, and the offset behind it, -1 when it cannot be read.
Unreadable == [raw |-> <<>>, next |-> -1]
Piece(raw, next) == [raw |-> raw, next |-> next]

\* _table_string
TableString(table, o, next) ==
    LET end == FindZero(table, o)
    IN IF o >= Len(table) \/ end < 0 THEN Unreadable ELSE Piece(SubSeq(table, o + 1, end), next)

\* _utf8: characters XML allows; those of several bytes are left out.
Utf8(raw) == \A i \in DOMAIN raw : raw[i] \in {9, LF, CR} \cup 32 .. 127

DecodeHeader ==
    /\ pc = "header"
    /\ LET id      == Integer(1)
           name    == IF id.value = 0 THEN Integer(id.next) ELSE id
           charset == Integer(name.next)
           length  == Integer(charset.next)
           table   == SubSeq(wire, length.next + 1, length.next + length.value)
           public  == TableString(table, name.value, length.next)
           known   == IF id.value # 0 THEN id.value \in PUBLIC_IDS
                      ELSE public.next >= 0 /\ public.raw \in {PublicName(i) : i \in PUBLIC_IDS}
       IN IF \/ wire = <<>> \/ wire[1] \notin {2, VERSION_13}
             \/ -1 \in {id.next, name.next, charset.next, length.next}
             \/ charset.value # CHARSET_UTF8
             \/ length.value > Len(wire) - length.next
             \/ ~known
          THEN Refuse
          ELSE /\ pc' = "tokens"
               /\ dec' = [dec EXCEPT !.offset = length.next + length.value, !.table = table]
               /\ UNCHANGED <<doc, opt, at, page, wire, intact>>

\* escape: a carriage return becomes a character reference, here the number -13.
Escape(raw) == [i \in DOMAIN raw |-> IF raw[i] = CR THEN -CR ELSE raw[i]]

\* The length of the XML: a tag counts 1, a character 1, a reference 5.
SizeOf(events) ==
    FoldLeft(LAMBDA n, ev : n + IF ev.e = "text"
                                THEN FoldLeft(LAMBDA m, b : m + (IF b < 0 THEN 5 ELSE 1), 0, ev.text)
                                ELSE 1,
             0, events)

RoomFor(events) == SizeOf(events) <= MAX_XML_BYTES - SizeOf(dec.out)

Emit(events, locals) ==
    IF ~RoomFor(events) THEN Refuse
    ELSE /\ dec' = [locals EXCEPT !.out = @ \o events]
         /\ UNCHANGED <<pc, doc, opt, at, page, wire, intact>>

\* A token is read: there is one, and the root is not closed yet.
AtToken == pc = "tokens" /\ dec.offset < Len(wire) /\ ~(dec.elements > 0 /\ dec.stack = <<>>)
Token == wire[dec.offset + 1]

RefuseTrailing ==
    /\ pc = "tokens"
    /\ dec.offset < Len(wire)
    /\ ~AtToken
    /\ Refuse

ReadSwitch ==
    /\ AtToken
    /\ Token = SWITCH_PAGE
    /\ IF dec.offset + 2 > Len(wire) \/ wire[dec.offset + 2] >= Len(TAG_PAGES) THEN Refuse
       ELSE Emit(<<>>, [dec EXCEPT !.offset = @ + 2, !.page = wire[dec.offset + 2]])

ReadEnd ==
    /\ AtToken
    /\ Token = END
    /\ IF dec.stack = <<>> THEN Refuse
       ELSE Emit(<<Close(Last(dec.stack))>>, [dec EXCEPT !.offset = @ + 1, !.stack = Front(@)])

\* _inline, _table_string, _take.
TextPiece ==
    LET o   == dec.offset + 1
        end == FindZero(wire, o)
        int == Integer(o)
    IN CASE Token = STR_I -> IF end < 0 THEN Unreadable ELSE Piece(SubSeq(wire, o + 1, end), end + 1)
         [] Token = STR_T -> IF int.next < 0 THEN Unreadable
                             ELSE TableString(dec.table, int.value, int.next)
         [] OTHER -> IF int.next < 0 \/ int.value > Len(wire) - int.next THEN Unreadable
                     ELSE Piece(SubSeq(wire, int.next + 1, int.next + int.value), int.next + int.value)

ReadString ==
    /\ AtToken
    /\ Token \in {STR_I, STR_T, OPAQUE}
    /\ IF dec.stack = <<>> \/ TextPiece.next < 0 \/ ~Utf8(TextPiece.raw) THEN Refuse
       ELSE Emit(<<Text(Escape(TextPiece.raw))>>, [dec EXCEPT !.offset = TextPiece.next])

TooDeep == Len(dec.stack) >= MAX_DEPTH

\* A tag without attributes that the page knows; the first one is SyncML.
ReadTag ==
    /\ AtToken
    /\ Token \notin {SWITCH_PAGE, END, STR_I, STR_T, OPAQUE}
    /\ LET tag     == Tag(dec.page, Token % 64)
           content == (Token \div CONTENT) % 2 = 1
       IN IF \/ tag.token < 5 \/ Token >= ATTRIBUTES
             \/ ~Known(tag)
             \/ TooDeep
             \/ dec.elements + 1 > MAX_ELEMENTS
             \/ dec.elements = 0 /\ tag # SyncML
          THEN Refuse
          ELSE Emit(IF content THEN <<Open(tag)>> ELSE <<Open(tag), Close(tag)>>,
                    [dec EXCEPT !.offset = @ + 1, !.elements = @ + 1,
                                !.stack = IF content THEN Append(@, tag) ELSE @])

\* Mutant: an element that is not closed is let through.
CompleteUnclosed == dec.elements > 0

Complete == dec.elements > 0 /\ dec.stack = <<>>

EndDecode ==
    /\ pc = "tokens"
    /\ dec.offset >= Len(wire)
    /\ IF Complete THEN pc' = "done" /\ UNCHANGED <<doc, opt, at, page, wire, intact, dec>>
       ELSE Refuse

-----------------------------------------------------------------------------

\* A document at the bound of its events is not gone on with; an answer is final.
Over ==
    /\ pc \in {"done", "refused"} \/ (pc = "parse" /\ Depth > 0 /\ Len(doc) >= MAX_EVENTS)
    /\ UNCHANGED vars

Next ==
    \/ StartElement \/ RefuseXml \/ ReadText \/ EndElement
    \/ BeginEncode \/ EncodeStart \/ EncodeText \/ EncodeEnd \/ EndEncode
    \/ Deliver \/ Damage
    \/ DecodeHeader \/ RefuseTrailing \/ ReadSwitch \/ ReadEnd \/ ReadString \/ ReadTag \/ EndDecode
    \/ Over

Spec == Init /\ [][Next]_vars

-----------------------------------------------------------------------------
(* Properties.                                                               *)

\* What the XML parser reads of the text written: a carriage return that is not a
\* reference is read as a line feed.
XmlText(t) == [i \in DOMAIN t |-> IF t[i] = CR THEN LF ELSE IF t[i] = -CR THEN CR ELSE t[i]]
ReadBack(events) == [i \in DOMAIN events |-> [events[i] EXCEPT !.text = XmlText(@)]]

\* The tags still open behind the events, or Broken when a closing tag is not
\* that of the last open one.
Broken == <<Tag(9, 9)>>
StillOpen(events) ==
    FoldLeft(LAMBDA stack, ev :
                CASE stack = Broken  -> Broken
                  [] ev.e = "open"   -> Append(stack, ev.tag)
                  [] ev.e = "close"  -> IF stack = <<>> \/ Last(stack) # ev.tag THEN Broken ELSE Front(stack)
                  [] OTHER           -> stack,
             <<>>, events)

\* The decoder's state while it reads: its offset and page are in range, its stack
\* is no deeper than MAX_DEPTH and its elements no more than MAX_ELEMENTS.
TypeOK ==
    /\ pc \in {"parse", "encode", "wire", "header", "tokens", "done", "refused"}
    /\ page \in {0, 1} /\ dec.page \in {0, 1}
    /\ at \in 1 .. Len(doc) + 1
    /\ dec.offset \in 0 .. Len(wire)
    /\ Len(dec.stack) <= MAX_DEPTH
    /\ dec.elements <= MAX_ELEMENTS

\* encode, decode: a document that was encoded, in whatever form its texts have, and
\* arrives as it was is decoded to the same elements and texts, without the
\* indentation: page switches, offsets, lengths and escapes agree on both sides.
RoundTrip == (pc = "done" /\ intact) => ReadBack(dec.out) = doc

\* decode: what encode wrote is refused only for a limit of the decoder, whose
\* limits are the smaller ones.
OnlyLimitsRefuse ==
    (pc = "refused" /\ intact /\ at > Len(doc) /\ doc # <<>>) =>
        \/ Len(wire) > MAX_INPUT_BYTES
        \/ Count("open") > MAX_ELEMENTS
        \/ SizeOf([i \in DOMAIN doc |-> [doc[i] EXCEPT !.text = Escape(@)]]) > MAX_XML_BYTES
        \/ \E n \in DOMAIN doc : Len(StillOpen(SubSeq(doc, 1, n))) > MAX_DEPTH

\* decode: whatever bytes arrive, what is accepted is well formed: every element
\* closed by its own tag, one root, which is SyncML. However often an entry of the
\* string table is referred to, the XML written stays within MAX_XML_BYTES.
AcceptedWellFormed ==
    /\ SizeOf(dec.out) <= MAX_XML_BYTES
    /\ pc = "done" =>
          /\ StillOpen(dec.out) = <<>>
          /\ dec.out[1] = Open(SyncML)
          /\ \A n \in 1 .. Len(dec.out) - 1 : StillOpen(SubSeq(dec.out, 1, n)) # <<>>
=============================================================================

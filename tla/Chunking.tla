-------------------------------- MODULE Chunking --------------------------------
(***************************************************************************)
(* How a document is cut into chunks (services/rag_chunking.py): pages are *)
(* joined, headings divide the text into sections, a section is cut into   *)
(* parents that the model reads and these into the children that are       *)
(* searched, each preferably at a boundary; and the page of a chunk.       *)
(*                                                                         *)
(* A text is a sequence of characters, of which only these differ: "x" of  *)
(* a word, "." that ends a sentence, "_" a blank, "|" that ends a line,    *)
(* and a mark with which the line of a heading begins and which stands for *)
(* whatever makes it one.  Offsets count from 0.                           *)
(***************************************************************************)
EXTENDS Integers, FiniteSetsExt, Sequences

CONSTANTS
    Documents       \* bound: pages and sizes, as described below

(* The mark of a heading of each level.                                    *)
Marks == <<"#", "##", "###", "####", "#####", "######">>

Level(mark) == CHOOSE i \in DOMAIN Marks : Marks[i] = mark

Char == {"x", ".", "_", "|"} \cup Range(Marks)

Blank(c) == c \in {"_", "|"}

(* A document: its pages, as clean_text leaves them, without blanks at the *)
(* ends; whether it has pages, as a PDF; whether headings are looked for;  *)
(* the sizes.                                                              *)
ASSUME ChunkingAssumption ==
    \A d \in Documents :
        /\ d.pages \in Seq(Seq(Char))
        /\ \A i \in DOMAIN d.pages :
              d.pages[i] # <<>> => ~Blank(d.pages[i][1]) /\ ~Blank(d.pages[i][Len(d.pages[i])])
        /\ d.paged \in BOOLEAN /\ d.aware \in BOOLEAN
        /\ d.child \in Nat \ {0} /\ d.parent \in Nat /\ d.overlap \in Nat

VARIABLES
    document,       \* what was given
    chunks          \* the children

chunkVars == <<document, chunks>>

(* strip: the range of what remains of t between two offsets.              *)
Stripped(t, from, to) ==
    LET inked == {i \in from .. to - 1 : ~Blank(t[i + 1])}
    IN  IF inked = {} THEN [from |-> from, to |-> from]
        ELSE [from |-> Min(inked), to |-> Max(inked) + 1]

Empty(range) == range.from = range.to

-----------------------------------------------------------------------------
(***************************************************************************)
(* Pages.                                                                  *)
(***************************************************************************)

(* Pages without text are left out; the others are joined by a blank line. *)
Joined(t, page) ==
    IF t = <<>> \/ page = <<>> THEN t \o page ELSE t \o <<"|", "|">> \o page

(* The text of the first n pages, for every n.                             *)
Texts(pages) ==
    LET first[n \in 0 .. Len(pages)] ==
            IF n = 0 THEN <<>> ELSE Joined(first[n - 1], pages[n])
    IN  first

(* Faulty variant: what joins two pages is not counted.                    *)
BehindBare(at, page) == at + Len(page)

(* Where the next page begins, if one does at an offset.                   *)
Behind(at, page) == IF page = <<>> THEN at ELSE at + Len(page) + 2

Offsets(pages) ==
    LET at[n \in 0 .. Len(pages)] ==
            IF n = 0 THEN 0 ELSE Behind(at[n - 1], pages[n])
    IN  at

(* Where each page is in the text.                                         *)
Spans(pages) ==
    LET at == Offsets(pages)
    IN  {[from |-> at[i - 1], to |-> at[i - 1] + Len(pages[i]), page |-> i] :
            i \in {n \in DOMAIN pages : pages[n] # <<>>}}

NoPage == 0

(* The page an offset is in; behind the last page, that; between pages,    *)
(* the first.                                                              *)
PageForOffset(offset, spans) ==
    LET numbers(S) == {s.page : s \in S}
        around == {s \in spans : s.from <= offset /\ offset < s.to}
        last == {s \in spans : s.page = Max(numbers(spans))}
    IN  IF spans = {} THEN NoPage
        ELSE IF around # {} THEN Min(numbers(around))
        ELSE IF \E s \in last : offset >= s.to THEN Max(numbers(spans))
        ELSE Min(numbers(spans))

-----------------------------------------------------------------------------
(***************************************************************************)
(* Windows.                                                                *)
(***************************************************************************)

(* Where one prefers to cut, in this order; the other marks behave as "."  *)
Breaks == << <<"|", "|">>, <<"|">>, <<".", "_">>, <<"_">> >>

Places(t, from, to, pattern) ==
    {i \in from .. to - Len(pattern) : SubSeq(t, i + 1, i + Len(pattern)) = pattern}

(* Behind the last place of the first pattern that has one far enough; the *)
(* end if none has.                                                        *)
BestBreak(t, from, to, least) ==
    LET cuts(k) == {i \in Places(t, from, to, Breaks[k]) : i - from >= least}
        ok == {k \in DOMAIN Breaks : cuts(k) # {}}
    IN  IF ok = {} THEN to ELSE Max(cuts(Min(ok))) + Len(Breaks[Min(ok)])

(* Where a window that starts somewhere in a range ends.                   *)
WindowEnd(t, start, to, size) ==
    LET most == Min({start + size, to})
    IN  IF most < to THEN BestBreak(t, start, most, size \div 2) ELSE to

(* Faulty variant: the next window begins behind the place of the break.   *)
SlidBehind(t, range, size, overlap, acc) ==
    LET end == WindowEnd(t, acc.next, range.to, size)
    IN  IF acc.next = range.to THEN acc
        ELSE [starts |-> acc.starts \cup {acc.next},
              next |-> IF end = range.to THEN end ELSE Max({end - overlap + 1, acc.next + 1})]

(* One window; there is none at the end of the range.                      *)
Slid(t, range, size, overlap, acc) ==
    LET end == WindowEnd(t, acc.next, range.to, size)
    IN  IF acc.next = range.to THEN acc
        ELSE [starts |-> acc.starts \cup {acc.next},
              next |-> IF end = range.to THEN end ELSE Max({end - overlap, acc.next + 1})]

Starts(t, range, size, overlap) ==
    LET n == range.to - range.from
        after[i \in 0 .. n] == IF i = 0 THEN [starts |-> {}, next |-> range.from]
                               ELSE Slid(t, range, size, overlap, after[i - 1])
    IN  after[n].starts

(* Pieces of a range without blanks at its ends: where a window began, and *)
(* what of it remains without them.                                        *)
Windows(t, range, size, lap) ==
    LET piece(s) == Stripped(t, s, WindowEnd(t, s, range.to, size))
    IN  {[at |-> s, from |-> piece(s).from, to |-> piece(s).to] :
            s \in {s \in Starts(t, range, size, Min({lap, size \div 2})) : ~Empty(piece(s))}}

-----------------------------------------------------------------------------
(***************************************************************************)
(* Sections.  A heading is named by the offset of its line.                *)
(***************************************************************************)

Headings(t) == {h \in 0 .. Len(t) - 1 : t[h + 1] \in Range(Marks) /\ (h = 0 \/ t[h] = "|")}

LevelAt(t, h) == Level(t[h + 1])

LineEnd(t, h) == Min({Len(t)} \cup {e \in h .. Len(t) - 1 : t[e + 1] = "|"})

(* Faulty variant: a heading of the same level stays open.                 *)
PushedBelow(t, open, h) ==
    {g \in open : \E k \in open : k >= g /\ LevelAt(t, k) <= LevelAt(t, h)} \cup {h}

(* Open headings end, from the last one back to one of a higher level.     *)
Pushed(t, open, h) ==
    {g \in open : \E k \in open : k >= g /\ LevelAt(t, k) < LevelAt(t, h)} \cup {h}

(* The headings that are open behind the first n characters.               *)
Open(t) ==
    LET open[n \in 0 .. Len(t)] ==
            IF n = 0 THEN {}
            ELSE IF n - 1 \in Headings(t) THEN Pushed(t, open[n - 1], n - 1) ELSE open[n - 1]
    IN  open

(* From the line below a heading, or the top, to the next heading.  It is  *)
(* said to start where its first line does, be that a blank one.           *)
Section(t, h) ==
    LET start == IF h = -1 THEN 0 ELSE LineEnd(t, h) + 1
        next == Min({Len(t) + 1} \cup {k \in Headings(t) : k > h})
    IN  [path |-> Open(t)[h + 1], at |-> start, body |-> Stripped(t, start, next - 1)]

SplitSections(t, aware) ==
    LET whole == [path |-> {}, at |-> 0, body |-> [from |-> 0, to |-> Len(t)]]
        sections == {s \in {Section(t, h) : h \in {-1} \cup Headings(t)} : ~Empty(s.body)}
    IN  IF ~aware \/ sections = {} THEN {whole} ELSE sections

-----------------------------------------------------------------------------
(***************************************************************************)
(* The chunks.                                                             *)
(***************************************************************************)

(* Faulty variant: parents overlap as their children do.                   *)
ParentsLapping(t, d, body) == Windows(t, body, Max({d.parent, d.child}), d.overlap)

(* Parents are not smaller than children, and do not overlap.              *)
Parents(t, d, body) == Windows(t, body, Max({d.parent, d.child}), 0)

(* A child: at is char_start, from and to are where the text really is; a  *)
(* parent is named by where its section and its window start.              *)
Chunk(s, p, c, spans) ==
    LET at == s.at + (p.at - s.body.from) + (c.at - p.from)
    IN  [path |-> s.path, key |-> <<s.at, p.at>>, parent |-> [from |-> p.from, to |-> p.to],
         from |-> c.from, to |-> c.to, at |-> at, page |-> PageForOffset(at, spans)]

Children(t, d, p) == Windows(t, [from |-> p.from, to |-> p.to], d.child, d.overlap)

ChunkDocument(d) ==
    LET t == Texts(d.pages)[Len(d.pages)]
        spans == IF d.paged THEN Spans(d.pages) ELSE {}
    IN  UNION {UNION {{Chunk(s, p, c, spans) : c \in Children(t, d, p)} :
                         p \in Parents(t, d, s.body)} :
                  s \in SplitSections(t, d.aware)}

NoDocument == [pages |-> <<>>, paged |-> FALSE, aware |-> FALSE, child |-> 1, parent |-> 1, overlap |-> 0]

ChunkingInit == document = NoDocument /\ chunks = {}

Cut(d) ==
    /\ document' = d
    /\ chunks' = ChunkDocument(d)

ChunkingNext == document = NoDocument /\ \E d \in Documents : Cut(d)

ChunkingSpec == ChunkingInit /\ [][ChunkingNext]_chunkVars

-----------------------------------------------------------------------------
(***************************************************************************)
(* Properties.                                                             *)
(***************************************************************************)

Text == Texts(document.pages)[Len(document.pages)]

(* Where the line begins that an offset is in.                             *)
LineStart(offset) == Max({0} \cup {i \in 1 .. offset : Text[i] = "|"})

Heading(h) == document.aware /\ h \in Headings(Text)

(* Every character that is no blank and not of a heading is in some chunk, *)
(* and no chunk is longer than the size of its kind.                       *)
NothingLost ==
    /\ \A o \in 0 .. Len(Text) - 1 :
          \/ Blank(Text[o + 1]) \/ Heading(LineStart(o))
          \/ \E c \in chunks : o \in c.from .. c.to - 1
    /\ \A c \in chunks : c.to - c.from <= document.child

(* The headings a chunk is labelled with are those that it is under: each  *)
(* that no later heading of its level or of a higher one has ended.  A     *)
(* text of headings alone has no labels.                                   *)
UnderItsHeadings ==
    \A c \in chunks :
        LET line == LineStart(c.from)
            above == {h \in 0 .. line - 1 : Heading(h)}
        IN  \/ Heading(line)
            \/ c.path = {h \in above : \A k \in above : k > h => LevelAt(Text, k) > LevelAt(Text, h)}

(* A child is within its parent; two parents do not share a character, so  *)
(* that no text is shown twice when the children of both are found.        *)
WithinParents ==
    \A c \in chunks :
        /\ c.parent.from <= c.from /\ c.to <= c.parent.to
        /\ \A e \in chunks : e.key # c.key =>
              c.parent.to <= e.parent.from \/ e.parent.to <= c.parent.from

(* The page that the character at an offset was on: the first pages up to  *)
(* that one have a text that is long enough.                               *)
PageOf(offset) == Min({n \in DOMAIN document.pages : offset < Len(Texts(document.pages)[n])})

(* The page a chunk is tagged with is never behind the one it begins on.   *)
PageNotLate ==
    document.paged => \A c \in chunks : c.page <= PageOf(c.from)

(* The chunks are the text: all of it, under its headings, each text once  *)
(* among the parents, and no page number that is too high.                 *)
ChunksFaithful == NothingLost /\ UnderItsHeadings /\ WithinParents /\ PageNotLate

=============================================================================

------------------------------ MODULE Chunking ------------------------------
(***************************************************************************)
(* How a text is cut: blast_radius/textproc.py cleans it, tells kernel     *)
(* logs from prose and finds sentences, blast_radius/chunking.py splits    *)
(* what is too long.  A part of a text is an interval of its words.        *)
(***************************************************************************)
EXTENDS Selection, FiniteSetsExt, Functions

CONSTANTS MaxChars,
          TraceWindow,      \* tokens on either side that decide about one
          MinTraceTokens,   \* a shorter run of log tokens is prose
          MinProseBetween   \* shorter prose between two logs is log

(* A word looks like part of a kernel log or not, and may end a sentence or *)
(* paragraph.  One "word" can be an HTML tag, which looks like a log where  *)
(* nothing takes it for a tag (<TASK>), or the opening of a kernel CVE.     *)
Word == [len : Nat \ {0}, log : BOOLEAN, ends : BOOLEAN,
         as : {"word", "inline", "block", "opening"}]

Part == [from : Nat \ {0}, to : Nat \ {0}]

ASSUME ChunkingAssumption ==
    /\ {MaxChars, MinTraceTokens} \subseteq Nat \ {0}
    /\ {TraceWindow, MinProseBetween} \subseteq Nat
(* A row of log tokens as long as a trace reaches beyond the window.        *)
ASSUME WindowAssumption == TraceWindow < MinTraceTokens

(* len(" ".join(words)), of one part and of a sequence of parts.            *)
Length(text, p) ==
    SumFunction([i \in p.from .. p.to |-> text[i].len]) + (p.to - p.from)

JoinedLength(text, parts) ==
    IF parts = <<>> THEN 0
    ELSE SumFunction([k \in DOMAIN parts |-> Length(text, parts[k])]) + Len(parts) - 1

-----------------------------------------------------------------------------
(* Cleaning *)

(* strip_html: the tags go, and a block-level one ends a paragraph. *)
Stripped(raw) ==
    LET kept == {i \in DOMAIN raw : raw[i].as \notin {"inline", "block"}}
        closes(i) == \E j \in DOMAIN raw : /\ i < j /\ raw[j].as = "block"
                                          /\ (i + 1)..(j - 1) \cap kept = {}
    IN  Selected([i \in DOMAIN raw |-> [raw[i] EXCEPT !.ends = @ \/ closes(i)]], kept)

(* remove_kernel_boilerplate *)
WithoutOpening(raw) ==
    IF raw # <<>> /\ Head(raw).as = "opening" THEN Tail(raw) ELSE raw

-----------------------------------------------------------------------------
(* segment_traces *)

(* At least 0.4 of the window around a token looks like a log. *)
InTrace(text, i) ==
    LET window == {j \in DOMAIN text : j <= i + TraceWindow /\ i <= j + TraceWindow}
    IN  5 * Cardinality({j \in window : text[j].log}) >= 2 * Cardinality(window)

(* The longest parts that are all within a set of words, or all outside. *)
Runs(text, words) ==
    {p \in [from : DOMAIN text, to : DOMAIN text] :
       /\ p.from <= p.to
       /\ p.from .. p.to \subseteq words \/ p.from .. p.to \cap words = {}
       /\ p.from > 1 => (p.from - 1 \in words <=> p.from \notin words)
       /\ p.to < Len(text) => (p.to + 1 \in words <=> p.to \notin words)}

(* A dense run takes the log tokens next to it ... *)
Widened(text, p) ==
    {i \in DOMAIN text : \/ i \in p.from .. p.to
                         \/ i < p.from /\ \A k \in i .. p.from - 1 : text[k].log
                         \/ i > p.to /\ \A k \in p.to + 1 .. i : text[k].log}

(* ... and gives up what comes before its first and after its last.         *)
Snapped(text, p) ==
    LET wide == Widened(text, p)
    IN  {i \in wide : \E j, k \in wide : j <= i /\ i <= k /\ text[j].log /\ text[k].log}

(* The words in traces, runs that are too short left out. *)
Traced(text) ==
    LET dense == {i \in DOMAIN text : InTrace(text, i)}
    IN  UNION {s \in {Snapped(text, p) : p \in {r \in Runs(text, dense) : r.from \in dense}} :
                 Cardinality(s) >= MinTraceTokens}

(* _absorb_log_fragments: and with the short prose between two traces. *)
TraceWords(text) ==
    LET traced == Traced(text)
        between == {p \in Runs(text, traced) : /\ p.from \notin traced
                                               /\ p.from > 1 /\ p.to < Len(text)
                                               /\ Length(text, p) < MinProseBetween}
    IN  traced \cup (UNION {p.from .. p.to : p \in between})

-----------------------------------------------------------------------------
(* split_sentences, and _split_hard for what is too long.  Each is told by  *)
(* the part that starts at p.from; what is left after it is split alike.    *)

IsSentence(text, p, s) ==
    /\ s.from = p.from /\ s.to \in p.from .. p.to
    /\ text[s.to].ends \/ s.to = p.to
    /\ \A i \in p.from .. (s.to - 1) : ~text[i].ends

(* As many words as fit, and one in any case. *)
IsHardPart(text, p, s) ==
    /\ s.from = p.from /\ s.to \in p.from .. p.to
    /\ s.to = s.from \/ Length(text, s) <= MaxChars
    /\ s.to < p.to => Length(text, [s EXCEPT !.to = @ + 1]) > MaxChars

(* A sentence, or the first part of one that is longer than a chunk. *)
IsUnit(text, p, u) ==
    \E s \in [from : {p.from}, to : p.from .. p.to] :
      /\ IsSentence(text, p, s)
      /\ IF Length(text, s) <= MaxChars THEN u = s ELSE IsHardPart(text, s, u)
=============================================================================

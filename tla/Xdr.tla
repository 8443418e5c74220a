--------------------------------- MODULE Xdr ---------------------------------
(***************************************************************************)
(* libMesh::Xdr (src/src/utils/xdr_cxx.C): a file opened in one of four    *)
(* modes, WRITE / READ (plain text through an ostream / istream, with      *)
(* .gz, .bz2 and .xz names compressed or decompressed around it) and       *)
(* ENCODE / DECODE (binary through the system XDR library), and the calls  *)
(* data(), data_stream() and comment() that write or read one item.        *)
(*                                                                         *)
(* A caller writes a script of calls to a file with one Xdr object, closes *)
(* it, and reads the same script back with a second object.  Text files    *)
(* are sequences of characters; a binary file is the sequence of the       *)
(* values the XDR library encoded (the library itself is not modelled).    *)
(* Numbers are small naturals written as digits (a floating value in       *)
(* scientific notation: its digits and the exponent mark "e"; a complex    *)
(* value is a pair), strings are sequences of "a" and " ", a comment is    *)
(* the one character "#".                                                  *)
(***************************************************************************)
EXTENDS Naturals, Sequences, SequencesExt, TLC

CONSTANTS
  Scenarios,     \* records [name, binary, script, target]: the file name,
                 \* ENCODE/DECODE instead of WRITE/READ, the calls, and what
                 \* the reader's vector holds before it is read into
  NoBreak,       \* data_stream's line_break = libMesh::invalid_uint
  SizeT,         \* 2^(bits of std::size_t), scaled down: only the wrap matters
  Pid            \* the "_<pid>" suffix of a temporarily decompressed file

VARIABLES
  sc,            \* the scenario
  phase,         \* "idle", "write", "written", "read", "done"
  obj,           \* the Xdr object: [mode, name, file, open, gz, bz, xz];
                 \* file is the file its stream reads or writes
  k,             \* the next call of the script
  disk,          \* file name -> contents
  r,             \* the istream state [pos, fail, eof]; pos is also XDR's
  got            \* what the reader has read: [ok, val] per call

vars == <<sc, phase, obj, k, disk, r, got>>

Call == sc.script[k]

-----------------------------------------------------------------------------
(* File names and the suffix tests at lines 200-202, 235-237, 84 and 90.   *)

\* std::string::rfind: 0-based start of the last occurrence, or npos.
NPos == SizeT - 1

RFind(s, t) ==
  LET at == {i \in 0..(Len(s) - Len(t)) : SubSeq(s, i + 1, i + Len(t)) = t}
  IN IF at = {} THEN NPos ELSE CHOOSE i \in at : \A j \in at : j <= i

\* name.rfind(ext) == name.size() - ext.size(), in size_t arithmetic.
HasExt(name, ext) == RFind(name, ext) = (Len(name) - Len(ext)) % SizeT

\* std::string(name.begin(), name.end() - n), and name.erase(end() - n, end()).
DropTail(name, n) == SubSeq(name, 1, Len(name) - n)

GZ == <<".", "g", "z">>
BZ2 == <<".", "b", "z", "2">>
XZ == <<".", "x", "z">>

\* Utility::unzip_file (an external collaborator): a .bz2 or .xz file is
\* decompressed next to itself as base_<pid>, whose name is returned.
UnzipName(name) ==
  IF IsSuffix(BZ2, name) THEN DropTail(name, 4) \o Pid
  ELSE IF IsSuffix(XZ, name) THEN DropTail(name, 3) \o Pid
  ELSE name

RemoveFile(d, f) == [g \in DOMAIN d \ {f} |-> d[g]]

\* Mutant: the decompressed copy looked for without the pid suffix.
remove_unzipped_file_NoPid(d, name) ==
  LET f1 == IF HasExt(name, BZ2) THEN RemoveFile(d, DropTail(name, 4)) ELSE d
  IN IF HasExt(name, XZ) THEN RemoveFile(f1, DropTail(name, 3)) ELSE f1

\* Lines 76-95: remove_unzipped_file.
remove_unzipped_file(d, name) ==
  LET f1 == IF HasExt(name, BZ2) THEN RemoveFile(d, DropTail(name, 4) \o Pid) ELSE d
  IN IF HasExt(name, XZ) THEN RemoveFile(f1, DropTail(name, 3) \o Pid) ELSE f1

\* Lines 46-72: bzip_file / xzip_file run "bzip2 -f" / "xz -f" on the file.
Compress(d, plain, ext) ==
  RemoveFile(d, plain) @@ (plain \o ext :> d[plain])

-----------------------------------------------------------------------------
(* The text format written by the WRITE mode.                              *)

Tab == <<"\t", " ">>
NL == <<"\n">>
Comment == <<"#">>

Digits(v) == <<ToString(v)>>

\* std::scientific output of a floating value: the digits of its mantissa
\* and the exponent.
Sci(v) == Digits(v) \o <<"e">>

IntKinds == {"int", "vint"}
RealKinds == {"real", "vreal"}
ComplexKinds == {"complex", "vcomplex"}
VectorKinds == {"vint", "vstring", "vreal", "vcomplex"}

\* *out << a: a number as digits, a floating value in scientific notation,
\* a string as its characters; lines 731-735: do_write(std::complex) as
\* the real part, "\t " and the imaginary part.
Text(kind, v) ==
  CASE kind \in IntKinds     -> Digits(v)
    [] kind \in RealKinds    -> Sci(v)
    [] kind \in ComplexKinds -> Sci(v[1]) \o Tab \o Sci(v[2])
    [] OTHER                 -> v

\* Lines 825-831: "\t " and the comment if there is one, then a newline.
Trailer(c) == (IF c = <<>> THEN <<>> ELSE Tab \o c) \o NL

\* Lines 729-775: do_write, a vector as data(length, "# vector length")
\* (a complex one with the comment "# vector length x 2 (complex)")
\* followed by each element and "\t ".
do_write(c) ==
  IF c.kind \notin VectorKinds THEN Text(c.kind, c.val)
  ELSE Digits(Len(c.val)) \o Trailer(Comment)
       \o FlattenSeq([i \in DOMAIN c.val |-> Text(c.kind, c.val[i]) \o Tab])

\* One value of a data_stream: the generic one (line 920, 932) writes the
\* value, _xfp_data_stream (1102, 1114) the same in scientific notation
\* with n_digits, _complex_data_stream (1260, 1272) the two parts with a
\* space between them.
StreamItem(kind, v) ==
  CASE kind = "vint"  -> Digits(v)
    [] kind = "vreal" -> Sci(v)
    [] OTHER          -> Sci(v[1]) \o <<" ">> \o Sci(v[2])

\* Lines 916-946, 1094-1128 and 1247-1284: data_stream's text, line_break
\* values to a line with a space after every value that does not end a
\* full line.
StreamText(kind, vals, lb) ==
  LET n == Len(vals)
      imax == IF lb = NoBreak THEN n ELSE IF lb < n THEN lb ELSE n
      col(i) == (i - 1) % imax
  IN IF lb = NoBreak
     THEN FlattenSeq([i \in 1..n |-> StreamItem(kind, vals[i]) \o <<" ">>])
     ELSE FlattenSeq([i \in 1..n |->
            StreamItem(kind, vals[i]) \o (IF col(i) + 1 # imax THEN <<" ">> ELSE <<>>)
                            \o (IF col(i) + 1 = imax \/ i = n THEN NL ELSE <<>>)])

-----------------------------------------------------------------------------
(* The istream operations the READ mode uses, on r = [pos, fail, eof].     *)

Ws == {" ", "\t", "\n"}

DigitChars == {"0", "1", "2", "3", "4", "5", "6", "7", "8", "9"}

\* Every character a file holds.
Chars == Ws \cup DigitChars \cup {"a", "#", "e"}

\* The characters operator>> takes for a floating value.
FloatChars == DigitChars \cup {"e"}

Good(st) == ~st.fail /\ ~st.eof

\* The first position from p on whose character is not in the set C.
RECURSIVE SkipWhile(_, _, _)
SkipWhile(s, p, C) == IF p <= Len(s) /\ s[p] \in C THEN SkipWhile(s, p + 1, C) ELSE p

\* operator>>: skip white space, take the longest run of characters the
\* type accepts; none taken sets failbit, reaching the end sets eofbit.
Extract(s, st, Accept) ==
  LET p == SkipWhile(s, st.pos, Ws)
      q == SkipWhile(s, p, Accept)
  IN CASE ~Good(st) -> [st |-> [st EXCEPT !.fail = TRUE], tok |-> <<>>]
       [] q = p     -> [st |-> [pos |-> p, fail |-> TRUE, eof |-> p > Len(s)], tok |-> <<>>]
       [] OTHER     -> [st |-> [pos |-> q, fail |-> FALSE, eof |-> q > Len(s)],
                        tok |-> SubSeq(s, p, q - 1)]

Num(tok) == FoldLeft(LAMBDA a, ch : 10 * a + (CHOOSE d \in 0..9 : ToString(d) = ch), 0, tok)

\* getline(comm, comm_len): the rest of the line, newline consumed.
Getline(s, st) ==
  LET e == SkipWhile(s, st.pos, Chars \ {"\n"})
  IN CASE ~Good(st) \/ st.pos > Len(s) ->
            [st |-> [st EXCEPT !.fail = TRUE, !.eof = st.pos > Len(s)], line |-> <<>>]
       [] e > Len(s) -> [st |-> [st EXCEPT !.pos = e, !.eof = TRUE],
                          line |-> SubSeq(s, st.pos, e - 1)]
       [] OTHER      -> [st |-> [st EXCEPT !.pos = e + 1], line |-> SubSeq(s, st.pos, e - 1)]

RECURSIVE ExtractN(_, _, _, _)
ExtractN(s, st, n, Accept) ==
  IF n = 0 THEN [st |-> st, toks |-> <<>>]
  ELSE LET x == Extract(s, st, Accept)
           rest == ExtractN(s, x.st, n - 1, Accept)
       IN [st |-> rest.st, toks |-> <<x.tok>> \o rest.toks]

\* The characters operator>> takes for one value of a kind.
Accept(kind) ==
  CASE kind \in IntKinds -> DigitChars
    [] kind \in {"string", "vstring"} -> Chars \ Ws
    [] OTHER -> FloatChars

\* A floating token's value: its mantissa digits.
RealNum(tok) == Num(SelectSeq(tok, LAMBDA ch : ch \in DigitChars))

Value(kind, tok) ==
  CASE kind \in IntKinds -> Num(tok)
    [] kind \in RealKinds \cup ComplexKinds -> RealNum(tok)
    [] OTHER -> tok

\* Values per element: a complex element is two extractions, real part
\* first (lines 674, 720, 1238).
Width(kind) == IF kind \in ComplexKinds THEN 2 ELSE 1

Elements(kind, toks) ==
  IF kind \in ComplexKinds
  THEN [i \in 1..(Len(toks) \div 2) |->
          <<RealNum(toks[2 * i - 1]), RealNum(toks[2 * i])>>]
  ELSE [i \in DOMAIN toks |-> Value(kind, toks[i])]

\* Lines 664-677 and 694-726 (every kind but a string): a value is
\* extracted (a complex one as two) and the rest of its line dropped; a
\* vector is data(length) followed by that many elements and a getline.
ReadValue(s, st, c) ==
  IF c.kind \in VectorKinds
  THEN LET x == Extract(s, st, DigitChars) g == Getline(s, x.st)
           n == Num(x.tok)
           e == ExtractN(s, g.st, Width(c.kind) * n, Accept(c.kind))
           h == Getline(s, e.st)
       IN [st |-> h.st, val |-> Elements(c.kind, e.toks)]
  ELSE LET e == ExtractN(s, st, Width(c.kind), Accept(c.kind))
           g == Getline(s, e.st)
           v == Elements(c.kind, e.toks)
       IN [st |-> g.st, val |-> v[1]]

\* Mutant: a string read as the whole line, its trailing comment included.
do_read_NoTabStop(s, st, c) ==
  IF c.kind = "string"
  THEN LET g == Getline(s, st) IN [st |-> g.st, val |-> g.line]
  ELSE ReadValue(s, st, c)

\* Lines 664-726: do_read.  A string is a whole line up to its first tab.
do_read(s, st, c) ==
  IF c.kind = "string"
  THEN LET g == Getline(s, st)
           tab == SelectInSeq(g.line, LAMBDA ch : ch = "\t")
       IN [st |-> g.st, val |-> IF tab = 0 THEN g.line ELSE SubSeq(g.line, 1, tab - 1)]
  ELSE ReadValue(s, st, c)

-----------------------------------------------------------------------------
(* ENCODE / DECODE: lines 483-557, xdr_translate.                          *)

\* What xdr_translate encodes: a complex value as its two parts (510-518),
\* a vector as its length, then its elements (xdr_vector is called only
\* for a nonzero length), a complex vector element by element (535-545).
Encoded(c) ==
  CASE c.kind \in {"int", "string", "real"} -> <<c.val>>
    [] c.kind = "complex" -> c.val
    [] c.kind = "vcomplex" -> <<Len(c.val)>> \o FlattenSeq(c.val)
    [] OTHER -> <<Len(c.val)>> \o c.val

\* Decoding: a numeric vector of length 0 is left as it was (no resize at
\* line 526); vectors of strings and of complex values are resized first
\* (lines 539, 552).
Decoded(s, p, c) ==
  CASE c.kind \in {"int", "string", "real"} -> [pos |-> p + 1, val |-> s[p]]
    [] c.kind = "complex" -> [pos |-> p + 2, val |-> <<s[p], s[p + 1]>>]
    [] c.kind = "vcomplex" ->
         LET n == s[p] IN
         [pos |-> p + 1 + 2 * n,
          val |-> [i \in 1..n |-> <<s[p + 2 * i - 1], s[p + 2 * i]>>]]
    [] OTHER ->
         LET n == s[p] IN
         [pos |-> p + 1 + n,
          val |-> IF n = 0 /\ c.kind \in {"vint", "vreal"} THEN sc.target
                  ELSE SubSeq(s, p + 1, p + n)]

-----------------------------------------------------------------------------

Target == obj.file

Put(text) == disk' = [disk EXCEPT ![Target] = @ \o text]

\* Lines 345-391: is_open().
is_open == obj.open /\ (obj.mode \in {"READ", "WRITE"} => Good(r))

Init ==
  /\ sc \in Scenarios
  /\ phase = "idle"
  /\ obj = [mode |-> "none", name |-> <<>>, file |-> <<>>, open |-> FALSE,
            gz |-> FALSE, bz |-> FALSE, xz |-> FALSE]
  /\ k = 1
  /\ disk = [f \in {} |-> <<>>]
  /\ r = [pos |-> 1, fail |-> FALSE, eof |-> FALSE]
  /\ got = <<>>

(***************************************************************************)
(* Lines 103-119 and 166-273: Xdr(name, mode) and open().  The writer      *)
(* opens the file for writing (truncating it), with a .bz2 or .xz suffix   *)
(* removed; the reader opens the file, decompressed to base_<pid> first.   *)
(***************************************************************************)
Open(writing) ==
  LET mode == IF sc.binary THEN IF writing THEN "ENCODE" ELSE "DECODE"
              ELSE IF writing THEN "WRITE" ELSE "READ"
      text == mode \in {"READ", "WRITE"}
      gz == text /\ HasExt(sc.name, GZ)
      bz == text /\ HasExt(sc.name, BZ2)
      xz == text /\ HasExt(sc.name, XZ)
      \* lines 253-257: the .bz2, then the .xz suffix erased
      erased == LET n1 == IF bz THEN DropTail(sc.name, 4) ELSE sc.name
                IN IF xz THEN DropTail(n1, 3) ELSE n1
      file == CASE mode = "WRITE" /\ ~gz -> erased
                [] mode = "READ" /\ ~gz  -> UnzipName(sc.name)
                [] OTHER                 -> sc.name
  IN /\ phase = IF writing THEN "idle" ELSE "written"
     /\ obj' = [mode |-> mode, name |-> sc.name, file |-> file, open |-> TRUE,
               gz |-> gz, bz |-> bz, xz |-> xz]
     /\ phase' = IF writing THEN "write" ELSE "read"
     /\ k' = 1
     /\ r' = [pos |-> 1, fail |-> FALSE, eof |-> FALSE]
     /\ disk' = IF writing THEN (file :> <<>>) @@ disk
                ELSE disk @@ (file :> disk[sc.name])
     /\ UNCHANGED <<sc, got>>

\* Lines 778-839: data(a, comment).
Data ==
  /\ phase \in {"write", "read"}
  /\ k <= Len(sc.script) /\ Call.op = "data"
  /\ \/ /\ obj.mode = "WRITE"
        /\ Put(do_write(Call) \o Trailer(Call.comment))
        /\ UNCHANGED <<r, got>>
     \/ /\ obj.mode = "READ"
        /\ LET x == do_read(disk[Target], r, Call)
           IN /\ r' = x.st
              /\ got' = Append(got, [ok |-> ~x.st.fail, val |-> x.val])
        /\ UNCHANGED disk
     \/ /\ obj.mode = "ENCODE"
        /\ Put(Encoded(Call))
        /\ UNCHANGED <<r, got>>
     \/ /\ obj.mode = "DECODE"
        /\ LET x == Decoded(disk[Target], r.pos, Call)
           IN /\ r' = [r EXCEPT !.pos = x.pos]
              /\ got' = Append(got, [ok |-> TRUE, val |-> x.val])
        /\ UNCHANGED disk
  /\ k' = k + 1
  /\ UNCHANGED <<sc, phase, obj>>

\* The values a binary stream decodes, grouped into elements.
Grouped(kind, vals) ==
  IF kind \in ComplexKinds
  THEN [i \in 1..(Len(vals) \div 2) |-> <<vals[2 * i - 1], vals[2 * i]>>]
  ELSE vals

\* One data_stream call of a kind, in the object's mode: WRITE puts the
\* text, READ extracts w values and leaves the rest of the line in the
\* stream, ENCODE puts the w values flat, DECODE takes w values.
StreamStep(kind, w, flat) ==
  /\ phase \in {"write", "read"}
  /\ k <= Len(sc.script) /\ Call.op = "stream" /\ Call.kind = kind
  /\ \/ /\ obj.mode = "WRITE"
        /\ Put(StreamText(kind, Call.val, Call.lb))
        /\ UNCHANGED <<r, got>>
     \/ /\ obj.mode = "READ"
        /\ LET x == ExtractN(disk[Target], r, w, Accept(kind))
           IN /\ r' = x.st
              /\ got' = Append(got, [ok |-> ~x.st.fail, val |-> Elements(kind, x.toks)])
        /\ UNCHANGED disk
     \/ /\ obj.mode = "ENCODE"
        /\ Put(flat)
        /\ UNCHANGED <<r, got>>
     \/ /\ obj.mode = "DECODE"
        /\ r' = [r EXCEPT !.pos = @ + w]
        /\ got' = Append(got, [ok |-> TRUE,
                               val |-> Grouped(kind, SubSeq(disk[Target], r.pos, r.pos + w - 1))])
        /\ UNCHANGED disk
  /\ k' = k + 1
  /\ UNCHANGED <<sc, phase, obj>>

\* Lines 843-954: data_stream(val, len, line_break) on integers.
DataStream == StreamStep("vint", Len(Call.val), Call.val)

\* Lines 958-1003 and 1007-1147: data_stream on double, float and long
\* double, through _xfp_data_stream.  A type without an xdr_proc (long
\* double) goes through a buffer of doubles; with the small integral values
\* used here that conversion loses nothing.
XfpDataStream == StreamStep("vreal", Len(Call.val), Call.val)

\* Lines 1149-1297: data_stream on complex values, through
\* _complex_data_stream: 2 * len doubles, real part first.
ComplexDataStream == StreamStep("vcomplex", 2 * Len(Call.val), FlattenSeq(Call.val))

\* Lines 1298-1322: comment(); nothing in the binary modes.
CommentCall ==
  /\ phase \in {"write", "read"}
  /\ k <= Len(sc.script) /\ Call.op = "comment"
  /\ \/ /\ obj.mode = "WRITE"
        /\ Put(Tab \o Comment \o NL)
        /\ UNCHANGED r
     \/ /\ obj.mode = "READ"
        /\ r' = Getline(disk[Target], r).st
        /\ UNCHANGED disk
     \/ /\ obj.mode \in {"ENCODE", "DECODE"}
        /\ UNCHANGED <<disk, r>>
  /\ k' = k + 1
  /\ UNCHANGED <<sc, phase, obj, got>>

\* Lines 159-162 and 277-341: ~Xdr() and close().  A written .bz2 / .xz
\* file is compressed; a read one's decompressed copy is removed.
Close ==
  /\ phase \in {"write", "read"}
  /\ k > Len(sc.script)
  /\ disk' = CASE obj.mode = "WRITE" /\ obj.bz -> Compress(disk, DropTail(obj.name, 4), BZ2)
               [] obj.mode = "WRITE" /\ obj.xz -> Compress(disk, DropTail(obj.name, 3), XZ)
               [] obj.mode = "READ" /\ (obj.bz \/ obj.xz) -> remove_unzipped_file(disk, obj.name)
               [] OTHER -> disk
  /\ obj' = [obj EXCEPT !.name = <<>>, !.open = FALSE]
  /\ phase' = IF phase = "write" THEN "written" ELSE "done"
  /\ UNCHANGED <<sc, k, r, got>>

Done ==
  /\ phase = "done"
  /\ UNCHANGED vars

Next ==
  \/ Open(TRUE) \/ Open(FALSE) \/ Data \/ DataStream \/ XfpDataStream
  \/ ComplexDataStream \/ CommentCall \/ Close \/ Done

Spec == Init /\ [][Next]_vars

-----------------------------------------------------------------------------

\* The values the script hands to data() and data_stream(), in order.
Written == LET items == SelectSeq(sc.script, LAMBDA c : c.op # "comment")
           IN [i \in DOMAIN items |-> items[i].val]

\* Reading a file back with the calls that wrote it gives every value as
\* it was written, and the stream stays good (is_open()) throughout: the
\* text format's separators, trailing comments and line breaks written by
\* data(), do_write() and data_stream() are consumed exactly by do_read()'s
\* extractions and getlines, and the binary path decodes what it encoded.
ReadBack ==
  /\ \A i \in DOMAIN got : got[i].ok /\ got[i].val = Written[i]
  /\ phase \in {"write", "read"} => is_open
  /\ phase = "done" => Len(got) = Len(Written)

\* Between the two objects and at the end, the only file on disk is the
\* one the caller named: a .bz2 / .xz file was compressed in place by
\* close(), and the reader's decompressed copy was removed again.
NoStrayFiles == phase \in {"written", "done"} => DOMAIN disk = {sc.name}

\* A file is handled as compressed only when its name ends with the
\* extension: the gzipped_file, bzipped_file and xzipped_file tests of
\* open() are suffix tests.
CompressedOnlyBySuffix ==
  /\ obj.gz => IsSuffix(GZ, obj.name)
  /\ obj.bz => IsSuffix(BZ2, obj.name)
  /\ obj.xz => IsSuffix(XZ, obj.name)

==============================================================================

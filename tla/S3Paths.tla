------------------------------ MODULE S3Paths ------------------------------
(***************************************************************************)
(* The string and path conversions that src/s3.go performs on every       *)
(* request: the split of the URL path into (bucket, key) in ServeHTTP, the *)
(* mapping of (bucket, key) onto a filesystem path by filepath.Join (which *)
(* cleans the result), and the conversion of a walked file path back into *)
(* a key by filepath.Rel and filepath.ToSlash in ListObjects.             *)
(*                                                                         *)
(* A string is a sequence of one-character strings, so that the code's   *)
(* byte-level operations (TrimPrefix, SplitN, HasPrefix) are modelled by  *)
(* what they do.  A filesystem path is a sequence of names (each a        *)
(* string); the empty sequence is the filesystem root "/".  Root, the     *)
(* storage root, is an absolute, clean path.                              *)
(*                                                                         *)
(* A request path arrives percent-encoded.  net/http keeps it as sent     *)
(* (r.URL.EscapedPath(), which the ServeMux cleans and matches) and       *)
(* decodes it into r.URL.Path (which ServeHTTP splits).  An escape "%XX"  *)
(* is one element of the escaped path, a token that decoding turns into  *)
(* its character.                                                         *)
(***************************************************************************)
EXTENDS Naturals, Sequences, SequencesExt

CONSTANTS
    Chars,      \* the characters the modelled strings are made of
    Root        \* the storage root, a clean absolute path

Str == Seq(Chars)

Slash == "/"
Dot   == <<".">>
DotDot == <<".", ".">>

\* The escapes the modelled request paths use: "%2e" is ".", "%2f" is "/".
PctEscapes == ("%2e" :> ".") @@ ("%2f" :> Slash)

\* url.PathUnescape as net/http applies it to the request target to fill
\* r.URL.Path: every escape becomes its character, the rest is kept.
Unescape(u) ==
    [i \in DOMAIN u |-> IF u[i] \in DOMAIN PctEscapes THEN PctEscapes[u[i]] ELSE u[i]]

\* strings.TrimPrefix(s, "/")
TrimSlash(s) == IF s # <<>> /\ Head(s) = Slash THEN Tail(s) ELSE s

\* The index of the first "/" of s, 0 when there is none.
FirstSlash(s) == SelectInSeq(s, LAMBDA c : c = Slash)

\* strings.SplitN(s, "/", 2): one part when s has no "/", else two.
SplitN2(s) ==
    LET i == FirstSlash(s)
    IN  IF i = 0 THEN <<s>>
                 ELSE <<SubSeq(s, 1, i - 1), SubSeq(s, i + 1, Len(s))>>

\* The request target computed at the top of ServeHTTP: the trimmed path,
\* the bucket parts[0] and the key parts[1] ("" when there is no parts[1]).
ParseRequestPath(urlPath) ==
    LET path  == TrimSlash(urlPath)
        parts == SplitN2(path)
    IN  [path   |-> path,
         bucket |-> parts[1],
         key    |-> IF Len(parts) > 1 THEN parts[2] ELSE <<>>]

\* The "/"-separated elements of s, as strings.Split(s, "/") returns them.
RECURSIVE SplitSlash(_)
SplitSlash(s) ==
    LET i == FirstSlash(s)
    IN  IF i = 0 THEN <<s>>
                 ELSE <<SubSeq(s, 1, i - 1)>> \o SplitSlash(SubSeq(s, i + 1, Len(s)))

\* Variant that treats ".." like "." instead of removing the last name.
CleanStepNoPop(p, elem) ==
    IF elem = <<>> \/ elem = Dot \/ elem = DotDot THEN p ELSE Append(p, elem)

\* One element of filepath.Clean applied to an absolute clean path p: empty
\* elements and "." vanish, ".." removes the last name (and stays at "/").
CleanStep(p, elem) ==
    CASE elem = <<>> \/ elem = Dot -> p
      [] elem = DotDot              -> IF p = <<>> THEN p ELSE Front(p)
      [] OTHER                      -> Append(p, elem)

\* filepath.Join(s.root, bucket, key): join, then Clean.
JoinPath(bucket, key) ==
    FoldLeft(CleanStep, Root, <<bucket>> \o SplitSlash(key))

\* filepath.Join(s.root, bucket)
BucketPath(bucket) == JoinPath(bucket, <<>>)

\* filepath.Dir of a clean absolute path.
DirOf(p) == IF p = <<>> THEN p ELSE Front(p)

\* Every directory that must exist for p to exist (os.MkdirAll(p) makes
\* all of them, p included).
Ancestors(p) == {SubSeq(p, 1, n) : n \in 0 .. Len(p)}

\* strings.Join(elems, "/")
JoinSlash(elems) ==
    IF elems = <<>> THEN <<>>
    ELSE FoldLeft(LAMBDA acc, e : acc \o <<Slash>> \o e, Head(elems), Tail(elems))

\* filepath.ToSlash(filepath.Rel(base, p)) for a path p at or below base.
RelKey(base, p) ==
    IF p = base THEN Dot ELSE JoinSlash(SubSeq(p, Len(base) + 1, Len(p)))

\* Variant that lets "." and ".." through as names.
IsCleanURLDots(u) ==
    LET es    == Tail(SplitSlash(u))
        inner == IF es # <<>> /\ Last(es) = <<>> THEN Front(es) ELSE es
    IN  \A i \in DOMAIN inner : inner[i] # <<>>

\* net/http's ServeMux serves a path as it is only when cleanPath leaves it
\* unchanged: after the leading "/", no empty, "." or ".." element, a
\* trailing "/" apart.  Any other path is answered by a redirect.  Since Go
\* 1.22 the path cleaned is the escaped one, so an escaped dot is a
\* character like any other here.
IsCleanURL(u) ==
    LET es    == Tail(SplitSlash(u))
        inner == IF es # <<>> /\ Last(es) = <<>> THEN Front(es) ELSE es
    IN  \A i \in DOMAIN inner : inner[i] \notin {<<>>, Dot, DotDot}

\* strings.HasPrefix(s, prefix)
HasPrefix(s, prefix) == IsPrefix(prefix, s)

=============================================================================

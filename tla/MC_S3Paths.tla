----------------------------- MODULE MC_S3Paths -----------------------------
(***************************************************************************)
(* The path conversions of S3Paths checked on every short request path.   *)
(* The state is the r.URL.Path of one request; each step receives any     *)
(* other one, so every path of MC_URLs is a reachable state and the        *)
(* invariants below are checked on each.                                  *)
(***************************************************************************)
EXTENDS S3Paths

MC_Chars == {"/", ".", "a"}
MC_Root  == << <<"r">> >>

\* The storage root as the string filepath.Join starts from.
RootStr == <<"/", "r">>

\* r.URL.Path of a request in origin form: "/" and up to MaxLen characters.
MaxLen == 4
MC_URLs == { <<"/">> \o s : s \in UNION {[1 .. n -> MC_Chars] : n \in 0 .. MaxLen} }

VARIABLE url

Init == url \in MC_URLs

\* The next request arrives.
Receive == url' \in MC_URLs

Spec == Init /\ [][Receive]_url

req == ParseRequestPath(url)

(***************************************************************************)
(* Reference: filepath.Clean as its documentation states it, rules applied *)
(* in any order to the elements of a rooted path until none applies:      *)
(* (1) empty elements (repeated separators) and (2) "." elements vanish,  *)
(* (3) a name followed by ".." vanishes with it, (4) ".." at the start of *)
(* a rooted path vanishes.                                                 *)
(***************************************************************************)
RECURSIVE CleanRef(_)
CleanRef(es) ==
    LET empty == {i \in DOMAIN es : es[i] \in {<<>>, Dot}}
        inner == {i \in 1 .. Len(es) - 1 : es[i] # DotDot /\ es[i + 1] = DotDot}
    IN  CASE empty # {} -> CleanRef(RemoveAt(es, CHOOSE i \in empty : TRUE))
          [] inner # {} -> LET i == CHOOSE j \in inner : TRUE
                           IN  CleanRef(SubSeq(es, 1, i - 1) \o SubSeq(es, i + 2, Len(es)))
          [] es # <<>> /\ Head(es) = DotDot -> CleanRef(Tail(es))
          [] OTHER -> es

\* The string filepath.Join(s.root, bucket, key) cleans: the root, the
\* trimmed request path, one separator between them.
JoinedStr == RootStr \o <<Slash>> \o req.path

\* cleanPath of net/http's ServeMux for the request path: filepath.Clean's
\* rules, a trailing "/" kept unless the result is "/".
CleanURLRef ==
    LET es == CleanRef(SplitSlash(url))
    IN  <<Slash>> \o JoinSlash(es)
            \o (IF Last(url) = Slash /\ es # <<>> THEN <<Slash>> ELSE <<>>)

-----------------------------------------------------------------------------
\* The fold that S3Server uses for filepath.Join(s.root, bucket, key)
\* (bucket and key from ServeHTTP's SplitN) yields the path filepath.Clean
\* gives for the joined string, for every request path: "..", ".", empty
\* elements and a trailing "/" included.
JoinMatchesClean ==
    JoinPath(req.bucket, req.key) = CleanRef(SplitSlash(JoinedStr))

\* ServeMux passes a request path to S3Server exactly when cleaning leaves
\* it unchanged, and answers every other one with a redirect: the test
\* IsCleanURL that S3Server uses agrees with cleanPath on every path.
MuxCleanMatchesClean ==
    IsCleanURL(url) <=> (CleanURLRef = url)

\* Second keys written into the same bucket: every key of up to 3
\* characters.
MC_Keys == UNION {[1 .. n -> MC_Chars] : n \in 1 .. 3}

\* Any two keys written into a bucket are listed back as written (spec:
\* for all sets of keys K written into a bucket, ListObjects(bucket, "")
\* returns exactly K; a key maps onto a relative file path).  For the key
\* of this request and any second key k2 whose files lie below the bucket:
\* the key ListObjects reports for the file of PUT /bucket/key is that key,
\* and the file of key is not a directory on the way to the file of k2, so
\* that both PUTs can succeed (os.MkdirAll fails on a file in the path).
KeysListAsWritten ==
    LET b  == BucketPath(req.bucket)
        f1 == JoinPath(req.bucket, req.key)
    IN  \A k2 \in MC_Keys :
          LET f2 == JoinPath(req.bucket, k2) IN
          (/\ req.bucket \notin {<<>>, Dot, DotDot}
           /\ req.key # <<>> /\ IsStrictPrefix(b, f1) /\ IsStrictPrefix(b, f2))
              => /\ RelKey(b, f1) = req.key
                 /\ ~IsStrictPrefix(f1, f2)

=============================================================================

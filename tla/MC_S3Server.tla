---------------------------- MODULE MC_S3Server ----------------------------
(***************************************************************************)
(* S3Server instantiated for TLC: two request goroutines, one bucket "b"  *)
(* under the storage root "/r", the keys "d" and "d/k" (so that one key   *)
(* is a directory of the other), the bucket collection "/", and two       *)
(* bodies of different lengths and contents.                              *)
(***************************************************************************)
EXTENDS S3Server

MC_Chars == {"/", ".", "r", "b", "k", "d", "x", "y", "h", "e", "a", "l", "t"}
MC_Root  == << <<"r">> >>

\* "/", "/b", "/b/d", "/b/d/k"
MC_URLPaths ==
    { <<"/">>, <<"/", "b">>,
      <<"/", "b", "/", "d">>, <<"/", "b", "/", "d", "/", "k">> }

MC_Payloads == { <<"x", "x">>, <<"y">> }

\* one body for the liveness run: the lock and the reply paths do not
\* depend on what is written
MC_LivePayloads == { <<"y">> }

\* no prefix, and "d/", which selects "d/k" and not "d"
MC_QueryPrefixes == { <<>>, <<"d", "/">> }

\* Three goroutines for the liveness run, so that two readers can hold s.mu
\* while a writer waits in Lock and a third request arrives: GET, PUT and
\* DELETE of one object "/b/d" give readers and writers of one path.
MC_LiveProcs == {"p1", "p2", "p3"}
MC_LiveURLPaths == { <<"/", "b", "/", "d">> }

\* the liveness run: no reply path depends on the prefix
MC_LiveQueryPrefixes == { <<>> }

\* one object path exists at a time ("d" and "d/k" exclude each other),
\* and each goroutine may hold one more inode open
MC_MaxInode == 3

\* The safety run's paths behind the mux: the object paths and the health
\* route.
MC_MuxURLPaths == MC_URLPaths \cup { HealthPath }

\* Paths with dot-dot elements: "/b/k", "/../k" (bucket ".."), and
\* "/b/../../k" (bucket "b", key "../../k").
MC_TraversalURLPaths ==
    { <<"/", "b", "/", "k">>,
      <<"/", ".", ".", "/", "k">>,
      <<"/", "b", "/", ".", ".", "/", ".", ".", "/", "k">> }

\* Paths a client sends to the CLI server: the health route, a plain
\* object path, the two dot-dot paths, one with an empty element, and
\* "/%2e%2e/k", the first dot-dot path with its dots escaped.
MC_CLIURLPaths ==
    { HealthPath,
      <<"/", "%2e", "%2e", "/", "k">>,
      <<"/", "b", "/", "k">>,
      <<"/", ".", ".", "/", "k">>,
      <<"/", "b", "/", ".", ".", "/", ".", ".", "/", "k">>,
      <<"/", "b", "/", "/", "k">> }

\* "/r/b/k" and "/k", and one open file per goroutine
MC_TraversalMaxInode == 4

=============================================================================

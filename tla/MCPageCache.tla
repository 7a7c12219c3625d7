---------------------------- MODULE MCPageCache ----------------------------
(* An instance of PageCache: a file of up to three blocks on two pages and *)
(* a directory of one page, with room for one page in the cache.           *)
EXTENDS PageCache

CONSTANTS file, dir

MCSpan == [x \in {file, dir} |-> IF x = file THEN 3 ELSE 2]
=============================================================================

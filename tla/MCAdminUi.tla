----------------------------- MODULE MCAdminUi -----------------------------
(* Two rows of each list; two databases that have a table of the same name,
   whose columns differ; a person who works with one list at a time. *)
EXTENDS AdminUi
CONSTANTS item1, item2, d1, d2, pub, tbl, colx, coly, c1, c2, kid, run
Lone  == {{"projects"}, {"keys"}, {"collections"}, {"databases", "indexes"}, {"s3"}}
Paths == {<<d1, pub, tbl, colx>>, <<d2, pub, tbl, coly>>}
=============================================================================

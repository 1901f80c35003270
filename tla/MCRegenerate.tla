--------------------------- MODULE MCRegenerate ---------------------------
(* Regenerate on a folder with a style sheet, a subfolder with a page, and a  *)
(* second subfolder that only an earlier run has left, for TLC.               *)
EXTENDS Regenerate, TLC

CONSTANTS root, sub, page, style, old, start, first, second

MCOrder == <<root, old, style, sub, page>>
MCParent == old :> root @@ style :> root @@ sub :> root @@ page :> sub
MCDirs == {root, sub, old}
MCMd == {page}
MCCss == {style}
MCInitial == {root, style, sub, page}
MCStale == {root, old, sub, page}
MCFragile == {<<page, 2>>}
ThreeJobs == {start, first, second}
=============================================================================

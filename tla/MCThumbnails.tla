------------------------------ MODULE MCThumbnails ------------------------------
(* Thumbnails on small instances: three pictures, of which b cannot be decoded. *)
EXTENDS Thumbnails, TLC

CONSTANTS a, b, c

MCSizeOf == [p \in Pictures |-> CASE p = a -> 3 [] p = b -> 2 [] p = c -> 2]
MCInitial == <<a>>
MCInitialTwo == <<c, a>>
Symmetry == Permutations(Loaders)
==================================================================================

------------------------- MODULE MCReferencePipeline -------------------------
(* Instances of ReferencePipeline for TLC: what is asked in a behaviour. *)
EXTENDS ReferencePipeline

\* Every generator alone, with each unit its program touches.
Alone ==
  UNION {{[order |-> <<g>>, purposes |-> <<"generate">>, subject |-> u] : u \in Touched(g)}
           : g \in Generators}

\* A run of oracles that name one another, updated and then verified.
Chain ==
  <<"idd_schema", "imugi_idd_definitions_core", "imugi_idf_object_core", "reference">>
Together ==
  {[order |-> Chain, purposes |-> <<"update", "verify">>, subject |-> u]
     : u \in {"idd", "idd_schema", "imugi_idd_definitions_core", "reference", "rest",
             "packages", "interpreter"}}

MCPlans == Alone \cup Together
==============================================================================

------------------------------ MODULE Platform ------------------------------
(***************************************************************************)
(* What the models of the services around the transactions share: the     *)
(* users of the platform and the absence of a value.                       *)
(***************************************************************************)
CONSTANTS User,   \* users of the platform, by id
          None    \* Python's None

ASSUME NoneAssumption == None \notin User
=============================================================================

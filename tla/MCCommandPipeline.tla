------------------------- MODULE MCCommandPipeline -------------------------
(* Small instances of CommandPipeline for TLC.                              *)
EXTENDS CommandPipeline

CONSTANTS lock, unlock, charge, setCare, doors, charging, doorsLocked, isCharging, careTarget

\* Lock classes, as in coordinator._COMMAND_CLASS.
MCClassOf == [c \in Commands |-> IF c \in {lock, unlock} THEN doors ELSE charging]

\* Two commands on one field, or two that share their class's lock only.
MCExpected ==
    [c \in Commands |->
        IF c = lock THEN [k \in {doorsLocked} |-> TRUE]
        ELSE IF c = unlock THEN [k \in {doorsLocked} |-> FALSE]
        ELSE IF c = charge THEN [k \in {isCharging} |-> TRUE]
        ELSE [k \in {careTarget} |-> TRUE]]

\* Plain _cariad_cmd: no optimistic field.
MCNothingExpected == [c \in Commands |-> [k \in {} |-> TRUE]]

MCNoFallback == [c \in Commands |-> "none"]
MCMbb        == [c \in Commands |-> "mbb"]
MCOfficial   == [c \in Commands |-> "official"]
=============================================================================

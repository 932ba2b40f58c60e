----------------------------- MODULE Registers -----------------------------
(***************************************************************************)
(* The registers of a Sungrow SHx inverter as the device library sees      *)
(* them: fields, the components that own them, and the blocks in which     *)
(* they are read (sungrow_modbus/data_model.py, sungrow_modbus/sungrow.py).*)
(***************************************************************************)
EXTENDS Integers, FiniteSets

CONSTANTS
    Fields,      \* the declared fields of all components
    Components,  \* the components, as their positions in the components tuple
    Spaces,      \* the register spaces: "input" and "holding"
    MaxSpan,     \* SungrowComponent.max_span: registers in one pooled read
    Variants     \* the sets of registers that some inverter does not serve

Register == Spaces \X Nat

Field == [comp: Components, name: STRING, space: Spaces,
          addr: Nat, count: Nat \ {0}]

ReadBlock == [space: Spaces, addr: Nat, count: Nat \ {0}]

ASSUME ConstantsAssumption ==
    /\ Components \subseteq Nat
    /\ Fields \subseteq Field
    /\ IsFiniteSet(Fields)
    /\ MaxSpan \in Nat
    /\ \A f \in Fields : f.count <= MaxSpan
    /\ \A lacking \in Variants : lacking \subseteq Register

-----------------------------------------------------------------------------
(* Registers, fields and blocks *)

End(b) == b.addr + b.count

(* Two slips of the test below: without the register space, and off by one   *)
(* at the end of the block.                                                  *)
OverlapsAnySpace(f, b) == f.addr < End(b) /\ End(f) > b.addr

OverlapsShort(f, b) == f.space = b.space /\ f.addr < End(b) - 1 /\ End(f) > b.addr

(* The test of _drop_fields_in: the field shares a register with the block. *)
Overlaps(f, b) ==
    /\ f.space = b.space
    /\ f.addr < End(b)
    /\ End(f) > b.addr

(* A read of the block returns the whole field. *)
Covers(b, f) ==
    /\ f.space = b.space
    /\ b.addr <= f.addr
    /\ End(f) <= End(b)

Holds(b, r) == r[1] = b.space /\ r[2] >= b.addr /\ r[2] < End(b)

(* The inverter that lacks these registers answers a read only when it      *)
(* serves every register in it.                                             *)
ServedBy(lacking, b) == \A r \in lacking : ~Holds(b, r)

(* The block from the first register of f to the last one of g. *)
Span(f, g) == [space |-> f.space, addr |-> f.addr, count |-> End(g) - f.addr]

(* The blocks a plan may read next when the fields S are still to be read: *)
(* from one field of S to another, no wider than max_span.                 *)
Blocks(S) ==
    {Span(p[1], p[2]) : p \in {q \in S \X S : /\ q[1].space = q[2].space
                                              /\ q[1].addr < End(q[2])
                                              /\ End(q[2]) - q[1].addr <= MaxSpan}}

(* A register within one pooled read of the field, in the same space. *)
Near(r, f) ==
    /\ r[1] = f.space
    /\ r[2] < End(f) + MaxSpan - 1
    /\ f.addr < r[2] + MaxSpan

=============================================================================

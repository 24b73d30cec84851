------------------------------- MODULE Opcodes -------------------------------
(****************************************************************************)
(* The tables of internal/evm: operations with their code, data and flags,  *)
(* and the forks with the operations each adds and removes.                 *)
(****************************************************************************)
EXTENDS Integers, Sequences, TLC

\* Operations with consecutive codes.
LOCAL From(first, names) ==
  [n \in {names[i] : i \in DOMAIN names} |-> first - 1 + CHOOSE i \in DOMAIN names : names[i] = n]

LOCAL Numbered(name, first, last) ==
  [i \in 1..last - first + 1 |-> name \o ToString(first - 1 + i)]

Arithmetic ==
  From(0, <<"STOP", "ADD", "MUL", "SUB", "DIV", "SDIV", "MOD", "SMOD", "ADDMOD", "MULMOD", "EXP",
            "SIGNEXTEND">>)
  @@ From(16, <<"LT", "GT", "SLT", "SGT", "EQ", "ISZERO", "AND", "OR", "XOR", "NOT", "BYTE", "SHL",
                "SHR", "SAR", "CLZ">>)
  @@ From(32, <<"KECCAK256">>)

Environment ==
  From(48, <<"ADDRESS", "BALANCE", "ORIGIN", "CALLER", "CALLVALUE", "CALLDATALOAD", "CALLDATASIZE",
             "CALLDATACOPY", "CODESIZE", "CODECOPY", "GASPRICE", "EXTCODESIZE", "EXTCODECOPY",
             "RETURNDATASIZE", "RETURNDATACOPY", "EXTCODEHASH", "BLOCKHASH", "COINBASE",
             "TIMESTAMP", "NUMBER", "DIFFICULTY", "GASLIMIT", "CHAINID", "SELFBALANCE", "BASEFEE",
             "BLOBHASH", "BLOBBASEFEE", "SLOTNUM">>)
  @@ From(68, <<"RANDOM">>)

Control ==
  From(80, <<"POP", "MLOAD", "MSTORE", "MSTORE8", "SLOAD", "SSTORE", "JUMP", "JUMPI", "PC", "MSIZE",
             "GAS", "JUMPDEST", "TLOAD", "TSTORE", "MCOPY">>)

Pushes == From(95, Numbered("PUSH", 0, 32))

Copies == From(128, Numbered("DUP", 1, 16)) @@ From(144, Numbered("SWAP", 1, 16))

Tron == <<"CALLTOKEN", "TOKENBALANCE", "CALLTOKENVALUE", "CALLTOKENID", "ISCONTRACT", "FREEZE",
          "UNFREEZE", "FREEZEEXPIRETIME", "VOTEWITNESS", "WITHDRAWREWARD", "FREEZEBALANCEV2",
          "UNFREEZEBALANCEV2", "CANCELALLUNFREEZEV2", "WITHDRAWEXPIREUNFREEZE",
          "DELEGATERESOURCE", "UNDELEGATERESOURCE">>

Immediate == From(230, <<"DUPN", "SWAPN", "EXCHANGE">>)

Calls ==
  From(160, Numbered("LOG", 0, 4)) @@ From(208, Tron)
  @@ From(240, <<"CREATE", "CALL", "CALLCODE", "RETURN", "DELEGATECALL", "CREATE2">>)
  @@ From(250, <<"STATICCALL">>) @@ From(253, <<"REVERT">>) @@ From(255, <<"SELFDESTRUCT">>)
  @@ From(255, <<"SENDALL">>)

Code == Arithmetic @@ Environment @@ Control @@ Pushes @@ Copies @@ Immediate @@ Calls

Ops == DOMAIN Code

Push(op)         == op \in DOMAIN Pushes
PushSize(op)     == Code[op] - Code["PUSH0"]
PushOp(size)     == "PUSH" \o ToString(size)
HasImmediate(op) == op \in DOMAIN Immediate
JumpDest(op)     == op = "JUMPDEST"
Jump(op)         == op \in {"JUMP", "JUMPI"}
Unconditional(op) == op = "JUMP"
Term(op)         == op \in {"STOP", "RETURN", "REVERT", "SELFDESTRUCT", "SENDALL"}

\* The ranges of the codes: a push has its size in it, 91 is JUMPDEST, and no other
\* operation has a code from 91 to 127 but pushes.
ASSUME CodesAssumption ==
  /\ \A n \in 0..32 : PushOp(n) \in DOMAIN Pushes /\ Code[PushOp(n)] = 95 + n
  /\ \A op \in DOMAIN Pushes : op = PushOp(PushSize(op)) /\ PushSize(op) \in 0..32
  /\ \A op \in Ops \ DOMAIN Pushes : Code[op] \in (0..255) \ (95..127)
  /\ DOMAIN Pushes \cup DOMAIN Immediate \subseteq Ops
  /\ \A op \in Ops : Code[op] = 91 <=> op = "JUMPDEST"
  /\ "JUMPDEST" \in Ops /\ PushOp(0) = "PUSH0"
  /\ DOMAIN Immediate = {"DUPN", "SWAPN", "EXCHANGE"}
  /\ DOMAIN Pushes \cap {"DUPN", "SWAPN", "EXCHANGE", "PUSH", "JUMPDEST", "JUMP", "STOP", "RETURN",
                         "REVERT", "SELFDESTRUCT", "SENDALL", "none", "label", "#bytes"} = {}
  /\ Ops \cap {"PUSH", "none", "label", "#bytes"} = {}

-----------------------------------------------------------------------------
(* Forks.  A definition lists operations; their order has no effect on the   *)
(* set that results.                                                         *)

LatestFork == "osaka"

Fork(aliases, parent, added, removed) ==
  [aliases |-> aliases, parent |-> parent, added |-> added, removed |-> removed]

LOCAL Later == {
  "DELEGATECALL", "STATICCALL", "RETURNDATASIZE", "RETURNDATACOPY", "REVERT", "SHL", "SHR", "SAR",
  "EXTCODEHASH", "CREATE2", "CHAINID", "SELFBALANCE", "BASEFEE", "RANDOM", "PUSH0", "BLOBHASH",
  "BLOBBASEFEE", "TSTORE", "TLOAD", "MCOPY", "SENDALL", "CLZ", "SLOTNUM"}

NoParent == ""

LOCAL Frontier == Fork({}, NoParent,
  Ops \ (Later \cup DOMAIN Immediate \cup {Tron[i] : i \in DOMAIN Tron}), {})

Forks ==
  [frontier         |-> Frontier,
   homestead        |-> Fork({}, "frontier", {"DELEGATECALL"}, {}),
   tangerinewhistle |-> Fork({"eip150"}, "homestead", {}, {}),
   spuriousdragon   |-> Fork({"eip158"}, "tangerinewhistle", {}, {}),
   byzantium        |-> Fork({}, "spuriousdragon",
                             {"STATICCALL", "RETURNDATASIZE", "RETURNDATACOPY", "REVERT"}, {}),
   petersburg       |-> Fork({}, "byzantium", {}, {}),
   constantinople   |-> Fork({}, "petersburg", {"SHL", "SHR", "SAR", "EXTCODEHASH", "CREATE2"}, {}),
   istanbul         |-> Fork({}, "constantinople", {"CHAINID", "SELFBALANCE"}, {}),
   berlin           |-> Fork({}, "istanbul", {}, {}),
   london           |-> Fork({}, "berlin", {"BASEFEE"}, {}),
   paris            |-> Fork({"merge"}, "london", {"RANDOM"}, {"DIFFICULTY"}),
   shanghai         |-> Fork({}, "paris", {"PUSH0"}, {}),
   cancun           |-> Fork({}, "shanghai", {"BLOBHASH", "BLOBBASEFEE", "TSTORE", "TLOAD", "MCOPY",
                                              "SENDALL"}, {"SELFDESTRUCT"}),
   prague           |-> Fork({}, "cancun", {}, {}),
   osaka            |-> Fork({}, "prague", {"CLZ"}, {}),
   amsterdam        |-> Fork({}, "osaka", DOMAIN Immediate \cup {"SLOTNUM"}, {}),
   tron             |-> Fork({}, "shanghai", {Tron[i] : i \in DOMAIN Tron}, {})]
==============================================================================

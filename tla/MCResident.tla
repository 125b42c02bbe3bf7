----------------------------- MODULE MCResident -----------------------------
(* A small instance of Resident: the disabled default account of a program   *)
(* configured by FEISHU_ACCOUNTS_JSON, and two accounts of their own.        *)
EXTENDS Resident

MCConfigs ==
    << [account |-> "default", enabled |-> FALSE, token |-> "none", secret |-> "none", auth |-> "none"],
       [account |-> "a",       enabled |-> TRUE,  token |-> "ta",   secret |-> "sa",   auth |-> "app"],
       [account |-> "b",       enabled |-> TRUE,  token |-> "tb",   secret |-> "none", auth |-> "preissued"] >>

MCScripts ==
    { << "send", "notification", "tools_list" >>,
      << "notification", "login", "send" >>,
      << "garbled", "send", "cut" >> }

MCRowIds == MessageIds \cup 1 .. MaxLines
=============================================================================

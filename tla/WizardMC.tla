------------------------------ MODULE WizardMC ------------------------------
(* Two disks, the first with a table cfdisk may extend by a swap partition. *)
EXTENDS Wizard

DisksMC == << "sda", "sdb" >>
TablesMC == [ sda |-> { {<<"sda", 1>>, <<"sda", 2>>},
                        {<<"sda", 1>>, <<"sda", 2>>, <<"sda", 3>>} },
              sdb |-> { {<<"sdb", 1>>, <<"sdb", 2>>} } ]
UsualMountsMC == { <<"boot", <<d, 1>> >> : d \in {"sda", "sdb"} }
                   \cup { <<"root", <<d, 2>> >> : d \in {"sda", "sdb"} }
=============================================================================

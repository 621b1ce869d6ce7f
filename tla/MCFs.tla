-------------------------------- MODULE MCFs --------------------------------
EXTENDS Fs, TLC
Root(elems) == [abs |-> 1, elems |-> elems]
Here(elems) == [abs |-> 0, elems |-> elems]
Do(op, path) == [op |-> op, path |-> path]
Open(path, mode) == [op |-> "open", path |-> path, mode |-> mode]
Create(path, type) == [op |-> "create", path |-> path, type |-> type]
Link(old, new) == [op |-> "link", path |-> old, new |-> new]

TreeCalls == <<{Create(Root(<<"d">>), "dir"), Create(Here(<<"a">>), "file"),
                Do("chdir", Root(<<"d">>)), Link(Here(<<"a">>), Root(<<"d", "a">>))},
               {Do("unlink", Root(<<"d">>)), Do("unlink", Root(<<"d", "a">>)),
                Create(Root(<<"d", "a">>), "file"), Open(Root(<<"d">>), "O_RDONLY"), Open(Root(<<"d">>), "O_RDWR")}>>
=============================================================================

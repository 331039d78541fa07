SPECIFICATION Spec
CONSTANTS
    None = None
    Type = Type
    First = First
    Rest = Rest
    Nil = Nil
    ListType = ListType
    b1 = b1  b2 = b2  b3 = b3  b4 = b4  b5 = b5  b6 = b6  b7 = b7  b8 = b8  b9 = b9
    n1 = n1  n2 = n2  p = p  q = q  c = c  bad = bad
    Blanks <- MCBlanks
    Iris <- MCIris
    Invalids <- MCInvalids
    Generated <- MCGenerated
    Objects <- MCObjects
    Passes <- MCPasses
    Datasets <- MCDatasets
    Key <- KeyOf
    Discriminant <- DiscriminantOf
    FullHash <- MCFullHash
    Start <- StartOf
    Rewrite <- RewriteObject
    MaxObjects = 3
    MaxPasses = 2
INVARIANTS
    RewriteKeeps
    QuadsExact
    ReadBack
PROPERTY
    ServesASet
CHECK_DEADLOCK FALSE

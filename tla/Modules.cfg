SPECIFICATION Spec
CONSTANTS
    c1 = c1  c2 = c2
    o = o  nil = nil
    Ctx <- MCCtx
    Names <- MCNames
    Qualified <- MCQualified
    Exports <- MCExports
    Plain = {}
    Objects = {o}
    Nil = nil
    MaxDepth = 2
    MaxLoaders = 2
SYMMETRY Symm
VIEW WithoutResult
INVARIANTS
    TypeOK
    MarkedWhileLoading
    CurrentIsInnermost
    LoadersOutliveImport
    ImportsAgree
PROPERTY LoadedStays

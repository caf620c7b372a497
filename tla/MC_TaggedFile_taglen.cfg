CONSTANTS
    HeaderLen = 32
    SizeMod = 65536
    Types <- MC_Types
    Tags <- MC_Tags
    Datas <- MC_Datas
    OutLens <- MC_OutLens
    Foreign <- MC_Foreign
SPECIFICATION Spec
INVARIANT TagInsideHeader
